---------------------------- MODULE MCPassDriver ----------------------------
(* Values for model checking PassDriver: one error that is not fatal next to  *)
(* the two the loop itself reports, one reason, one request per pass.         *)
EXTENDS PassDriver

MCCounts  == 0 .. 1
MCReasons == {"PHASE_ERROR"}
MCErrors  == {TooManyPasses, FileError, "ERROR_LABEL_MISMATCH"}
MCFatalErrors == {TooManyPasses, FileError}
=============================================================================
