-------------------------------- MODULE MCHunks --------------------------------
(***************************************************************************)
(* Bytes of eight values, so that there are 64 addresses.                  *)
(***************************************************************************)
EXTENDS Converters

MCFormats == {"DEFAULT", "RAS", "RAW"}
MCOrigins == {2, 4, 62}
MCFills   == {0}
MCLengths == {0, 3}
=============================================================================
