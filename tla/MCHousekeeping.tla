--------------------------- MODULE MCHousekeeping ---------------------------
(* Two structures, either of them as housekeeping and as diagnostics report,  *)
(* two of them in hkPool; two cycles make a second.                          *)
EXTENDS Housekeeping

CONSTANTS s1, s2

MCMaxDefinitions == [k \in Kind |-> IF k = "hk" THEN 2 ELSE 1]
MCElementSizes == <<2, 1>>
MCNElements == <<2, 1>>
=============================================================================
