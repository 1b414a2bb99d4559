--------------------------- MODULE MCDeviceModes ---------------------------
(* The parent and the ground command; transitions of the child and of the   *)
(* switch may take two cycles or too long; the third fault in a row is one   *)
(* too many.                                                                 *)
EXTENDS DeviceModes
=============================================================================
