----------------------------- MODULE MCTcUplink -----------------------------
(* Four telecommands: two for a service, one for another one that is       *)
(* malformed, one for a service that does not exist.                       *)
EXTENDS TcUplink

CONSTANTS tc1, tc2, bad, lost, v1, v2

MCServiceOf == [tc \in Telecommand |->
                  CASE tc \in {tc1, tc2} -> v1 [] tc = bad -> v2 [] tc = lost -> "none"]
=============================================================================
