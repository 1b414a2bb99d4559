---------------------------- MODULE MCSubsystem ----------------------------
(* Two children that are OFF in the safe mode and ON in the operational one; *)
(* on the way to it b is switched on only after a has been checked and some  *)
(* time has passed.  Each sequence falls back on SAFE.                       *)
EXTENDS Subsystem, TLC

CONSTANTS a, b, ON, SAFE, OP

Both(m) == [c \in {a, b} |-> m]
Only(c, m) == c :> m
MCFallback == [s \in {SAFE, OP} |-> SAFE]
MCTarget == SAFE :> Both(OFF) @@ OP :> Both(ON)
MCSteps ==
  SAFE :> <<[table |-> Both(OFF), check |-> FALSE, wait |-> FALSE]>>
  @@ OP :> <<[table |-> Only(a, ON), check |-> TRUE, wait |-> TRUE],
             [table |-> Only(b, ON), check |-> FALSE, wait |-> FALSE]>>
=============================================================================
