---------------------------- MODULE AddressQueues ----------------------------
(***************************************************************************)
(* The message queues between tasks as the properties of the two paths see *)
(* them: which addresses are in a queue, and whether one is in it twice.   *)
(***************************************************************************)
EXTENDS Integers, Sequences

In(s, queue) == \E i \in 1 .. Len(queue) : queue[i] = s

NoDuplicates(queue) ==
  \A i, j \in 1 .. Len(queue) : queue[i] = queue[j] => i = j
=============================================================================
