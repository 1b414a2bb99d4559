------------------------ MODULE MCCommandingService ------------------------
(* Three telecommands: all for one object, for two objects in turn, for    *)
(* more objects than the map has entries, and one without a valid object.  *)
EXTENDS CommandingService

CONSTANTS o1, o2, o3

MCTargets == {<<o1, o1, o1>>, <<o1, o2, o1>>, <<o1, o2, o3>>,
              <<o1, "NO_OBJECT", o1>>}

(* Telecommands for one object. *)
OneTarget == {[tc \in Telecommand |-> o1]}
=============================================================================
