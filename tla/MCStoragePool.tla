--------------------------- MODULE MCStoragePool ---------------------------
(* Two tasks on a pool of two sizes: two elements of two bytes and one of  *)
(* four; one packet fits both sizes and one only the larger.               *)
EXTENDS StoragePool

CONSTANTS small, large

MCPacket == {small, large}
MCSizeOf == [p \in MCPacket |-> IF p = small THEN 2 ELSE 3]
MCElementSize == [p \in 0..1 |-> IF p = 0 THEN 2 ELSE 4]
MCNElements == [p \in 0..1 |-> IF p = 0 THEN 2 ELSE 1]
=============================================================================
