------------------------- MODULE MCDeviceExchange --------------------------
(* Commands with one reply, with a periodic reply and with none; replies may *)
(* come in the same cycle, in the next one or never.                         *)
EXTENDS DeviceExchange

CONSTANTS direct, periodic, mute, p1, p2

MCmaxDelayCycles == [r \in WithReply |-> IF r = direct THEN 2 ELSE 1]
=============================================================================
