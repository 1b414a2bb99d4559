----------------------------- MODULE TmDownlink -----------------------------
(***************************************************************************)
(* The telemetry path.  A PUS service allocates a packet in the TM store   *)
(* and sends its address to the TmFunnel, which stamps the source sequence *)
(* count and sends the address on to the bridge (TmTcBridge with the       *)
(* sendTm of ESBOTmBridge).  The bridge sends the data to the ground and   *)
(* deletes the packet, or keeps the address in a FIFO while the link is    *)
(* down or more than sentPacketsPerCycle packets came in one cycle.        *)
(*                                                                         *)
(* Services, funnel and bridge run in tasks of their own.  A step of the   *)
(* model is one access to what they share: the store, a message queue, or  *)
(* the link flag.                                                          *)
(***************************************************************************)
EXTENDS Integers, Sequences, AddressQueues

CONSTANTS
  Service,              \* PUS services that produce telemetry
  NSlots,               \* elements of the TM store; address 0 is its first one
  FunnelDepth,          \* depth of TmFunnel::tmQueue
  BridgeDepth,          \* TMTC_RECEPTION_QUEUE_DEPTH
  FifoDepth,            \* maxNumberOfPacketsStored
  SentPacketsPerCycle,  \* sentPacketsPerCycle
  SequenceLimit,        \* SpacePacketBase::LIMIT_SEQUENCE_COUNT
  OverwriteOld,         \* overwriteOld
  Free, Reserved        \* slots without a packet

ASSUME TmAssumption ==
  /\ NSlots \in Nat \ {0}
  /\ FunnelDepth \in Nat \ {0}
  /\ BridgeDepth \in Nat \ {0}
  /\ FifoDepth \in Nat
  /\ SentPacketsPerCycle \in Nat
  /\ SequenceLimit \in Nat \ {0}
  /\ OverwriteOld \in BOOLEAN
  /\ Service \cap {"funnel", "bridge", "funnelQueue", "bridgeQueue", "fifo", "none"} = {}

Slot == 0 .. NSlots - 1
NoSlot == -1
NotStamped == -1

(* What the path tells apart in a TM packet: who made it, and its source   *)
(* sequence count.                                                         *)
Packet == Service \X (0 .. SequenceLimit - 1 \cup {NotStamped})

VARIABLES
  tmStore,              \* the TM store: slot -> packet or Free
  created,              \* service -> slot of the TmPacketStored it works on
  funnelQueue,          \* TmFunnel::tmQueue
  funnel,               \* TmFunnel::performOperation: next step and message
  sourceSequenceCount,  \* TmFunnel::sourceSequenceCount
  bridgeQueue,          \* TmTcBridge::tmTcReceptionQueue
  bridge,               \* TmTcBridge::performOperation: next step and message
  tmFifo, tmStored, packetSentCounter, communicationLinkUp

vars == <<tmStore, created, funnelQueue, funnel, sourceSequenceCount, bridgeQueue,
          bridge, tmFifo, tmStored, packetSentCounter, communicationLinkUp>>
funnelVars == <<funnel, sourceSequenceCount>>
bridgeVars == <<bridge, tmFifo, tmStored, packetSentCounter>>

At(step, slot) == [step |-> step, slot |-> slot]

Init == /\ tmStore = [s \in Slot |-> Free]
        /\ created = [v \in Service |-> NoSlot]
        /\ funnelQueue = << >>
        /\ funnel = At("receive", NoSlot)
        /\ sourceSequenceCount = 0
        /\ bridgeQueue = << >>
        /\ bridge = At("receive", NoSlot)
        /\ tmFifo = << >>
        /\ tmStored = FALSE
        /\ packetSentCounter = 0
        /\ communicationLinkUp = TRUE

-----------------------------------------------------------------------------
(* TmPacketStored: the constructor allocates and writes the packet.  When  *)
(* the store is full, the constructor for raw data loses the telemetry and *)
(* nothing changes; that for SerializeIF content goes on with a null       *)
(* pointer, and nothing happens after that either.                         *)
CreatePacket(v) ==
  \E s \in Slot :
    /\ created[v] = NoSlot
    /\ tmStore[s] = Free
    /\ tmStore' = [tmStore EXCEPT ![s] = <<v, NotStamped>>]
    /\ created' = [created EXCEPT ![v] = s]
    /\ UNCHANGED <<funnelQueue, funnelVars, bridgeQueue, bridgeVars, communicationLinkUp>>

(* Seeded fault: sendPacket does not delete what it could not send. *)
SendPacket_Leak(v) ==
  /\ created[v] # NoSlot
  /\ created' = [created EXCEPT ![v] = NoSlot]
  /\ IF Len(funnelQueue) < FunnelDepth
     THEN funnelQueue' = Append(funnelQueue, created[v])
     ELSE UNCHANGED funnelQueue
  /\ UNCHANGED <<tmStore, funnelVars, bridgeQueue, bridgeVars, communicationLinkUp>>

(* sendPacket: a packet that the funnel's queue cannot take is deleted.    *)
SendPacket(v) ==
  /\ created[v] # NoSlot
  /\ created' = [created EXCEPT ![v] = NoSlot]
  /\ IF Len(funnelQueue) < FunnelDepth
     THEN funnelQueue' = Append(funnelQueue, created[v]) /\ UNCHANGED tmStore
     ELSE tmStore' = [tmStore EXCEPT ![created[v]] = Free] /\ UNCHANGED funnelQueue
  /\ UNCHANGED <<funnelVars, bridgeQueue, bridgeVars, communicationLinkUp>>

-----------------------------------------------------------------------------
(* TmFunnel::performOperation receives a message ... *)
FunnelReceive ==
  /\ funnel.step = "receive"
  /\ funnelQueue # << >>
  /\ funnel' = At("stamp", Head(funnelQueue))
  /\ funnelQueue' = Tail(funnelQueue)
  /\ UNCHANGED <<tmStore, created, sourceSequenceCount, bridgeQueue, bridgeVars,
                 communicationLinkUp>>

(* Seeded fault: the count is not reduced to the 14 bits of its field. *)
FunnelStamp_NoWrap ==
  LET s == funnel.slot IN
  /\ funnel.step = "stamp"
  /\ funnel' = At("send", s)
  /\ tmStore' = [tmStore EXCEPT ![s] = <<tmStore[s][1], sourceSequenceCount>>]
  /\ sourceSequenceCount' = sourceSequenceCount + 1
  /\ UNCHANGED <<created, funnelQueue, bridgeQueue, bridgeVars, communicationLinkUp>>

(* ... handlePacket writes the count into the packet, or gives up when     *)
(* there is no packet at the address ...                                   *)
FunnelStamp ==
  LET s == funnel.slot IN
  /\ funnel.step = "stamp"
  /\ IF tmStore[s] = Free
     THEN /\ funnel' = At("receive", NoSlot)
          /\ UNCHANGED <<tmStore, sourceSequenceCount>>
     ELSE /\ funnel' = At("send", s)
          /\ tmStore' = [tmStore EXCEPT ![s] = <<tmStore[s][1], sourceSequenceCount>>]
          /\ sourceSequenceCount' = (sourceSequenceCount + 1) % SequenceLimit
  /\ UNCHANGED <<created, funnelQueue, bridgeQueue, bridgeVars, communicationLinkUp>>

(* ... and sends the address to the bridge, or deletes the packet.  After  *)
(* a failure the loop ends: the next cycle goes on with the next message.  *)
FunnelSend ==
  LET s == funnel.slot IN
  /\ funnel.step = "send"
  /\ funnel' = At("receive", NoSlot)
  /\ IF Len(bridgeQueue) < BridgeDepth
     THEN bridgeQueue' = Append(bridgeQueue, s) /\ UNCHANGED tmStore
     ELSE tmStore' = [tmStore EXCEPT ![s] = Free] /\ UNCHANGED bridgeQueue
  /\ UNCHANGED <<created, funnelQueue, sourceSequenceCount, bridgeVars, communicationLinkUp>>

-----------------------------------------------------------------------------
(* TmTcBridge::handleTmQueue *)
BridgeReceive ==
  LET s == Head(bridgeQueue) IN
  /\ bridge.step = "receive"
  /\ bridgeQueue # << >>
  /\ bridgeQueue' = Tail(bridgeQueue)
  /\ bridge' = IF ~communicationLinkUp \/ packetSentCounter >= SentPacketsPerCycle
               THEN At("keep", s)
               ELSE IF tmStore[s] = Free THEN At("receive", NoSlot)  \* getData fails
               ELSE At("send", s)
  /\ UNCHANGED <<tmStore, created, funnelQueue, funnelVars, tmFifo, tmStored,
                 packetSentCounter, communicationLinkUp>>

(* sendTm of ESBOTmBridge reports success whatever sendto returned. *)
BridgeSend ==
  /\ bridge.step = "send"
  /\ bridge' = At("receive", NoSlot)
  /\ tmStore' = [tmStore EXCEPT ![bridge.slot] = Free]
  /\ packetSentCounter' = packetSentCounter + 1
  /\ UNCHANGED <<created, funnelQueue, funnelVars, bridgeQueue, tmFifo, tmStored,
                 communicationLinkUp>>

(* TmTcBridge::storeDownlinkData makes room in a full FIFO or gives up.    *)
(* retrieve leaves storeId at its initial value 0 when the FIFO is empty,  *)
(* that is, when it has no capacity.                                       *)
FifoFull == Len(tmFifo) = FifoDepth
Oldest == IF tmFifo = << >> THEN 0 ELSE Head(tmFifo)

(* Seeded fault: the oldest packet is taken out, but not deleted. *)
BridgeMakeRoom_Leak ==
  /\ bridge.step = "keep"
  /\ FifoFull
  /\ bridge' = IF OverwriteOld THEN At("insert", bridge.slot) ELSE At("receive", NoSlot)
  /\ tmFifo' = IF OverwriteOld /\ tmFifo # << >> THEN Tail(tmFifo) ELSE tmFifo
  /\ UNCHANGED <<tmStore, created, funnelQueue, funnelVars, bridgeQueue, tmStored,
                 packetSentCounter, communicationLinkUp>>

BridgeMakeRoom ==
  /\ bridge.step = "keep"
  /\ FifoFull
  /\ bridge' = IF OverwriteOld THEN At("insert", bridge.slot) ELSE At("receive", NoSlot)
  /\ tmFifo' = IF OverwriteOld /\ tmFifo # << >> THEN Tail(tmFifo) ELSE tmFifo
  /\ tmStore' = IF OverwriteOld THEN [tmStore EXCEPT ![Oldest] = Free] ELSE tmStore
  /\ UNCHANGED <<created, funnelQueue, funnelVars, bridgeQueue, tmStored,
                 packetSentCounter, communicationLinkUp>>

(* Then it inserts the address; insert refuses when the FIFO is full.      *)
BridgeKeep ==
  /\ bridge.step = "insert" \/ (bridge.step = "keep" /\ ~FifoFull)
  /\ bridge' = At("receive", NoSlot)
  /\ tmFifo' = IF FifoFull THEN tmFifo ELSE Append(tmFifo, bridge.slot)
  /\ tmStored' = TRUE
  /\ UNCHANGED <<tmStore, created, funnelQueue, funnelVars, bridgeQueue,
                 packetSentCounter, communicationLinkUp>>

(* Seeded fault: the counter is not reset at the end of a cycle without    *)
(* stored packets.                                                         *)
BridgeQueueEmpty_CounterNotReset ==
  /\ bridge.step = "receive"
  /\ bridgeQueue = << >>
  /\ IF tmStored /\ communicationLinkUp /\ packetSentCounter < SentPacketsPerCycle
     THEN bridge' = At("stored", NoSlot)
     ELSE UNCHANGED bridge
  /\ UNCHANGED <<tmStore, created, funnelQueue, funnelVars, bridgeQueue, tmFifo, tmStored,
                 packetSentCounter, communicationLinkUp>>

(* TmTcBridge::handleTm, once the queue is empty: send what is stored, or  *)
(* end the cycle.                                                          *)
BridgeQueueEmpty ==
  /\ bridge.step = "receive"
  /\ bridgeQueue = << >>
  /\ IF tmStored /\ communicationLinkUp /\ packetSentCounter < SentPacketsPerCycle
     THEN bridge' = At("stored", NoSlot) /\ UNCHANGED packetSentCounter
     ELSE packetSentCounter' = 0 /\ UNCHANGED bridge
  /\ UNCHANGED <<tmStore, created, funnelQueue, funnelVars, bridgeQueue, tmFifo, tmStored,
                 communicationLinkUp>>

(* TmTcBridge::handleStoredTm *)
BridgeRetrieve ==
  /\ bridge.step = "stored"
  /\ tmFifo # << >> /\ packetSentCounter < SentPacketsPerCycle
  /\ bridge' = At("sendStored", Head(tmFifo))
  /\ tmFifo' = Tail(tmFifo)
  /\ UNCHANGED <<tmStore, created, funnelQueue, funnelVars, bridgeQueue, tmStored,
                 packetSentCounter, communicationLinkUp>>

BridgeSendStored ==
  /\ bridge.step = "sendStored"
  /\ bridge' = At("stored", NoSlot)
  /\ packetSentCounter' = packetSentCounter + 1
  /\ tmStored' = (tmStored /\ tmFifo # << >>)
  /\ tmStore' = [tmStore EXCEPT ![bridge.slot] = Free]
  /\ UNCHANGED <<created, funnelQueue, funnelVars, bridgeQueue, tmFifo, communicationLinkUp>>

BridgeStoredDone ==
  /\ bridge.step = "stored"
  /\ tmFifo = << >> \/ packetSentCounter >= SentPacketsPerCycle
  /\ bridge' = At("receive", NoSlot)
  /\ packetSentCounter' = 0
  /\ UNCHANGED <<tmStore, created, funnelQueue, funnelVars, bridgeQueue, tmFifo, tmStored,
                 communicationLinkUp>>

(* registerCommConnect and registerCommDisconnect, from another task *)
RegisterComm(up) ==
  /\ communicationLinkUp' = up
  /\ UNCHANGED <<tmStore, created, funnelQueue, funnelVars, bridgeQueue, bridgeVars>>

-----------------------------------------------------------------------------
FunnelStep == FunnelReceive \/ FunnelStamp \/ FunnelSend
BridgeStep == \/ BridgeReceive \/ BridgeSend \/ BridgeMakeRoom \/ BridgeKeep
              \/ BridgeQueueEmpty \/ BridgeRetrieve \/ BridgeSendStored \/ BridgeStoredDone

Next == \/ \E v \in Service : CreatePacket(v) \/ SendPacket(v)
        \/ FunnelStep
        \/ BridgeStep
        \/ \E up \in BOOLEAN : RegisterComm(up)

(* Funnel and bridge run periodically, and a service that has created a    *)
(* packet sends it: none of them waits for anything.                       *)
Fairness == /\ WF_vars(FunnelStep)
            /\ WF_vars(BridgeStep)
            /\ \A v \in Service : WF_vars(SendPacket(v))

Spec == Init /\ [][Next]_vars
FairSpec == Spec /\ Fairness

-----------------------------------------------------------------------------
SlotOrNone == Slot \cup {NoSlot}

(* Every variable has its type, and no queue is over its depth. *)
TypeOK ==
  /\ tmStore \in [Slot -> Packet \cup {Free}]
  /\ created \in [Service -> SlotOrNone]
  /\ funnelQueue \in Seq(Slot) /\ Len(funnelQueue) <= FunnelDepth
  /\ funnel \in [step : {"receive", "stamp", "send"}, slot : SlotOrNone]
  /\ sourceSequenceCount \in 0 .. SequenceLimit - 1
  /\ bridgeQueue \in Seq(Slot) /\ Len(bridgeQueue) <= BridgeDepth
  /\ bridge \in [step : {"receive", "send", "keep", "insert", "stored", "sendStored"},
                 slot : SlotOrNone]
  /\ tmFifo \in Seq(Slot) /\ Len(tmFifo) <= FifoDepth
  /\ tmStored \in BOOLEAN
  /\ packetSentCounter \in Nat
  /\ communicationLinkUp \in BOOLEAN

(* Where the address of a packet can be: with a service, in a queue, with  *)
(* the funnel or the bridge, in the FIFO.                                  *)
HeldBy(s, place) ==
  \/ place \in Service /\ created[place] = s
  \/ place = "funnelQueue" /\ In(s, funnelQueue)
  \/ place = "funnel" /\ funnel.slot = s
  \/ place = "bridgeQueue" /\ In(s, bridgeQueue)
  \/ place = "bridge" /\ bridge.slot = s
  \/ place = "fifo" /\ In(s, tmFifo)

Place == Service \cup {"funnelQueue", "funnel", "bridgeQueue", "bridge", "fifo"}

(* Nobody ever works on a packet that is not there, and no packet is       *)
(* forgotten in the store: the address of a packet is in exactly one place *)
(* of the path, and once in it, from its creation to its deletion; the     *)
(* address of a free slot is nowhere.                                      *)
OneHolder ==
  /\ \A s \in Slot, p, q \in Place : HeldBy(s, p) /\ HeldBy(s, q) => p = q
  /\ \A s \in Slot : tmStore[s] # Free <=> \E p \in Place : HeldBy(s, p)
  /\ NoDuplicates(funnelQueue) /\ NoDuplicates(bridgeQueue) /\ NoDuplicates(tmFifo)

(* The path implements the token discipline of the stores: every step is   *)
(* one of a holder on a packet of its own.                                 *)
HolderOf(s) == IF \E p \in Place : HeldBy(s, p)
               THEN CHOOSE p \in Place : HeldBy(s, p)
               ELSE "none"

Tokens == INSTANCE TokenStore WITH
            Holder <- Place, Nobody <- "none",
            content <- tmStore, holder <- [s \in Slot |-> HolderOf(s)]

ImplementsTokenStore == Tokens!Spec

-----------------------------------------------------------------------------
(* When the link stays up and the services fall silent, everything is sent *)
(* and the TM store is empty in the end.                                   *)
Silent == communicationLinkUp /\ \A v \in Service : created[v] = NoSlot
DrainsWhenSilent == <>[]Silent => <>[](\A s \in Slot : tmStore[s] = Free)

=============================================================================
