-------------------------- MODULE TmDownlink_proofs --------------------------
(***************************************************************************)
(* Theorems about the telemetry path, for any number of services and       *)
(* packets and any depth of the queues.  The first part is type            *)
(* correctness; the second one is that the address of a packet is in one   *)
(* place only, which depends on how the FIFO is configured.                *)
(***************************************************************************)
EXTENDS TmDownlink, TLAPS

-----------------------------------------------------------------------------
(***************************************************************************)
(* What sending and receiving do to a queue of addresses.                  *)
(***************************************************************************)
\* What a queue is after a message is sent or received
LEMMA Lengths ==
  ASSUME NEW S, NEW queue \in Seq(S), NEW depth \in Nat, Len(queue) <= depth
  PROVE  /\ \A s \in S : Len(queue) < depth
              => Append(queue, s) \in Seq(S) /\ Len(Append(queue, s)) <= depth
         /\ queue # << >> => /\ Head(queue) \in S
                             /\ Tail(queue) \in Seq(S) /\ Len(Tail(queue)) <= depth
  OBVIOUS

\* Who is in a queue after a message is sent or received
LEMMA Sent ==
  ASSUME NEW S, NEW queue \in Seq(S), NEW s \in S
  PROVE  /\ \A r \in S : In(r, Append(queue, s)) <=> In(r, queue) \/ r = s
         /\ NoDuplicates(queue) /\ ~In(s, queue) => NoDuplicates(Append(queue, s))
<1> DEFINE next == Append(queue, s)
<1>1. /\ Len(queue) \in Nat /\ Len(next) = Len(queue) + 1 /\ next[Len(queue) + 1] = s
      /\ \A i \in 1 .. Len(queue) : next[i] = queue[i]
  OBVIOUS
<1>2. ASSUME NEW r \in S PROVE In(r, next) <=> In(r, queue) \/ r = s
  <2>1. ASSUME In(r, queue) PROVE In(r, next)
    BY <1>1, <2>1 DEF In
  <2>2. In(s, next)
    BY <1>1 DEF In
  <2>3. ASSUME In(r, next) PROVE In(r, queue) \/ r = s
    <3>1. PICK i \in 1 .. Len(next) : next[i] = r
      BY <2>3 DEF In
    <3>2. i \in 1 .. Len(queue) \/ i = Len(queue) + 1
      BY <1>1
    <3> QED BY <1>1, <3>1, <3>2 DEF In
  <2> QED BY <2>1, <2>2, <2>3
<1>3. ASSUME NoDuplicates(queue), ~In(s, queue) PROVE NoDuplicates(next)
  <2> SUFFICES ASSUME NEW i \in 1 .. Len(next), NEW j \in 1 .. Len(next), next[i] = next[j]
               PROVE  i = j
    BY DEF NoDuplicates
  <2>1. /\ i \in 1 .. Len(queue) \/ i = Len(queue) + 1
        /\ j \in 1 .. Len(queue) \/ j = Len(queue) + 1
    BY <1>1
  <2> HIDE DEF next
  <2> QED BY <1>1, <1>3, <2>1 DEF NoDuplicates, In
<1> QED BY <1>2, <1>3

LEMMA Received ==
  ASSUME NEW S, NEW queue \in Seq(S), queue # << >>, NoDuplicates(queue)
  PROVE  /\ Head(queue) \in S /\ In(Head(queue), queue)
         /\ NoDuplicates(Tail(queue))
         /\ \A r \in S : In(r, Tail(queue)) <=> In(r, queue) /\ r # Head(queue)
<1> DEFINE next == Tail(queue)
<1>1. /\ Len(queue) \in Nat \ {0} /\ Len(next) = Len(queue) - 1 /\ Head(queue) = queue[1]
      /\ \A i \in 1 .. Len(queue) - 1 : next[i] = queue[i + 1]
      /\ Head(queue) \in S
  OBVIOUS
<1> HIDE DEF next
<1>2. In(Head(queue), queue)
  BY <1>1 DEF In
<1>3. NoDuplicates(next)
  BY <1>1 DEF NoDuplicates
<1>4. ASSUME NEW r \in S PROVE In(r, next) <=> In(r, queue) /\ r # Head(queue)
  <2>1. ASSUME In(r, next) PROVE In(r, queue) /\ r # Head(queue)
    <3>1. PICK i \in 1 .. Len(next) : next[i] = r
      BY <2>1 DEF In
    <3>2. i + 1 \in 1 .. Len(queue) /\ queue[i + 1] = r /\ i + 1 # 1
      BY <1>1, <3>1
    <3>3. 1 \in 1 .. Len(queue)
      BY <1>1
    <3> QED BY <1>1, <3>2, <3>3 DEF In, NoDuplicates
  <2>2. ASSUME In(r, queue), r # Head(queue) PROVE In(r, next)
    <3>1. PICK i \in 1 .. Len(queue) : queue[i] = r
      BY <2>2 DEF In
    <3>2. i - 1 \in 1 .. Len(next) /\ next[i - 1] = queue[i]
      BY <1>1, <2>2, <3>1
    <3> QED BY <3>1, <3>2 DEF In
  <2> QED BY <2>1, <2>2
<1> QED BY <1>1, <1>2, <1>3, <1>4 DEF next

-----------------------------------------------------------------------------

\* A task works on a packet in some steps only
HasSlot == /\ funnel.step # "receive" => funnel.slot \in Slot
           /\ bridge.step \notin {"receive", "stored"} => bridge.slot \in Slot

Typed == TypeOK /\ HasSlot

-----------------------------------------------------------------------------
(***************************************************************************)
(* Type correctness.                                                       *)
(***************************************************************************)
LEMMA InitTyped == Init => Typed
<1> SUFFICES ASSUME Init PROVE Typed
  OBVIOUS
<1>1. 0 \in 0 .. SequenceLimit - 1
  BY TmAssumption
<1>2. 0 <= FunnelDepth /\ 0 <= BridgeDepth /\ 0 <= FifoDepth
  BY TmAssumption
<1>3. funnelQueue \in Seq(Slot) /\ bridgeQueue \in Seq(Slot) /\ tmFifo \in Seq(Slot)
  BY DEF Init
<1>4. Len(funnelQueue) = 0 /\ Len(bridgeQueue) = 0 /\ Len(tmFifo) = 0
  BY DEF Init
<1> QED BY <1>1, <1>2, <1>3, <1>4 DEF Init, Typed, TypeOK, HasSlot, At, SlotOrNone

LEMMA Depths == FunnelDepth \in Nat /\ BridgeDepth \in Nat /\ FifoDepth \in Nat
  BY TmAssumption

LEMMA ServiceTyped ==
  ASSUME Typed, NEW v \in Service, CreatePacket(v) \/ SendPacket(v)
  PROVE  Typed'
<1> USE DEF Typed, TypeOK, HasSlot
<1>1. CASE CreatePacket(v)
  <2>1. PICK s \in Slot : /\ tmStore' = [tmStore EXCEPT ![s] = <<v, NotStamped>>]
                          /\ created' = [created EXCEPT ![v] = s]
    BY <1>1 DEF CreatePacket
  <2>2. UNCHANGED <<funnelQueue, funnelVars, bridgeQueue, bridgeVars, communicationLinkUp>>
    BY <1>1 DEF CreatePacket
  <2>3. tmStore' \in [Slot -> Packet \cup {Free}]
    BY <2>1 DEF Packet
  <2>4. created' \in [Service -> SlotOrNone]
    BY <2>1 DEF SlotOrNone
  <2> QED BY <2>2, <2>3, <2>4 DEF funnelVars, bridgeVars
<1>2. CASE SendPacket(v)
  <2>1. created[v] \in Slot /\ UNCHANGED <<funnelVars, bridgeQueue, bridgeVars, communicationLinkUp>>
    BY <1>2 DEF SendPacket, SlotOrNone
  <2>2. created' \in [Service -> SlotOrNone]
    BY <1>2 DEF SendPacket, SlotOrNone
  <2>3. tmStore' \in [Slot -> Packet \cup {Free}]
    BY <1>2, <2>1 DEF SendPacket
  <2>4. funnelQueue' \in Seq(Slot) /\ Len(funnelQueue') <= FunnelDepth
    <3>1. CASE Len(funnelQueue) < FunnelDepth
      <4>1. funnelQueue' = Append(funnelQueue, created[v])
        BY <1>2, <3>1 DEF SendPacket
      <4> QED BY <4>1, <2>1, <3>1, Lengths, Depths
    <3> QED BY <1>2, <3>1 DEF SendPacket
  <2> QED BY <2>1, <2>2, <2>3, <2>4 DEF funnelVars, bridgeVars
<1> QED BY <1>1, <1>2

LEMMA FunnelTyped ==
  ASSUME Typed, FunnelStep
  PROVE  Typed'
<1> USE DEF Typed, TypeOK, HasSlot, At, SlotOrNone
<1>1. CASE FunnelReceive
  <2>1. Head(funnelQueue) \in Slot /\ funnelQueue' \in Seq(Slot)
        /\ Len(funnelQueue') <= FunnelDepth
    BY <1>1, Lengths, Depths DEF FunnelReceive
  <2> QED BY <1>1, <2>1 DEF FunnelReceive, bridgeVars
<1>2. CASE FunnelStamp
  <2>1. sourceSequenceCount' \in 0 .. SequenceLimit - 1
    BY <1>2, TmAssumption DEF FunnelStamp
  <2>2. tmStore' \in [Slot -> Packet \cup {Free}]
    <3>1. ASSUME tmStore[funnel.slot] # Free
          PROVE  <<tmStore[funnel.slot][1], sourceSequenceCount>> \in Packet
      BY <1>2, <3>1 DEF FunnelStamp, Packet
    <3> QED BY <1>2, <3>1 DEF FunnelStamp
  <2>3. funnel' \in [step : {"receive", "stamp", "send"}, slot : SlotOrNone]
        /\ (funnel'.step # "receive" => funnel'.slot \in Slot)
    BY <1>2 DEF FunnelStamp
  <2> QED BY <1>2, <2>1, <2>2, <2>3 DEF FunnelStamp, bridgeVars
<1>3. CASE FunnelSend
  <2>1. bridgeQueue' \in Seq(Slot) /\ Len(bridgeQueue') <= BridgeDepth
    <3>1. CASE Len(bridgeQueue) < BridgeDepth
      <4>1. funnel.slot \in Slot /\ bridgeQueue' = Append(bridgeQueue, funnel.slot)
        BY <1>3, <3>1 DEF FunnelSend
      <4> QED BY <4>1, <3>1, Lengths, Depths
    <3> QED BY <1>3, <3>1 DEF FunnelSend
  <2>2. tmStore' \in [Slot -> Packet \cup {Free}]
    BY <1>3 DEF FunnelSend
  <2> QED BY <1>3, <2>1, <2>2 DEF FunnelSend, bridgeVars
<1> QED BY <1>1, <1>2, <1>3 DEF FunnelStep

LEMMA BridgeTyped ==
  ASSUME Typed, BridgeStep
  PROVE  Typed'
<1> USE DEF Typed, TypeOK, HasSlot, At, SlotOrNone
<1>1. CASE BridgeReceive
  <2>1. Head(bridgeQueue) \in Slot /\ bridgeQueue' \in Seq(Slot)
        /\ Len(bridgeQueue') <= BridgeDepth
    BY <1>1, Lengths, Depths DEF BridgeReceive
  <2> QED BY <1>1, <2>1 DEF BridgeReceive, funnelVars
<1>2. CASE BridgeSend
  BY <1>2 DEF BridgeSend, funnelVars
<1>3. CASE BridgeMakeRoom
  <2>1. tmFifo' \in Seq(Slot) /\ Len(tmFifo') <= FifoDepth
    BY <1>3, Lengths, Depths DEF BridgeMakeRoom
  <2>2. tmStore' \in [Slot -> Packet \cup {Free}]
    BY <1>3 DEF BridgeMakeRoom
  <2> QED BY <1>3, <2>1, <2>2 DEF BridgeMakeRoom, funnelVars
<1>4. CASE BridgeKeep
  <2>1. tmFifo' \in Seq(Slot) /\ Len(tmFifo') <= FifoDepth
    BY <1>4, Lengths, Depths DEF BridgeKeep, FifoFull
  <2> QED BY <1>4, <2>1 DEF BridgeKeep, funnelVars
<1>5. CASE BridgeQueueEmpty
  BY <1>5 DEF BridgeQueueEmpty, funnelVars
<1>6. CASE BridgeRetrieve
  <2>1. Head(tmFifo) \in Slot /\ tmFifo' \in Seq(Slot) /\ Len(tmFifo') <= FifoDepth
    BY <1>6, Lengths, Depths DEF BridgeRetrieve
  <2> QED BY <1>6, <2>1 DEF BridgeRetrieve, funnelVars
<1>7. CASE BridgeSendStored
  BY <1>7 DEF BridgeSendStored, funnelVars
<1>8. CASE BridgeStoredDone
  BY <1>8 DEF BridgeStoredDone, funnelVars
<1> QED BY <1>1, <1>2, <1>3, <1>4, <1>5, <1>6, <1>7, <1>8 DEF BridgeStep

LEMMA StepTyped == Typed /\ [Next]_vars => Typed'
<1> SUFFICES ASSUME Typed, [Next]_vars PROVE Typed'
  OBVIOUS
<1>1. ASSUME NEW up \in BOOLEAN, RegisterComm(up) PROVE Typed'
  BY <1>1 DEF RegisterComm, Typed, TypeOK, HasSlot, funnelVars, bridgeVars
<1>2. CASE UNCHANGED vars
  BY <1>2 DEF vars, Typed, TypeOK, HasSlot
<1> QED BY <1>1, <1>2, ServiceTyped, FunnelTyped, BridgeTyped DEF Next

\* Every variable has its type and no queue is over its depth, however the
\* tasks of services, funnel and bridge interleave
THEOREM TypeCorrect == Spec => []TypeOK
<1>1. Typed => TypeOK
  BY DEF Typed
<1> QED BY <1>1, InitTyped, StepTyped, PTL DEF Spec

-----------------------------------------------------------------------------
(***************************************************************************)
(* One holder.  The parts of the invariant besides OneHolder: a task that  *)
(* waits has no packet, and what is about to be inserted has room.         *)
(***************************************************************************)
Waiting == /\ funnel.step = "receive" => funnel.slot = NoSlot
           /\ bridge.step \in {"receive", "stored"} => bridge.slot = NoSlot

Room == bridge.step = "insert" => Len(tmFifo) < FifoDepth

IInv == Typed /\ Waiting /\ Room /\ OneHolder

LEMMA Names ==
  ASSUME NEW v \in Service
  PROVE  v \notin {"funnel", "bridge", "funnelQueue", "bridgeQueue", "fifo"}
  BY TmAssumption

-----------------------------------------------------------------------------
(***************************************************************************)
(* What a step may do with the addresses: nothing, or to give one that is  *)
(* nowhere to a place, to take it from its place to another one, or to     *)
(* free its slot.                                                          *)
(***************************************************************************)
QueuesApart == NoDuplicates(funnelQueue) /\ NoDuplicates(bridgeQueue) /\ NoDuplicates(tmFifo)

LEMMA OnlyThere ==
  ASSUME OneHolder, NEW s \in Slot, NEW p \in Place, HeldBy(s, p)
  PROVE  tmStore[s] # Free /\ \A q \in Place : HeldBy(s, q) <=> q = p
  BY DEF OneHolder

\* The holder of a slot under the mapping to TokenStore, now and after a step
LEMMA HolderNow ==
  ASSUME OneHolder, NEW s \in Slot
  PROVE  /\ \A p \in Place : HeldBy(s, p) => HolderOf(s) = p
         /\ tmStore[s] = Free => HolderOf(s) = "none"
         /\ tmStore[s] # Free => HolderOf(s) \in Place
  BY DEF OneHolder, HolderOf

LEMMA HolderNext ==
  ASSUME OneHolder', NEW s \in Slot
  PROVE  /\ \A p \in Place : HeldBy(s, p)' => HolderOf(s)' = p
         /\ tmStore'[s] = Free => HolderOf(s)' = "none"
         /\ tmStore'[s] # Free => HolderOf(s)' \in Place
  BY DEF OneHolder, HolderOf

LEMMA NoneIsNoPlace == "none" \notin Place
  BY TmAssumption DEF Place

\* Who is not concerned has the same holder as before
LEMMA OthersStay ==
  ASSUME OneHolder, OneHolder', NEW r \in Slot, tmStore'[r] = Free <=> tmStore[r] = Free,
         \A q \in Place : HeldBy(r, q)' <=> HeldBy(r, q)
  PROVE  HolderOf(r)' = HolderOf(r)
<1>1. CASE tmStore[r] = Free
  BY <1>1, HolderNow, HolderNext
<1>2. CASE tmStore[r] # Free
  <2>1. PICK p \in Place : HeldBy(r, p)
    BY <1>2 DEF OneHolder
  <2> QED BY <2>1, HolderNow, HolderNext
<1> QED BY <1>1, <1>2

\* A step on one slot is a step of TokenStore if it is one of its actions there
LEMMA OnOneSlot ==
  ASSUME Typed, Typed', OneHolder, OneHolder', NEW s \in Slot,
         \A r \in Slot \ {s} : /\ tmStore'[r] = tmStore[r]
                               /\ \A q \in Place : HeldBy(r, q)' <=> HeldBy(r, q),
         Tokens!Allocate(s) \/ Tokens!Fill(s) \/ Tokens!Pass(s) \/ Tokens!Delete(s)
  PROVE  Tokens!Next
<1> DEFINE holder == [r \in Slot |-> HolderOf(r)]
<1>1. tmStore' = [tmStore EXCEPT ![s] = tmStore'[s]]
  BY DEF Typed, TypeOK
<1>2. \A r \in Slot \ {s} : HolderOf(r)' = HolderOf(r)
  BY OthersStay
<1>3. holder' = [holder EXCEPT ![s] = holder'[s]]
  BY <1>2
<1> QED BY <1>1, <1>3 DEF Tokens!Next

LEMMA Stay ==
  ASSUME OneHolder, QueuesApart', UNCHANGED tmStore,
         \A r \in Slot, q \in Place : HeldBy(r, q)' <=> HeldBy(r, q)
  PROVE  OneHolder' /\ UNCHANGED Tokens!vars
<1>1. OneHolder'
  BY DEF OneHolder, QueuesApart
<1>2. \A r \in Slot : HolderOf(r)' = HolderOf(r)
  BY <1>1, OthersStay
<1> QED BY <1>1, <1>2 DEF Tokens!vars

LEMMA Write ==
  ASSUME Typed, Typed', OneHolder, QueuesApart', NEW s \in Slot,
         tmStore[s] # Free, tmStore'[s] # Free,
         \A r \in Slot \ {s} : tmStore'[r] = tmStore[r],
         \A r \in Slot, q \in Place : HeldBy(r, q)' <=> HeldBy(r, q)
  PROVE  OneHolder' /\ Tokens!Next
<1>1. OneHolder'
  BY DEF OneHolder, QueuesApart
<1>2. HolderOf(s)' = HolderOf(s) /\ HolderOf(s) # "none"
  BY <1>1, OthersStay, HolderNow, NoneIsNoPlace
<1>3. tmStore'[s] \in Packet
  BY DEF Typed, TypeOK
<1>4. Tokens!Fill(s)
  BY <1>2, <1>3 DEF Tokens!Fill
<1> QED BY <1>1, <1>4, OnOneSlot

LEMMA Give ==
  ASSUME Typed, Typed', OneHolder, QueuesApart', NEW s \in Slot, NEW p \in Place,
         tmStore[s] = Free, tmStore'[s] # Free,
         \A r \in Slot \ {s} : tmStore'[r] = tmStore[r],
         \A r \in Slot, q \in Place : HeldBy(r, q)' <=> HeldBy(r, q) \/ (r = s /\ q = p)
  PROVE  OneHolder' /\ Tokens!Next
<1>1. OneHolder'
  BY DEF OneHolder, QueuesApart
<1>2. HolderOf(s) = "none" /\ HolderOf(s)' \in Place /\ tmStore'[s] \in Packet
  BY <1>1, HolderNow, HolderNext DEF Typed, TypeOK
<1>3. Tokens!Allocate(s)
  BY <1>2 DEF Tokens!Allocate
<1> QED BY <1>1, <1>3, OnOneSlot

LEMMA Take ==
  ASSUME Typed, Typed', OneHolder, QueuesApart',
         NEW s \in Slot, NEW p \in Place, NEW to \in Place,
         HeldBy(s, p), UNCHANGED tmStore,
         \A r \in Slot, q \in Place :
           HeldBy(r, q)' <=> (IF r = s THEN q = to ELSE HeldBy(r, q))
  PROVE  OneHolder' /\ Tokens!Next
<1>1. OneHolder'
  BY DEF OneHolder, QueuesApart
<1>2. HolderOf(s) = p /\ HolderOf(s)' = to /\ p # "none"
  BY <1>1, HolderNow, HolderNext, NoneIsNoPlace
<1>3. Tokens!Pass(s)
  BY <1>2 DEF Tokens!Pass
<1> QED BY <1>1, <1>3, OnOneSlot

LEMMA Release ==
  ASSUME Typed, Typed', OneHolder, QueuesApart', NEW s \in Slot, NEW p \in Place,
         HeldBy(s, p), tmStore'[s] = Free,
         \A r \in Slot \ {s} : tmStore'[r] = tmStore[r],
         \A r \in Slot, q \in Place : HeldBy(r, q)' <=> HeldBy(r, q) /\ r # s
  PROVE  OneHolder' /\ Tokens!Next
<1>1. OneHolder'
  BY DEF OneHolder, QueuesApart
<1>2. HolderOf(s) = p /\ HolderOf(s)' = "none" /\ p # "none"
  BY <1>1, HolderNow, HolderNext, NoneIsNoPlace
<1>3. Tokens!Delete(s)
  BY <1>2 DEF Tokens!Delete
<1> QED BY <1>1, <1>3, OnOneSlot

LEMMA Apart == OneHolder => QueuesApart
  BY DEF OneHolder, QueuesApart

-----------------------------------------------------------------------------
(***************************************************************************)
(* The steps of services and funnel.                                       *)
(***************************************************************************)
LEMMA CreateKeeps ==
  ASSUME Free \notin Packet, IInv, Typed', NEW v \in Service, CreatePacket(v)
  PROVE  OneHolder' /\ Tokens!Next
<1>1. PICK s \in Slot : /\ created[v] = NoSlot /\ tmStore[s] = Free
                        /\ tmStore' = [tmStore EXCEPT ![s] = <<v, NotStamped>>]
                        /\ created' = [created EXCEPT ![v] = s]
                        /\ UNCHANGED <<funnelQueue, funnel, bridgeQueue, bridge, tmFifo>>
  BY DEF CreatePacket, funnelVars, bridgeVars
<1>2. v \in Place /\ QueuesApart'
  BY <1>1, Apart DEF Place, IInv, QueuesApart
<1>3. /\ tmStore'[s] # Free /\ tmStore[s] = Free
      /\ \A r \in Slot \ {s} : tmStore'[r] = tmStore[r]
  <2>1. <<v, NotStamped>> \in Packet
    BY DEF Packet
  <2> QED BY <1>1, <2>1 DEF IInv, Typed, TypeOK
<1>4. \A u \in Service : created'[u] = IF u = v THEN s ELSE created[u]
  BY <1>1 DEF IInv, Typed, TypeOK
<1>5. NoSlot \notin Slot
  BY DEF NoSlot, Slot
<1>6. ASSUME NEW r \in Slot, NEW q \in Place
      PROVE  HeldBy(r, q)' <=> HeldBy(r, q) \/ (r = s /\ q = v)
  <2>1. CASE q \in Service
    BY <1>1, <1>4, <1>5, <2>1, Names DEF HeldBy
  <2>2. CASE q \notin Service
    BY <1>1, <2>2 DEF HeldBy
  <2> QED BY <2>1, <2>2
<1> QED BY <1>2, <1>3, <1>6, Give DEF IInv

LEMMA SendKeeps ==
  ASSUME IInv, Typed', NEW v \in Service, SendPacket(v)
  PROVE  OneHolder' /\ Tokens!Next
<1> DEFINE s == created[v]
<1>1. /\ s \in Slot /\ created' = [created EXCEPT ![v] = NoSlot]
      /\ UNCHANGED <<funnel, bridgeQueue, bridge, tmFifo>>
  BY DEF SendPacket, IInv, Typed, TypeOK, SlotOrNone, funnelVars, bridgeVars
<1>2. v \in Place /\ "funnelQueue" \in Place /\ HeldBy(s, v)
  BY DEF Place, HeldBy
<1>3. \A u \in Service : created'[u] = IF u = v THEN NoSlot ELSE created[u]
  BY <1>1 DEF IInv, Typed, TypeOK
<1>4. NoSlot \notin Slot
  BY DEF NoSlot, Slot
<1>5. \A q \in Place : HeldBy(s, q) <=> q = v
  BY <1>1, <1>2, OnlyThere DEF IInv
<1> HIDE DEF s
<1>6. CASE funnelQueue' = Append(funnelQueue, s) /\ UNCHANGED tmStore
  <2>1. ~In(s, funnelQueue)
    BY <1>2, <1>5, Names DEF HeldBy
  <2>2. /\ \A r \in Slot : In(r, funnelQueue') <=> In(r, funnelQueue) \/ r = s
        /\ QueuesApart'
    <3>1. QueuesApart /\ funnelQueue \in Seq(Slot)
      BY Apart DEF IInv, Typed, TypeOK
    <3> QED BY <1>1, <1>6, <2>1, <3>1, Sent DEF QueuesApart
  <2>3. ASSUME NEW r \in Slot, NEW q \in Place
        PROVE  HeldBy(r, q)' <=> IF r = s THEN q = "funnelQueue" ELSE HeldBy(r, q)
    <3>1. CASE q \in Service
      BY <1>1, <1>3, <1>4, <1>5, <3>1, Names DEF HeldBy, s
    <3>2. CASE q \notin Service
      <4>1. HeldBy(s, q) <=> FALSE
        BY <1>5, <3>2
      <4> QED BY <1>1, <2>2, <3>2, <4>1 DEF HeldBy, Place
    <3> QED BY <3>1, <3>2
  <2> QED BY <1>1, <1>2, <1>6, <2>2, <2>3, Take DEF IInv
<1>7. CASE tmStore' = [tmStore EXCEPT ![s] = Free] /\ UNCHANGED funnelQueue
  <2>1. QueuesApart'
    BY <1>1, <1>7, Apart DEF IInv, QueuesApart
  <2>2. tmStore'[s] = Free /\ \A r \in Slot \ {s} : tmStore'[r] = tmStore[r]
    BY <1>1, <1>7 DEF IInv, Typed, TypeOK
  <2>3. ASSUME NEW r \in Slot, NEW q \in Place
        PROVE  HeldBy(r, q)' <=> HeldBy(r, q) /\ r # s
    <3>1. CASE q \in Service
      BY <1>1, <1>3, <1>4, <1>5, <3>1, Names DEF HeldBy, s
    <3>2. CASE q \notin Service
      BY <1>1, <1>2, <1>5, <1>7, <3>2 DEF HeldBy
    <3> QED BY <3>1, <3>2
  <2> QED BY <1>1, <1>2, <2>1, <2>2, <2>3, Release DEF IInv
<1> QED BY <1>6, <1>7 DEF SendPacket, s

LEMMA FunnelReceiveKeeps ==
  ASSUME IInv, Typed', FunnelReceive
  PROVE  OneHolder' /\ Tokens!Next
<1> DEFINE s == Head(funnelQueue)
<1>1. /\ funnel.slot = NoSlot /\ funnel'.slot = s /\ funnelQueue' = Tail(funnelQueue)
      /\ UNCHANGED <<tmStore, created, bridgeQueue, bridge, tmFifo>>
  BY DEF FunnelReceive, IInv, Waiting, At, bridgeVars
<1>2. /\ s \in Slot /\ In(s, funnelQueue) /\ QueuesApart'
      /\ \A r \in Slot : In(r, funnelQueue') <=> In(r, funnelQueue) /\ r # s
  <2>1. QueuesApart /\ funnelQueue \in Seq(Slot) /\ funnelQueue # << >>
    BY Apart DEF IInv, Typed, TypeOK, FunnelReceive
  <2> QED BY <1>1, <2>1, Received DEF QueuesApart
<1>3. "funnelQueue" \in Place /\ "funnel" \in Place /\ HeldBy(s, "funnelQueue")
  BY <1>2 DEF Place, HeldBy
<1>4. \A q \in Place : HeldBy(s, q) <=> q = "funnelQueue"
  BY <1>2, <1>3, OnlyThere DEF IInv
<1>5. NoSlot \notin Slot
  BY DEF NoSlot, Slot
<1> HIDE DEF s
<1>6. ASSUME NEW r \in Slot, NEW q \in Place
      PROVE  HeldBy(r, q)' <=> IF r = s THEN q = "funnel" ELSE HeldBy(r, q)
  BY <1>1, <1>2, <1>4, <1>5, Names DEF HeldBy, Place
<1> QED BY <1>1, <1>2, <1>3, <1>6, Take DEF IInv

LEMMA FunnelStampKeeps ==
  ASSUME Free \notin Packet, IInv, Typed', FunnelStamp
  PROVE  OneHolder' /\ Tokens!Next
<1> DEFINE s == funnel.slot
<1>1. s \in Slot /\ UNCHANGED <<created, funnelQueue, bridgeQueue, bridge, tmFifo>>
  BY DEF FunnelStamp, IInv, Typed, HasSlot, bridgeVars
<1>2. "funnel" \in Place /\ HeldBy(s, "funnel")
  BY DEF Place, HeldBy
<1>3. tmStore[s] # Free
  BY <1>1, <1>2, OnlyThere DEF IInv
<1>4. /\ funnel'.slot = s
      /\ tmStore' = [tmStore EXCEPT ![s] = <<tmStore[s][1], sourceSequenceCount>>]
  BY <1>3 DEF FunnelStamp, At
<1>5. tmStore'[s] # Free /\ \A r \in Slot \ {s} : tmStore'[r] = tmStore[r]
  <2>1. <<tmStore[s][1], sourceSequenceCount>> \in Packet
    BY <1>1, <1>3 DEF IInv, Typed, TypeOK, Packet
  <2> QED BY <1>1, <1>4, <2>1 DEF IInv, Typed, TypeOK
<1>6. QueuesApart'
  BY <1>1, Apart DEF IInv, QueuesApart
<1>7. \A r \in Slot, q \in Place : HeldBy(r, q)' <=> HeldBy(r, q)
  BY <1>1, <1>4 DEF HeldBy
<1> QED BY <1>1, <1>3, <1>5, <1>6, <1>7, Write DEF IInv

LEMMA FunnelSendKeeps ==
  ASSUME IInv, Typed', FunnelSend
  PROVE  OneHolder' /\ Tokens!Next
<1> DEFINE s == funnel.slot
<1>1. /\ s \in Slot /\ funnel'.slot = NoSlot
      /\ UNCHANGED <<created, funnelQueue, bridge, tmFifo>>
  BY DEF FunnelSend, IInv, Typed, HasSlot, At, bridgeVars
<1>2. "funnel" \in Place /\ "bridgeQueue" \in Place /\ HeldBy(s, "funnel")
  BY DEF Place, HeldBy
<1>3. \A q \in Place : HeldBy(s, q) <=> q = "funnel"
  BY <1>1, <1>2, OnlyThere DEF IInv
<1>4. NoSlot \notin Slot
  BY DEF NoSlot, Slot
<1>5. \A r \in Slot : r # s => funnel.slot # r
  OBVIOUS
<1> HIDE DEF s
<1>6. CASE bridgeQueue' = Append(bridgeQueue, s) /\ UNCHANGED tmStore
  <2>1. ~In(s, bridgeQueue)
    BY <1>2, <1>3 DEF HeldBy
  <2>2. /\ \A r \in Slot : In(r, bridgeQueue') <=> In(r, bridgeQueue) \/ r = s
        /\ QueuesApart'
    <3>1. QueuesApart /\ bridgeQueue \in Seq(Slot)
      BY Apart DEF IInv, Typed, TypeOK
    <3> QED BY <1>1, <1>6, <2>1, <3>1, Sent DEF QueuesApart
  <2>3. ASSUME NEW r \in Slot, NEW q \in Place
        PROVE  HeldBy(r, q)' <=> IF r = s THEN q = "bridgeQueue" ELSE HeldBy(r, q)
    BY <1>1, <1>3, <1>4, <1>5, <2>2, Names DEF HeldBy, Place
  <2> QED BY <1>1, <1>2, <1>6, <2>2, <2>3, Take DEF IInv
<1>7. CASE tmStore' = [tmStore EXCEPT ![s] = Free] /\ UNCHANGED bridgeQueue
  <2>1. QueuesApart'
    BY <1>1, <1>7, Apart DEF IInv, QueuesApart
  <2>2. tmStore'[s] = Free /\ \A r \in Slot \ {s} : tmStore'[r] = tmStore[r]
    BY <1>1, <1>7 DEF IInv, Typed, TypeOK
  <2>3. ASSUME NEW r \in Slot, NEW q \in Place
        PROVE  HeldBy(r, q)' <=> HeldBy(r, q) /\ r # s
    BY <1>1, <1>3, <1>4, <1>5, <1>7, Names DEF HeldBy, Place
  <2> QED BY <1>1, <1>2, <2>1, <2>2, <2>3, Release DEF IInv
<1> QED BY <1>6, <1>7 DEF FunnelSend, s

-----------------------------------------------------------------------------
(***************************************************************************)
(* The steps of the bridge.                                                *)
(***************************************************************************)
LEMMA BridgeReceiveKeeps ==
  ASSUME IInv, Typed', BridgeReceive
  PROVE  OneHolder' /\ Tokens!Next
<1> DEFINE s == Head(bridgeQueue)
<1>1. /\ bridge.slot = NoSlot /\ bridgeQueue' = Tail(bridgeQueue)
      /\ UNCHANGED <<tmStore, created, funnelQueue, funnel, tmFifo>>
  BY DEF BridgeReceive, IInv, Waiting, funnelVars
<1>2. /\ s \in Slot /\ In(s, bridgeQueue) /\ QueuesApart'
      /\ \A r \in Slot : In(r, bridgeQueue') <=> In(r, bridgeQueue) /\ r # s
  <2>1. QueuesApart /\ bridgeQueue \in Seq(Slot) /\ bridgeQueue # << >>
    BY Apart DEF IInv, Typed, TypeOK, BridgeReceive
  <2> QED BY <1>1, <2>1, Received DEF QueuesApart
<1>3. "bridgeQueue" \in Place /\ "bridge" \in Place /\ HeldBy(s, "bridgeQueue")
  BY <1>2 DEF Place, HeldBy
<1>4. tmStore[s] # Free /\ \A q \in Place : HeldBy(s, q) <=> q = "bridgeQueue"
  BY <1>2, <1>3, OnlyThere DEF IInv
<1>5. bridge'.slot = s
  BY <1>4 DEF BridgeReceive, At
<1>6. NoSlot \notin Slot
  BY DEF NoSlot, Slot
<1> HIDE DEF s
<1>7. ASSUME NEW r \in Slot, NEW q \in Place
      PROVE  HeldBy(r, q)' <=> IF r = s THEN q = "bridge" ELSE HeldBy(r, q)
  BY <1>1, <1>2, <1>4, <1>5, <1>6, Names DEF HeldBy, Place
<1> QED BY <1>1, <1>2, <1>3, <1>7, Take DEF IInv

\* What has been sent to the ground, new or stored, is deleted
LEMMA BridgeSendKeeps ==
  ASSUME IInv, Typed', BridgeSend \/ BridgeSendStored
  PROVE  OneHolder' /\ Tokens!Next
<1> DEFINE s == bridge.slot
<1>1. /\ s \in Slot /\ bridge'.slot = NoSlot /\ tmStore' = [tmStore EXCEPT ![s] = Free]
      /\ UNCHANGED <<created, funnelQueue, funnel, bridgeQueue, tmFifo>>
  BY DEF BridgeSend, BridgeSendStored, IInv, Typed, HasSlot, At, funnelVars
<1>2. "bridge" \in Place /\ HeldBy(s, "bridge")
  BY DEF Place, HeldBy
<1>3. \A q \in Place : HeldBy(s, q) <=> q = "bridge"
  BY <1>1, <1>2, OnlyThere DEF IInv
<1>4. NoSlot \notin Slot
  BY DEF NoSlot, Slot
<1>5. \A r \in Slot : r # s => bridge.slot # r
  OBVIOUS
<1> HIDE DEF s
<1>6. QueuesApart'
  BY <1>1, Apart DEF IInv, QueuesApart
<1>7. tmStore'[s] = Free /\ \A r \in Slot \ {s} : tmStore'[r] = tmStore[r]
  BY <1>1 DEF IInv, Typed, TypeOK
<1>8. ASSUME NEW r \in Slot, NEW q \in Place
      PROVE  HeldBy(r, q)' <=> HeldBy(r, q) /\ r # s
  BY <1>1, <1>3, <1>4, <1>5, Names DEF HeldBy, Place
<1> QED BY <1>1, <1>2, <1>6, <1>7, <1>8, Release DEF IInv

\* The oldest packet, which is deleted, is one of the FIFO
LEMMA BridgeMakeRoomKeeps ==
  ASSUME OverwriteOld, FifoDepth # 0, IInv, Typed', BridgeMakeRoom
  PROVE  OneHolder' /\ Tokens!Next /\ Len(tmFifo') < FifoDepth
<1> DEFINE s == Head(tmFifo)
<1>1. tmFifo # << >> /\ tmFifo \in Seq(Slot) /\ Len(tmFifo) = FifoDepth
  BY DEF BridgeMakeRoom, FifoFull, IInv, Typed, TypeOK
<1>2. /\ bridge'.slot = bridge.slot /\ tmFifo' = Tail(tmFifo)
      /\ tmStore' = [tmStore EXCEPT ![s] = Free]
      /\ UNCHANGED <<created, funnelQueue, funnel, bridgeQueue>>
  BY <1>1 DEF BridgeMakeRoom, Oldest, At, funnelVars
<1>3. /\ s \in Slot /\ In(s, tmFifo) /\ QueuesApart'
      /\ \A r \in Slot : In(r, tmFifo') <=> In(r, tmFifo) /\ r # s
  <2>1. QueuesApart
    BY Apart DEF IInv
  <2> QED BY <1>1, <1>2, <2>1, Received DEF QueuesApart
<1>4. "fifo" \in Place /\ HeldBy(s, "fifo")
  BY <1>3 DEF Place, HeldBy
<1>5. \A q \in Place : HeldBy(s, q) <=> q = "fifo"
  BY <1>3, <1>4, OnlyThere DEF IInv
<1> HIDE DEF s
<1>6. tmStore'[s] = Free /\ \A r \in Slot \ {s} : tmStore'[r] = tmStore[r]
  BY <1>2, <1>3 DEF IInv, Typed, TypeOK
<1>7. ASSUME NEW r \in Slot, NEW q \in Place
      PROVE  HeldBy(r, q)' <=> HeldBy(r, q) /\ r # s
  BY <1>2, <1>3, <1>5, Names DEF HeldBy, Place
<1>8. Len(tmFifo') < FifoDepth
  BY <1>1, <1>2
<1> QED BY <1>3, <1>4, <1>6, <1>7, <1>8, Release DEF IInv

\* What is inserted finds room
LEMMA BridgeKeepKeeps ==
  ASSUME IInv, Typed', BridgeKeep
  PROVE  OneHolder' /\ Tokens!Next
<1> DEFINE s == bridge.slot
<1>1. ~FifoFull
  BY Depths DEF BridgeKeep, FifoFull, IInv, Room
<1>2. /\ s \in Slot /\ bridge'.slot = NoSlot /\ tmFifo' = Append(tmFifo, s)
      /\ UNCHANGED <<tmStore, created, funnelQueue, funnel, bridgeQueue>>
  BY <1>1 DEF BridgeKeep, IInv, Typed, HasSlot, At, funnelVars
<1>3. "bridge" \in Place /\ "fifo" \in Place /\ HeldBy(s, "bridge")
  BY DEF Place, HeldBy
<1>4. \A q \in Place : HeldBy(s, q) <=> q = "bridge"
  BY <1>2, <1>3, OnlyThere DEF IInv
<1>5. NoSlot \notin Slot
  BY DEF NoSlot, Slot
<1>6. \A r \in Slot : r # s => bridge.slot # r
  OBVIOUS
<1> HIDE DEF s
<1>7. ~In(s, tmFifo)
  BY <1>3, <1>4 DEF HeldBy
<1>8. /\ \A r \in Slot : In(r, tmFifo') <=> In(r, tmFifo) \/ r = s
      /\ QueuesApart'
  <2>1. QueuesApart /\ tmFifo \in Seq(Slot)
    BY Apart DEF IInv, Typed, TypeOK
  <2> QED BY <1>2, <1>7, <2>1, Sent DEF QueuesApart
<1>9. ASSUME NEW r \in Slot, NEW q \in Place
      PROVE  HeldBy(r, q)' <=> IF r = s THEN q = "fifo" ELSE HeldBy(r, q)
  BY <1>2, <1>4, <1>5, <1>6, <1>8, Names DEF HeldBy, Place
<1> QED BY <1>2, <1>3, <1>8, <1>9, Take DEF IInv

LEMMA BridgeRetrieveKeeps ==
  ASSUME IInv, Typed', BridgeRetrieve
  PROVE  OneHolder' /\ Tokens!Next
<1> DEFINE s == Head(tmFifo)
<1>1. /\ bridge.slot = NoSlot /\ bridge'.slot = s /\ tmFifo' = Tail(tmFifo)
      /\ UNCHANGED <<tmStore, created, funnelQueue, funnel, bridgeQueue>>
  BY DEF BridgeRetrieve, IInv, Waiting, At, funnelVars
<1>2. /\ s \in Slot /\ In(s, tmFifo) /\ QueuesApart'
      /\ \A r \in Slot : In(r, tmFifo') <=> In(r, tmFifo) /\ r # s
  <2>1. QueuesApart /\ tmFifo \in Seq(Slot) /\ tmFifo # << >>
    BY Apart DEF IInv, Typed, TypeOK, BridgeRetrieve
  <2> QED BY <1>1, <2>1, Received DEF QueuesApart
<1>3. "fifo" \in Place /\ "bridge" \in Place /\ HeldBy(s, "fifo")
  BY <1>2 DEF Place, HeldBy
<1>4. \A q \in Place : HeldBy(s, q) <=> q = "fifo"
  BY <1>2, <1>3, OnlyThere DEF IInv
<1>5. NoSlot \notin Slot
  BY DEF NoSlot, Slot
<1> HIDE DEF s
<1>6. ASSUME NEW r \in Slot, NEW q \in Place
      PROVE  HeldBy(r, q)' <=> IF r = s THEN q = "bridge" ELSE HeldBy(r, q)
  BY <1>1, <1>2, <1>4, <1>5, Names DEF HeldBy, Place
<1> QED BY <1>1, <1>2, <1>3, <1>6, Take DEF IInv

\* Steps that leave the addresses where they are
LEMMA QuietKeeps ==
  ASSUME OneHolder,
         UNCHANGED <<tmStore, created, funnelQueue, bridgeQueue, tmFifo>>,
         funnel'.slot = funnel.slot, bridge'.slot = bridge.slot
  PROVE  OneHolder' /\ UNCHANGED Tokens!vars
<1>1. QueuesApart'
  BY Apart DEF QueuesApart
<1>2. \A r \in Slot, q \in Place : HeldBy(r, q)' <=> HeldBy(r, q)
  BY DEF HeldBy
<1> QED BY <1>1, <1>2, Stay

-----------------------------------------------------------------------------
LEMMA InitIInv == Init => IInv
<1> SUFFICES ASSUME Init PROVE IInv
  OBVIOUS
<1>1. NoSlot \notin Slot
  BY DEF NoSlot, Slot
<1>2. \A s \in Slot, p \in Place : ~HeldBy(s, p)
  BY <1>1 DEF Init, HeldBy, Place, In, At
<1>3. OneHolder
  BY <1>2 DEF Init, OneHolder, NoDuplicates
<1> QED BY <1>3, InitTyped DEF IInv, Init, Waiting, Room, At

\* Every step is one of TokenStore on the slot of a holder, or leaves all
\* packets and their holders alone
LEMMA Steps ==
  ASSUME Free \notin Packet, OverwriteOld, FifoDepth # 0, IInv, [Next]_vars
  PROVE  OneHolder' /\ [Tokens!Next]_(Tokens!vars)
<1>1. Typed'
  BY StepTyped DEF IInv
<1>2. ASSUME BridgeQueueEmpty \/ BridgeStoredDone PROVE OneHolder' /\ UNCHANGED Tokens!vars
  BY <1>2, QuietKeeps DEF BridgeQueueEmpty, BridgeStoredDone, IInv, Waiting, At, funnelVars
<1>3. ASSUME NEW up \in BOOLEAN, RegisterComm(up) PROVE OneHolder' /\ UNCHANGED Tokens!vars
  BY <1>3, QuietKeeps DEF RegisterComm, IInv, funnelVars, bridgeVars
<1>4. CASE UNCHANGED vars
  BY <1>4, QuietKeeps DEF vars, IInv
<1>5. CASE FunnelStep
  BY <1>1, <1>5, FunnelReceiveKeeps, FunnelStampKeeps, FunnelSendKeeps DEF FunnelStep
<1>6. CASE BridgeStep
  BY <1>1, <1>2, <1>6, BridgeReceiveKeeps, BridgeSendKeeps, BridgeMakeRoomKeeps,
     BridgeKeepKeeps, BridgeRetrieveKeeps DEF BridgeStep
<1> QED BY <1>1, <1>3, <1>4, <1>5, <1>6, CreateKeeps, SendKeeps DEF Next

LEMMA StepIInv ==
  ASSUME Free \notin Packet, OverwriteOld, FifoDepth # 0, IInv, [Next]_vars
  PROVE  IInv'
<1>1. Typed'
  BY StepTyped DEF IInv
<1>2. Waiting'
  BY DEF IInv, Waiting, Next, vars, FunnelStep, BridgeStep, CreatePacket, SendPacket,
         FunnelReceive, FunnelStamp, FunnelSend, BridgeReceive, BridgeSend, BridgeMakeRoom,
         BridgeKeep, BridgeQueueEmpty, BridgeRetrieve, BridgeSendStored, BridgeStoredDone,
         RegisterComm, At, funnelVars, bridgeVars
<1>3. OneHolder'
  BY Steps
<1>4. Room'
  <2>1. CASE BridgeMakeRoom
    BY <1>1, <2>1, BridgeMakeRoomKeeps DEF Room
  <2>2. CASE BridgeStep /\ ~BridgeMakeRoom
    BY <2>2 DEF Room, BridgeStep, BridgeReceive, BridgeSend, BridgeKeep, BridgeQueueEmpty,
       BridgeRetrieve, BridgeSendStored, BridgeStoredDone, At
  <2>3. CASE UNCHANGED bridgeVars
    BY <2>3 DEF IInv, Room, bridgeVars
  <2> QED
    BY <2>1, <2>2, <2>3 DEF Next, vars, FunnelStep, CreatePacket, SendPacket, FunnelReceive,
       FunnelStamp, FunnelSend, RegisterComm, bridgeVars
<1> QED BY <1>1, <1>2, <1>3, <1>4 DEF IInv

\* The address of a packet is in one place of the path from its creation to
\* its deletion, provided that the bridge may overwrite old packets and its
\* FIFO has a place
THEOREM SingleHolder ==
  ASSUME Free \notin Packet, OverwriteOld, FifoDepth # 0
  PROVE  Spec => []OneHolder
<1>1. Init => IInv
  BY InitIInv
<1>2. IInv /\ [Next]_vars => IInv'
  BY StepIInv
<1>3. IInv => OneHolder
  BY DEF IInv
<1> QED BY <1>1, <1>2, <1>3, PTL DEF Spec

\* Every task that touches a packet of the TM store is its holder: the path
\* keeps the discipline of the packet stores
THEOREM KeepsTokens ==
  ASSUME Free \notin Packet, OverwriteOld, FifoDepth # 0
  PROVE  Spec => ImplementsTokenStore
<1>1. Init => Tokens!Init
  <2> SUFFICES ASSUME Init PROVE Tokens!Init
    OBVIOUS
  <2>1. \A s \in Slot : tmStore[s] = Free /\ HolderOf(s) = "none"
    BY InitIInv, HolderNow DEF Init, IInv
  <2> QED BY <2>1 DEF Tokens!Init, Init
<1>2. IInv /\ [Next]_vars => IInv' /\ [Tokens!Next]_(Tokens!vars)
  BY StepIInv, Steps
<1> QED BY <1>1, <1>2, InitIInv, PTL DEF Spec, ImplementsTokenStore, Tokens!Spec
=============================================================================
