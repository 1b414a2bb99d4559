--------------------------- MODULE Uplink_proofs ---------------------------
(***************************************************************************)
(* Theorems about the telecommand path, for any number of telecommands and *)
(* services and any depth of the queues: the address of a packet is in one *)
(* place only, and whoever touches a packet holds it.  Type correctness    *)
(* rests on that as well: what a full queue refuses is a telecommand.  The *)
(* last part is that a telecommand gets one verdict.                       *)
(*                                                                         *)
(* Then theorems about the virtual channel below that path, which has no   *)
(* state in common with it: ground and FARM-1 stay in step, and what is    *)
(* delivered are the packets of the accepted frames, in order.             *)
(***************************************************************************)
EXTENDS TcUplink, VirtualChannel, WellFoundedInduction, TLAPS

-----------------------------------------------------------------------------
(***************************************************************************)
(* What sending and receiving do to a queue of addresses.                  *)
(***************************************************************************)
\* What a queue is after a message is sent or received
LEMMA Lengths ==
  ASSUME NEW S, NEW queue \in Seq(S), NEW depth \in Nat, Len(queue) <= depth
  PROVE  /\ \A s \in S : Len(queue) < depth
              => Append(queue, s) \in Seq(S) /\ Len(Append(queue, s)) <= depth
         /\ queue # << >> => /\ Head(queue) \in S
                             /\ Tail(queue) \in Seq(S) /\ Len(Tail(queue)) <= depth
  OBVIOUS

\* Who is in a queue after a message is sent or received
LEMMA Sent ==
  ASSUME NEW S, NEW queue \in Seq(S), NEW s \in S
  PROVE  /\ \A r \in S : In(r, Append(queue, s)) <=> In(r, queue) \/ r = s
         /\ NoDuplicates(queue) /\ ~In(s, queue) => NoDuplicates(Append(queue, s))
<1> DEFINE next == Append(queue, s)
<1>1. /\ Len(queue) \in Nat /\ Len(next) = Len(queue) + 1 /\ next[Len(queue) + 1] = s
      /\ \A i \in 1 .. Len(queue) : next[i] = queue[i]
  OBVIOUS
<1>2. ASSUME NEW r \in S PROVE In(r, next) <=> In(r, queue) \/ r = s
  <2>1. ASSUME In(r, queue) PROVE In(r, next)
    BY <1>1, <2>1 DEF In
  <2>2. In(s, next)
    BY <1>1 DEF In
  <2>3. ASSUME In(r, next) PROVE In(r, queue) \/ r = s
    <3>1. PICK i \in 1 .. Len(next) : next[i] = r
      BY <2>3 DEF In
    <3>2. i \in 1 .. Len(queue) \/ i = Len(queue) + 1
      BY <1>1
    <3> QED BY <1>1, <3>1, <3>2 DEF In
  <2> QED BY <2>1, <2>2, <2>3
<1>3. ASSUME NoDuplicates(queue), ~In(s, queue) PROVE NoDuplicates(next)
  <2> SUFFICES ASSUME NEW i \in 1 .. Len(next), NEW j \in 1 .. Len(next), next[i] = next[j]
               PROVE  i = j
    BY DEF NoDuplicates
  <2>1. /\ i \in 1 .. Len(queue) \/ i = Len(queue) + 1
        /\ j \in 1 .. Len(queue) \/ j = Len(queue) + 1
    BY <1>1
  <2> HIDE DEF next
  <2> QED BY <1>1, <1>3, <2>1 DEF NoDuplicates, In
<1> QED BY <1>2, <1>3

LEMMA Received ==
  ASSUME NEW S, NEW queue \in Seq(S), queue # << >>, NoDuplicates(queue)
  PROVE  /\ Head(queue) \in S /\ In(Head(queue), queue)
         /\ NoDuplicates(Tail(queue))
         /\ \A r \in S : In(r, Tail(queue)) <=> In(r, queue) /\ r # Head(queue)
<1> DEFINE next == Tail(queue)
<1>1. /\ Len(queue) \in Nat \ {0} /\ Len(next) = Len(queue) - 1 /\ Head(queue) = queue[1]
      /\ \A i \in 1 .. Len(queue) - 1 : next[i] = queue[i + 1]
      /\ Head(queue) \in S
  OBVIOUS
<1> HIDE DEF next
<1>2. In(Head(queue), queue)
  BY <1>1 DEF In
<1>3. NoDuplicates(next)
  BY <1>1 DEF NoDuplicates
<1>4. ASSUME NEW r \in S PROVE In(r, next) <=> In(r, queue) /\ r # Head(queue)
  <2>1. ASSUME In(r, next) PROVE In(r, queue) /\ r # Head(queue)
    <3>1. PICK i \in 1 .. Len(next) : next[i] = r
      BY <2>1 DEF In
    <3>2. i + 1 \in 1 .. Len(queue) /\ queue[i + 1] = r /\ i + 1 # 1
      BY <1>1, <3>1
    <3>3. 1 \in 1 .. Len(queue)
      BY <1>1
    <3> QED BY <1>1, <3>2, <3>3 DEF In, NoDuplicates
  <2>2. ASSUME In(r, queue), r # Head(queue) PROVE In(r, next)
    <3>1. PICK i \in 1 .. Len(queue) : queue[i] = r
      BY <2>2 DEF In
    <3>2. i - 1 \in 1 .. Len(next) /\ next[i - 1] = queue[i]
      BY <1>1, <2>2, <3>1
    <3> QED BY <3>1, <3>2 DEF In
  <2> QED BY <2>1, <2>2
<1> QED BY <1>1, <1>2, <1>3, <1>4 DEF next

-----------------------------------------------------------------------------

Kind == {"ACCEPTANCE_SUCCESS", "ACCEPTANCE_FAILURE", "COMPLETION_SUCCESS", "COMPLETION_FAILURE"}
Code == {"RETURN_OK", "RETURN_FAILED", "FULL"}
Message == [kind : Kind, code : Code, about : Telecommand \cup {Free}]

\* The distributors and the services work on a packet in some steps only
Pauses == {"ccsds", "pus"}
HasSlot ==
  /\ distributor.step \notin Pauses => distributor.slot \in Slot
  /\ \A v \in Service : service[v].step # "receive" => service[v].slot \in Slot

Typed == /\ TypeOK /\ HasSlot
         /\ requestQueue \in [Service -> Seq(Slot)]
         /\ verificationQueue \in Seq(Message)

\* Who waits has no packet
Waiting ==
  /\ distributor.step \in Pauses => distributor.slot = NoSlot
  /\ \A v \in Service : service[v].step = "receive" => service[v].slot = NoSlot

QueuesApart == /\ NoDuplicates(ccsdsQueue) /\ NoDuplicates(pusQueue)
               /\ \A v \in Service : NoDuplicates(requestQueue[v])

IInv == Typed /\ Waiting /\ OneHolder

-----------------------------------------------------------------------------
(***************************************************************************)
(* The places, one by one.                                                 *)
(***************************************************************************)
LEMMA PlaceOf ==
  /\ {<<"poller">>, <<"ccsdsQueue">>, <<"pusQueue">>, <<"distributor">>} \subseteq Place
  /\ \A v \in Service : <<"service", v>> \in Place /\ <<"queue", v>> \in Place
  /\ <<"nobody">> \notin Place
  BY DEF Place

LEMMA Distinct ==
  /\ <<"poller">> # <<"ccsdsQueue">> /\ <<"poller">> # <<"pusQueue">>
  /\ <<"poller">> # <<"distributor">> /\ <<"ccsdsQueue">> # <<"pusQueue">>
  /\ <<"ccsdsQueue">> # <<"distributor">> /\ <<"pusQueue">> # <<"distributor">>
  /\ \A p \in {<<"poller">>, <<"ccsdsQueue">>, <<"pusQueue">>, <<"distributor">>} :
       \A v \in Service : p # <<"service", v>> /\ p # <<"queue", v>>
  /\ \A u, v \in Service : /\ <<"service", u>> # <<"queue", v>>
                           /\ <<"service", u>> = <<"service", v>> => u = v
                           /\ <<"queue", u>> = <<"queue", v>> => u = v
  OBVIOUS

LEMMA HeldNow ==
  ASSUME NEW s
  PROVE  /\ HeldBy(s, <<"poller">>) <=> polled = s
         /\ HeldBy(s, <<"ccsdsQueue">>) <=> In(s, ccsdsQueue)
         /\ HeldBy(s, <<"pusQueue">>) <=> In(s, pusQueue)
         /\ HeldBy(s, <<"distributor">>)
              <=> distributor.slot = s /\ distributor.step # "accepted"
         /\ \A v \in Service : /\ HeldBy(s, <<"service", v>>) <=> service[v].slot = s
                               /\ HeldBy(s, <<"queue", v>>) <=> In(s, requestQueue[v])
  BY Distinct DEF HeldBy

-----------------------------------------------------------------------------
(***************************************************************************)
(* Type correctness.                                                       *)
(***************************************************************************)
LEMMA Depths == /\ DistributorDepth \in Nat \ {0} /\ RequestDepth \in Nat \ {0}
                /\ VerificationDepth \in Nat \ {0}
  BY UplinkAssumption

LEMMA NoSlotIsNone == NoSlot \notin Slot /\ NoSlot \in SlotOrNone /\ Slot \subseteq SlotOrNone
  BY DEF NoSlot, Slot, SlotOrNone

LEMMA InitTyped == Init => Typed
<1> SUFFICES ASSUME Init PROVE Typed
  OBVIOUS
<1>1. << >> \in Seq(Slot) /\ << >> \in Seq(Message) /\ Len(<< >>) = 0
  OBVIOUS
<1> QED BY <1>1, Depths, NoSlotIsNone DEF Init, Typed, TypeOK, HasSlot, Pauses, Idle, At

\* A packet that is held is a telecommand
LEMMA HeldIsTelecommand ==
  ASSUME IInv, NEW s \in Slot, NEW p \in Place, HeldBy(s, p)
  PROVE  tcStore[s] \in Telecommand
  BY DEF IInv, OneHolder, Typed, TypeOK

LEMMA PollerTyped ==
  ASSUME IInv, NEW tc \in Telecommand, StoreDatagram(tc) \/ SendDatagram
  PROVE  Typed'
<1> USE DEF Typed, TypeOK, HasSlot
<1>1. CASE StoreDatagram(tc)
  <2>1. UNCHANGED <<ccsdsQueue, pusQueue, distributor, requestQueue, service, verificationQueue>>
    BY <1>1 DEF StoreDatagram, services, reporting
  <2>2. awaited' \subseteq Telecommand /\ dropped' \subseteq Telecommand
    BY <1>1 DEF StoreDatagram, IInv
  <2>3. tcStore' \in [Slot -> Telecommand \cup {Free}] /\ polled' \in SlotOrNone
    BY <1>1, NoSlotIsNone DEF StoreDatagram, IInv
  <2> QED BY <2>1, <2>2, <2>3 DEF IInv
<1>2. CASE SendDatagram
  <2>1. UNCHANGED <<awaited, pusQueue, distributor, requestQueue, service, verificationQueue>>
    BY <1>2 DEF SendDatagram, services, reporting
  <2>2. polled \in Slot /\ polled' \in SlotOrNone
    BY <1>2, NoSlotIsNone DEF SendDatagram, IInv, SlotOrNone
  <2>3. ccsdsQueue' \in Seq(Slot) /\ Len(ccsdsQueue') <= DistributorDepth
    <3>1. CASE Len(ccsdsQueue) < DistributorDepth
      <4>1. ccsdsQueue' = Append(ccsdsQueue, polled)
        BY <1>2, <3>1 DEF SendDatagram
      <4> QED BY <4>1, <2>2, <3>1, Lengths, Depths DEF IInv
    <3> QED BY <1>2, <3>1 DEF SendDatagram, IInv
  <2>4. tcStore[polled] \in Telecommand
    BY <2>2, HeldNow, PlaceOf, HeldIsTelecommand
  <2>5. tcStore' \in [Slot -> Telecommand \cup {Free}] /\ dropped' \subseteq Telecommand
    BY <1>2, <2>4 DEF SendDatagram, Delete, IInv
  <2> QED BY <2>1, <2>2, <2>3, <2>5 DEF IInv
<1> QED BY <1>1, <1>2

LEMMA CcsdsTyped ==
  ASSUME IInv, CcsdsReceive \/ CcsdsForward
  PROVE  Typed'
<1> USE DEF Typed, TypeOK, HasSlot
<1>1. CASE CcsdsReceive
  <2>1. UNCHANGED <<tcStore, awaited, polled, pusQueue, requestQueue, service,
                    verificationQueue, dropped>>
    BY <1>1 DEF CcsdsReceive, poller, services, reporting
  <2>2. /\ ccsdsQueue' \in Seq(Slot) /\ Len(ccsdsQueue') <= DistributorDepth
        /\ ccsdsQueue # << >> => Head(ccsdsQueue) \in Slot
    <3>1. ccsdsQueue \in Seq(Slot) /\ Len(ccsdsQueue) <= DistributorDepth
      BY DEF IInv
    <3>2. CASE ccsdsQueue = << >>
      BY <1>1, <3>1, <3>2 DEF CcsdsReceive
    <3>3. CASE ccsdsQueue # << >>
      <4>1. ccsdsQueue' = Tail(ccsdsQueue)
        BY <1>1, <3>3 DEF CcsdsReceive
      <4> QED BY <4>1, <3>1, <3>3, Lengths, Depths
    <3> QED BY <3>2, <3>3
  <2>3. /\ distributor' \in [step : {"ccsds", "ccsdsForward", "pus", "select", "accepted",
                                     "rejected", "pusDelete"}, slot : SlotOrNone]
        /\ distributor'.step \notin Pauses => distributor'.slot \in Slot
    BY <1>1, <2>2, NoSlotIsNone DEF CcsdsReceive, At, Pauses
  <2> QED BY <2>1, <2>2, <2>3 DEF IInv
<1>2. CASE CcsdsForward
  <2> DEFINE s == distributor.slot
  <2>1. s \in Slot /\ UNCHANGED <<awaited, polled, ccsdsQueue, requestQueue, service,
                                  verificationQueue>>
    BY <1>2 DEF CcsdsForward, poller, services, reporting, IInv, Pauses
  <2>2. HeldBy(s, <<"distributor">>)
    BY <1>2, HeldNow DEF CcsdsForward
  <2>3. tcStore[s] \in Telecommand
    BY <2>1, <2>2, PlaceOf, HeldIsTelecommand
  <2>4. pusQueue' \in Seq(Slot) /\ Len(pusQueue') <= DistributorDepth
    <3>1. CASE Len(pusQueue) < DistributorDepth
      <4>1. pusQueue' = Append(pusQueue, s)
        BY <1>2, <3>1 DEF CcsdsForward
      <4> QED BY <4>1, <2>1, <3>1, Lengths, Depths DEF IInv
    <3> QED BY <1>2, <3>1 DEF CcsdsForward, IInv
  <2>5. tcStore' \in [Slot -> Telecommand \cup {Free}] /\ dropped' \subseteq Telecommand
    BY <1>2, <2>3 DEF CcsdsForward, Delete, IInv
  <2>6. distributor' = [step |-> "ccsds", slot |-> NoSlot]
    BY <1>2 DEF CcsdsForward, At
  <2> QED BY <2>1, <2>4, <2>5, <2>6, NoSlotIsNone DEF IInv, Pauses
<1> QED BY <1>1, <1>2

\* A report is a message, and a full queue does not take it
LEMMA ReportTyped ==
  ASSUME Typed, NEW kind \in Kind, NEW code \in Code, NEW tc, NEW s \in Slot,
         Report(kind, code, tc, s)
  PROVE  verificationQueue' \in Seq(Message) /\ Len(verificationQueue') <= VerificationDepth
<1>1. [kind |-> kind, code |-> code, about |-> tcStore[s]] \in Message
  BY DEF Typed, TypeOK, Message
<1>2. verificationQueue \in Seq(Message) /\ Len(verificationQueue) <= VerificationDepth
  BY DEF Typed, TypeOK
<1>3. CASE Len(verificationQueue) < VerificationDepth
  <2>1. verificationQueue'
          = Append(verificationQueue, [kind |-> kind, code |-> code, about |-> tcStore[s]])
    BY <1>3 DEF Report
  <2> QED BY <2>1, <1>1, <1>2, <1>3, Lengths, Depths
<1>4. CASE ~(Len(verificationQueue) < VerificationDepth)
  BY <1>2, <1>4 DEF Report
<1> QED BY <1>3, <1>4

LEMMA SelectTyped ==
  ASSUME IInv, PusSelect
  PROVE  Typed'
<1> USE DEF Typed, TypeOK, HasSlot
<1> DEFINE s == distributor.slot
           room == {v \in Destination(tcStore[s]) : Len(requestQueue[v]) < RequestDepth}
<1>1. /\ s \in Slot
      /\ UNCHANGED <<tcStore, awaited, polled, ccsdsQueue, pusQueue, service,
                     verificationQueue, dropped>>
  BY DEF PusSelect, poller, reporting, IInv, Pauses
<1>2. /\ requestQueue' = [v \in Service |->
           IF v \in room THEN Append(requestQueue[v], s) ELSE requestQueue[v]]
      /\ distributor' = At(IF room # {} THEN "accepted" ELSE "rejected", s)
  BY DEF PusSelect
<1>3. ASSUME NEW v \in Service
      PROVE  requestQueue'[v] \in Seq(Slot) /\ Len(requestQueue'[v]) <= RequestDepth
  <2>1. requestQueue[v] \in Seq(Slot) /\ Len(requestQueue[v]) <= RequestDepth
    BY DEF IInv
  <2>2. CASE v \in room
    <3>1. Len(requestQueue[v]) < RequestDepth /\ requestQueue'[v] = Append(requestQueue[v], s)
      BY <1>2, <2>2
    <3> QED BY <1>1, <2>1, <3>1, Lengths, Depths
  <2>3. CASE v \notin room
    BY <1>2, <2>1, <2>3
  <2> QED BY <2>2, <2>3
<1>4. requestQueue' \in [Service -> Seq(Slot)]
  BY <1>2, <1>3
<1> HIDE DEF room
<1>5. /\ distributor' \in [step : {"ccsds", "ccsdsForward", "pus", "select", "accepted",
                                   "rejected", "pusDelete"}, slot : SlotOrNone]
      /\ distributor'.slot \in Slot
  BY <1>1, <1>2, NoSlotIsNone DEF At
<1> QED BY <1>1, <1>3, <1>4, <1>5 DEF IInv

LEMMA PusTyped ==
  ASSUME IInv, PusReceive \/ PusAccepted \/ PusRejected \/ PusDelete
  PROVE  Typed'
<1> USE DEF Typed, TypeOK, HasSlot
<1>1. CASE PusReceive
  <2>1. UNCHANGED <<tcStore, awaited, polled, ccsdsQueue, requestQueue, service,
                    verificationQueue, dropped>>
    BY <1>1 DEF PusReceive, poller, services, reporting
  <2>2. /\ pusQueue' \in Seq(Slot) /\ Len(pusQueue') <= DistributorDepth
        /\ pusQueue # << >> => Head(pusQueue) \in Slot
    <3>1. pusQueue \in Seq(Slot) /\ Len(pusQueue) <= DistributorDepth
      BY DEF IInv
    <3>2. CASE pusQueue = << >>
      BY <1>1, <3>1, <3>2 DEF PusReceive
    <3>3. CASE pusQueue # << >>
      <4>1. pusQueue' = Tail(pusQueue)
        BY <1>1, <3>3 DEF PusReceive
      <4> QED BY <4>1, <3>1, <3>3, Lengths, Depths
    <3> QED BY <3>2, <3>3
  <2>3. /\ distributor' \in [step : {"ccsds", "ccsdsForward", "pus", "select", "accepted",
                                     "rejected", "pusDelete"}, slot : SlotOrNone]
        /\ distributor'.step \notin Pauses => distributor'.slot \in Slot
    BY <1>1, <2>2, NoSlotIsNone DEF PusReceive, At, Pauses
  <2> QED BY <2>1, <2>2, <2>3 DEF IInv
<1>2. CASE PusAccepted \/ PusRejected
  <2> DEFINE s == distributor.slot
  <2>1. s \in Slot /\ UNCHANGED <<tcStore, awaited, polled, ccsdsQueue, pusQueue, requestQueue,
                                  service, dropped>>
    BY <1>2 DEF PusAccepted, PusRejected, poller, services, IInv, Pauses
  <2>2. verificationQueue' \in Seq(Message) /\ Len(verificationQueue') <= VerificationDepth
    <3>1. \E kind \in Kind, code \in Code : Report(kind, code, tcStore[s], s)
      <4>1. FailureCode(tcStore[s]) \in Code
        BY DEF FailureCode, Code
      <4>2. "ACCEPTANCE_SUCCESS" \in Kind /\ "ACCEPTANCE_FAILURE" \in Kind /\ "RETURN_OK" \in Code
        BY DEF Kind, Code
      <4> QED BY <1>2, <4>1, <4>2 DEF PusAccepted, PusRejected
    <3> HIDE DEF Typed, s
    <3> QED BY <2>1, <3>1, ReportTyped DEF IInv
  <2>3. \/ distributor' = [step |-> "pus", slot |-> NoSlot]
        \/ distributor' = [step |-> "pusDelete", slot |-> s]
    BY <1>2 DEF PusAccepted, PusRejected, At
  <2> HIDE DEF s
  <2> QED BY <2>1, <2>2, <2>3, NoSlotIsNone DEF IInv, Pauses
<1>3. CASE PusDelete
  <2>1. UNCHANGED <<awaited, polled, ccsdsQueue, pusQueue, requestQueue, service,
                    verificationQueue, dropped>>
    BY <1>3 DEF PusDelete, poller, services, reporting
  <2>2. tcStore' \in [Slot -> Telecommand \cup {Free}]
    BY <1>3 DEF PusDelete, Delete, IInv
  <2>3. distributor' = [step |-> "pus", slot |-> NoSlot]
    BY <1>3 DEF PusDelete, At
  <2> QED BY <2>1, <2>2, <2>3, NoSlotIsNone DEF IInv, Pauses
<1> QED BY <1>1, <1>2, <1>3

LEMMA ServiceTyped ==
  ASSUME IInv, NEW v \in Service, ServiceStep(v)
  PROVE  Typed'
<1> USE DEF Typed, TypeOK, HasSlot
<1>1. CASE ServiceReceive(v)
  <2>1. UNCHANGED <<tcStore, awaited, polled, ccsdsQueue, pusQueue, distributor,
                    verificationQueue, dropped>>
    BY <1>1 DEF ServiceReceive, poller, reporting
  <2>2. /\ Head(requestQueue[v]) \in Slot
        /\ Tail(requestQueue[v]) \in Seq(Slot) /\ Len(Tail(requestQueue[v])) <= RequestDepth
    BY <1>1, Lengths, Depths DEF ServiceReceive, IInv
  <2>3. requestQueue' = [requestQueue EXCEPT ![v] = Tail(@)]
    BY <1>1 DEF ServiceReceive
  <2>4. /\ requestQueue' \in [Service -> Seq(Slot)]
        /\ \A u \in Service : Len(requestQueue'[u]) <= RequestDepth
    BY <2>2, <2>3 DEF IInv
  <2>5. service' = [service EXCEPT ![v] = [step |-> "handle", slot |-> Head(requestQueue[v])]]
    BY <1>1 DEF ServiceReceive, At
  <2>6. /\ service' \in [Service -> [step : {"receive", "handle", "delete"}, slot : SlotOrNone]]
        /\ \A u \in Service : service'[u].step # "receive" => service'[u].slot \in Slot
    BY <2>2, <2>5, NoSlotIsNone DEF IInv
  <2> QED BY <2>1, <2>4, <2>6 DEF IInv
<1>2. ASSUME NEW kind \in {"COMPLETION_SUCCESS", "COMPLETION_FAILURE"}, ServiceHandle(v, kind)
      PROVE  Typed'
  <2>1. UNCHANGED <<tcStore, awaited, polled, ccsdsQueue, pusQueue, distributor,
                    requestQueue, dropped>>
    BY <1>2 DEF ServiceHandle, poller
  <2>2. service[v].slot \in Slot
    BY <1>2 DEF ServiceHandle, IInv
  <2>3. verificationQueue' \in Seq(Message) /\ Len(verificationQueue') <= VerificationDepth
    <3>1. kind \in Kind /\ "RETURN_OK" \in Code
      BY DEF Kind, Code
    <3>2. \E tc : Report(kind, "RETURN_OK", tc, service[v].slot)
      BY <1>2 DEF ServiceHandle
    <3> HIDE DEF Typed
    <3> QED BY <2>2, <3>1, <3>2, ReportTyped DEF IInv
  <2>4. service' = [service EXCEPT ![v].step = "delete"]
    BY <1>2 DEF ServiceHandle
  <2>5. /\ service' \in [Service -> [step : {"receive", "handle", "delete"}, slot : SlotOrNone]]
        /\ \A u \in Service : service'[u].step # "receive" => service'[u].slot \in Slot
    BY <2>2, <2>4 DEF IInv
  <2> QED BY <2>1, <2>3, <2>5 DEF IInv
<1>3. CASE ServiceDelete(v)
  <2>1. UNCHANGED <<awaited, polled, ccsdsQueue, pusQueue, distributor, requestQueue,
                    verificationQueue, dropped>>
    BY <1>3 DEF ServiceDelete, poller, reporting
  <2>2. tcStore' \in [Slot -> Telecommand \cup {Free}]
    BY <1>3 DEF ServiceDelete, Delete, IInv
  <2>3. service' = [service EXCEPT ![v] = [step |-> "receive", slot |-> NoSlot]]
    BY <1>3 DEF ServiceDelete, Idle, At
  <2>4. /\ service' \in [Service -> [step : {"receive", "handle", "delete"}, slot : SlotOrNone]]
        /\ \A u \in Service : service'[u].step # "receive" => service'[u].slot \in Slot
    BY <2>3, NoSlotIsNone DEF IInv
  <2> QED BY <2>1, <2>2, <2>4 DEF IInv
<1> QED BY <1>1, <1>2, <1>3 DEF ServiceStep

LEMMA StepTyped == IInv /\ [Next]_vars => Typed'
<1> SUFFICES ASSUME IInv, [Next]_vars PROVE Typed'
  OBVIOUS
<1>1. CASE TakeReport
  <2>1. verificationQueue' \in Seq(Message) /\ Len(verificationQueue') <= VerificationDepth
    BY <1>1, Lengths, Depths DEF TakeReport, IInv, Typed, TypeOK
  <2> QED BY <1>1, <2>1 DEF TakeReport, poller, services, IInv, Typed, TypeOK, HasSlot
<1>2. CASE UNCHANGED vars
  BY <1>2 DEF vars, poller, services, reporting, IInv, Typed, TypeOK, HasSlot
<1>3. CASE SendDatagram
  <2>1. \E tc \in Telecommand : TRUE
    <3>1. polled \in Slot
      BY <1>3 DEF SendDatagram, IInv, Typed, TypeOK, SlotOrNone
    <3> QED BY <3>1, HeldNow, PlaceOf, HeldIsTelecommand
  <2> QED BY <1>3, <2>1, PollerTyped
<1>4. CASE DistributorStep
  BY <1>4, CcsdsTyped, SelectTyped, PusTyped DEF DistributorStep
<1> QED BY <1>1, <1>2, <1>3, <1>4, PollerTyped, ServiceTyped DEF Next

-----------------------------------------------------------------------------
(***************************************************************************)
(* What a step may do with the addresses: nothing, or to give one that is  *)
(* nowhere to a place, to take it from its place to another one, or to     *)
(* free its slot.                                                          *)
(***************************************************************************)
LEMMA OnlyThere ==
  ASSUME OneHolder, NEW s \in Slot, NEW p \in Place, HeldBy(s, p)
  PROVE  tcStore[s] # Free /\ \A q \in Place : HeldBy(s, q) <=> q = p
  BY DEF OneHolder

\* The holder of a slot under the mapping to TokenStore, now and after a step
LEMMA HolderNow ==
  ASSUME OneHolder, NEW s \in Slot
  PROVE  /\ \A p \in Place : HeldBy(s, p) => HolderOf(s) = p
         /\ tcStore[s] = Free => HolderOf(s) = <<"nobody">>
         /\ tcStore[s] # Free => HolderOf(s) \in Place
  BY DEF OneHolder, HolderOf

LEMMA HolderNext ==
  ASSUME OneHolder', NEW s \in Slot
  PROVE  /\ \A p \in Place : HeldBy(s, p)' => HolderOf(s)' = p
         /\ tcStore'[s] = Free => HolderOf(s)' = <<"nobody">>
         /\ tcStore'[s] # Free => HolderOf(s)' \in Place
  BY DEF OneHolder, HolderOf

\* Who is not concerned has the same holder as before
LEMMA OthersStay ==
  ASSUME OneHolder, OneHolder', NEW r \in Slot, tcStore'[r] = Free <=> tcStore[r] = Free,
         \A q \in Place : HeldBy(r, q)' <=> HeldBy(r, q)
  PROVE  HolderOf(r)' = HolderOf(r)
<1>1. CASE tcStore[r] = Free
  BY <1>1, HolderNow, HolderNext
<1>2. CASE tcStore[r] # Free
  <2>1. PICK p \in Place : HeldBy(r, p)
    BY <1>2 DEF OneHolder
  <2> QED BY <2>1, HolderNow, HolderNext
<1> QED BY <1>1, <1>2

\* A step on one slot is a step of TokenStore if it is one of its actions there
LEMMA OnOneSlot ==
  ASSUME Typed, Typed', OneHolder, OneHolder', NEW s \in Slot,
         \A r \in Slot \ {s} : /\ tcStore'[r] = tcStore[r]
                               /\ \A q \in Place : HeldBy(r, q)' <=> HeldBy(r, q),
         Tokens!Allocate(s) \/ Tokens!Fill(s) \/ Tokens!Pass(s) \/ Tokens!Delete(s)
  PROVE  Tokens!Next
<1> DEFINE holder == [r \in Slot |-> HolderOf(r)]
<1>1. tcStore' = [tcStore EXCEPT ![s] = tcStore'[s]]
  BY DEF Typed, TypeOK
<1>2. \A r \in Slot \ {s} : HolderOf(r)' = HolderOf(r)
  BY OthersStay
<1>3. holder' = [holder EXCEPT ![s] = holder'[s]]
  BY <1>2
<1> QED BY <1>1, <1>3 DEF Tokens!Next

LEMMA Stay ==
  ASSUME OneHolder, QueuesApart', UNCHANGED tcStore,
         \A r \in Slot, q \in Place : HeldBy(r, q)' <=> HeldBy(r, q)
  PROVE  OneHolder' /\ UNCHANGED Tokens!vars
<1>1. OneHolder'
  BY DEF OneHolder, QueuesApart
<1>2. \A r \in Slot : HolderOf(r)' = HolderOf(r)
  BY <1>1, OthersStay
<1> QED BY <1>1, <1>2 DEF Tokens!vars

LEMMA Give ==
  ASSUME Typed, Typed', OneHolder, QueuesApart', NEW s \in Slot, NEW p \in Place,
         tcStore[s] = Free, tcStore'[s] # Free,
         \A r \in Slot \ {s} : tcStore'[r] = tcStore[r],
         \A r \in Slot, q \in Place : HeldBy(r, q)' <=> HeldBy(r, q) \/ (r = s /\ q = p)
  PROVE  OneHolder' /\ Tokens!Next
<1>1. OneHolder'
  BY DEF OneHolder, QueuesApart
<1>2. HolderOf(s) = <<"nobody">> /\ HolderOf(s)' \in Place /\ tcStore'[s] \in Telecommand
  BY <1>1, HolderNow, HolderNext DEF Typed, TypeOK
<1>3. Tokens!Allocate(s)
  BY <1>2 DEF Tokens!Allocate
<1> QED BY <1>1, <1>3, OnOneSlot

LEMMA Take ==
  ASSUME Typed, Typed', OneHolder, QueuesApart',
         NEW s \in Slot, NEW p \in Place, NEW to \in Place,
         HeldBy(s, p), UNCHANGED tcStore,
         \A r \in Slot, q \in Place :
           HeldBy(r, q)' <=> (IF r = s THEN q = to ELSE HeldBy(r, q))
  PROVE  OneHolder' /\ Tokens!Next
<1>1. OneHolder'
  BY DEF OneHolder, QueuesApart
<1>2. HolderOf(s) = p /\ HolderOf(s)' = to /\ p # <<"nobody">>
  BY <1>1, HolderNow, HolderNext, PlaceOf
<1>3. Tokens!Pass(s)
  BY <1>2 DEF Tokens!Pass
<1> QED BY <1>1, <1>3, OnOneSlot

LEMMA Release ==
  ASSUME Typed, Typed', OneHolder, QueuesApart', NEW s \in Slot, NEW p \in Place,
         HeldBy(s, p), tcStore'[s] = Free,
         \A r \in Slot \ {s} : tcStore'[r] = tcStore[r],
         \A r \in Slot, q \in Place : HeldBy(r, q)' <=> HeldBy(r, q) /\ r # s
  PROVE  OneHolder' /\ Tokens!Next
<1>1. OneHolder'
  BY DEF OneHolder, QueuesApart
<1>2. HolderOf(s) = p /\ HolderOf(s)' = <<"nobody">> /\ p # <<"nobody">>
  BY <1>1, HolderNow, HolderNext, PlaceOf
<1>3. Tokens!Delete(s)
  BY <1>2 DEF Tokens!Delete
<1> QED BY <1>1, <1>3, OnOneSlot

\* An address is not where its packet is not held
LEMMA Elsewhere ==
  ASSUME OneHolder, NEW s \in Slot, NEW p \in Place, HeldBy(s, p)
  PROVE  /\ p # <<"poller">> => polled # s
         /\ p # <<"ccsdsQueue">> => ~In(s, ccsdsQueue)
         /\ p # <<"pusQueue">> => ~In(s, pusQueue)
         /\ p # <<"distributor">> => distributor.slot # s \/ distributor.step = "accepted"
         /\ \A v \in Service : /\ p # <<"service", v>> => service[v].slot # s
                               /\ p # <<"queue", v>> => ~In(s, requestQueue[v])
  BY OnlyThere, HeldNow, PlaceOf

LEMMA Apart == OneHolder => QueuesApart
  BY DEF OneHolder, QueuesApart

-----------------------------------------------------------------------------
(***************************************************************************)
(* The steps of the poller.                                                *)
(***************************************************************************)
LEMMA StoreKeeps ==
  ASSUME IInv, Typed', NEW tc \in Telecommand, StoreDatagram(tc)
  PROVE  OneHolder' /\ [Tokens!Next]_(Tokens!vars)
<1>1. /\ polled = NoSlot
      /\ UNCHANGED <<ccsdsQueue, pusQueue, distributor, requestQueue, service>>
  BY DEF StoreDatagram, services
<1>2. QueuesApart'
  BY <1>1, Apart DEF IInv, QueuesApart
<1>3. CASE \E s \in Slot : tcStore[s] = Free
  <2>1. PICK s \in Slot : /\ tcStore[s] = Free /\ polled' = s
                          /\ tcStore' = [tcStore EXCEPT ![s] = tc]
    BY <1>3 DEF StoreDatagram
  <2>2. tcStore'[s] # Free /\ \A r \in Slot \ {s} : tcStore'[r] = tcStore[r]
    BY <2>1, UplinkAssumption DEF IInv, Typed, TypeOK
  <2>3. ASSUME NEW r \in Slot, NEW q \in Place
        PROVE  HeldBy(r, q)' <=> HeldBy(r, q) \/ (r = s /\ q = <<"poller">>)
    <3>1. CASE r = s
      BY <1>1, <2>1, <3>1 DEF HeldBy
    <3>2. CASE r # s
      BY <1>1, <2>1, <3>2, NoSlotIsNone DEF HeldBy
    <3> QED BY <3>1, <3>2
  <2> QED BY <1>2, <2>1, <2>2, <2>3, Give, PlaceOf DEF IInv
<1>4. CASE ~ \E s \in Slot : tcStore[s] = Free
  <2>1. UNCHANGED <<tcStore, polled>>
    BY <1>4 DEF StoreDatagram
  <2>2. \A r \in Slot, q \in Place : HeldBy(r, q)' <=> HeldBy(r, q)
    BY <1>1, <2>1 DEF HeldBy
  <2> QED BY <1>2, <2>1, <2>2, Stay DEF IInv
<1> QED BY <1>3, <1>4

LEMMA SendKeeps ==
  ASSUME IInv, Typed', SendDatagram
  PROVE  OneHolder' /\ Tokens!Next
<1> DEFINE s == polled
<1>1. /\ s \in Slot /\ polled' = NoSlot
      /\ UNCHANGED <<pusQueue, distributor, requestQueue, service>>
  BY DEF SendDatagram, IInv, Typed, TypeOK, SlotOrNone, services
<1>2. HeldBy(s, <<"poller">>) /\ \A q \in Place : HeldBy(s, q) <=> q = <<"poller">>
  BY <1>1, HeldNow, OnlyThere, PlaceOf DEF IInv
<1>3. \A r \in Slot : r # s => polled # r
  OBVIOUS
<1>4. /\ ~In(s, ccsdsQueue) /\ ~In(s, pusQueue)
      /\ distributor.slot # s \/ distributor.step = "accepted"
      /\ \A v \in Service : service[v].slot # s /\ ~In(s, requestQueue[v])
  BY <1>1, <1>2, Elsewhere, PlaceOf, Distinct DEF IInv
<1> HIDE DEF s
<1>5. CASE ccsdsQueue' = Append(ccsdsQueue, s) /\ UNCHANGED tcStore
  <2>1. /\ \A r \in Slot : In(r, ccsdsQueue') <=> In(r, ccsdsQueue) \/ r = s
        /\ QueuesApart'
    <3>1. QueuesApart /\ ccsdsQueue \in Seq(Slot)
      BY Apart DEF IInv, Typed, TypeOK
    <3> QED BY <1>1, <1>4, <1>5, <3>1, Sent DEF QueuesApart
  <2>2. ASSUME NEW r \in Slot, NEW q \in Place
        PROVE  HeldBy(r, q)' <=> IF r = s THEN q = <<"ccsdsQueue">> ELSE HeldBy(r, q)
    <3>1. CASE r = s
      BY <1>1, <1>4, <2>1, <3>1, NoSlotIsNone DEF HeldBy
    <3>2. CASE r # s
      BY <1>1, <1>3, <2>1, <3>2, NoSlotIsNone DEF HeldBy
    <3> QED BY <3>1, <3>2
  <2> QED BY <1>1, <1>2, <1>5, <2>1, <2>2, Take, PlaceOf DEF IInv
<1>6. CASE Delete(s) /\ UNCHANGED ccsdsQueue
  <2>1. QueuesApart'
    BY <1>1, <1>6, Apart DEF IInv, QueuesApart
  <2>2. tcStore'[s] = Free /\ \A r \in Slot \ {s} : tcStore'[r] = tcStore[r]
    BY <1>1, <1>6 DEF Delete, IInv, Typed, TypeOK
  <2>3. ASSUME NEW r \in Slot, NEW q \in Place
        PROVE  HeldBy(r, q)' <=> HeldBy(r, q) /\ r # s
    <3>1. CASE r = s
      BY <1>1, <1>4, <1>6, <3>1, NoSlotIsNone DEF HeldBy
    <3>2. CASE r # s
      BY <1>1, <1>3, <1>6, <3>2, NoSlotIsNone DEF HeldBy
    <3> QED BY <3>1, <3>2
  <2> QED BY <1>1, <1>2, <2>1, <2>2, <2>3, Release, PlaceOf DEF IInv
<1> QED BY <1>5, <1>6 DEF SendDatagram, s

-----------------------------------------------------------------------------
(***************************************************************************)
(* The steps of the distributors.                                          *)
(***************************************************************************)
LEMMA DistributorHolds ==
  ASSUME IInv, distributor.step \notin Pauses \cup {"accepted"}
  PROVE  LET s == distributor.slot
         IN  /\ s \in Slot /\ HeldBy(s, <<"distributor">>)
             /\ polled # s /\ ~In(s, ccsdsQueue) /\ ~In(s, pusQueue)
             /\ \A v \in Service : service[v].slot # s /\ ~In(s, requestQueue[v])
<1> DEFINE s == distributor.slot
<1>1. s \in Slot /\ HeldBy(s, <<"distributor">>)
  BY HeldNow DEF IInv, Typed, HasSlot
<1>2. /\ polled # s /\ ~In(s, ccsdsQueue) /\ ~In(s, pusQueue)
      /\ \A v \in Service : service[v].slot # s /\ ~In(s, requestQueue[v])
  BY <1>1, Elsewhere, PlaceOf, Distinct DEF IInv
<1> QED BY <1>1, <1>2

LEMMA CcsdsReceiveKeeps ==
  ASSUME IInv, Typed', CcsdsReceive
  PROVE  OneHolder' /\ [Tokens!Next]_(Tokens!vars)
<1>1. /\ distributor.slot = NoSlot
      /\ UNCHANGED <<tcStore, polled, pusQueue, requestQueue, service>>
  BY DEF CcsdsReceive, IInv, Waiting, Pauses, poller, services
<1>2. CASE ccsdsQueue # << >>
  <2> DEFINE s == Head(ccsdsQueue)
  <2>1. /\ distributor'.slot = s /\ distributor'.step # "accepted"
        /\ ccsdsQueue' = Tail(ccsdsQueue)
    BY <1>2 DEF CcsdsReceive, At
  <2>2. /\ s \in Slot /\ In(s, ccsdsQueue) /\ QueuesApart'
        /\ \A r \in Slot : In(r, ccsdsQueue') <=> In(r, ccsdsQueue) /\ r # s
    <3>1. QueuesApart /\ ccsdsQueue \in Seq(Slot)
      BY Apart DEF IInv, Typed, TypeOK
    <3> QED BY <1>1, <1>2, <2>1, <3>1, Received DEF QueuesApart
  <2>3. HeldBy(s, <<"ccsdsQueue">>)
    BY <2>2, HeldNow
  <2>4. /\ polled # s /\ ~In(s, pusQueue)
        /\ \A v \in Service : service[v].slot # s /\ ~In(s, requestQueue[v])
    BY <2>2, <2>3, Elsewhere, PlaceOf, Distinct DEF IInv
  <2> HIDE DEF s
  <2>5. ASSUME NEW r \in Slot, NEW q \in Place
        PROVE  HeldBy(r, q)' <=> IF r = s THEN q = <<"distributor">> ELSE HeldBy(r, q)
    <3>1. CASE r = s
      BY <1>1, <2>1, <2>2, <2>4, <3>1 DEF HeldBy
    <3>2. CASE r # s
      BY <1>1, <2>1, <2>2, <3>2, NoSlotIsNone DEF HeldBy
    <3> QED BY <3>1, <3>2
  <2> QED BY <1>1, <2>2, <2>3, <2>5, Take, PlaceOf DEF IInv
<1>3. CASE ccsdsQueue = << >>
  <2>1. distributor'.slot = NoSlot /\ UNCHANGED ccsdsQueue
    BY <1>3 DEF CcsdsReceive, At
  <2>2. QueuesApart'
    BY <1>1, <2>1, Apart DEF IInv, QueuesApart
  <2>3. \A r \in Slot, q \in Place : HeldBy(r, q)' <=> HeldBy(r, q)
    BY <1>1, <2>1, NoSlotIsNone DEF HeldBy
  <2> QED BY <1>1, <2>2, <2>3, Stay DEF IInv
<1> QED BY <1>2, <1>3

LEMMA CcsdsForwardKeeps ==
  ASSUME IInv, Typed', CcsdsForward
  PROVE  OneHolder' /\ Tokens!Next
<1> DEFINE s == distributor.slot
<1>1. /\ distributor'.slot = NoSlot
      /\ UNCHANGED <<polled, ccsdsQueue, requestQueue, service>>
  BY DEF CcsdsForward, At, poller, services
<1>2. /\ s \in Slot /\ HeldBy(s, <<"distributor">>)
      /\ polled # s /\ ~In(s, ccsdsQueue) /\ ~In(s, pusQueue)
      /\ \A v \in Service : service[v].slot # s /\ ~In(s, requestQueue[v])
  BY DistributorHolds DEF CcsdsForward, Pauses
<1>3. \A r \in Slot : r # s => distributor.slot # r
  OBVIOUS
<1> HIDE DEF s
<1>4. CASE pusQueue' = Append(pusQueue, s) /\ UNCHANGED tcStore
  <2>1. /\ \A r \in Slot : In(r, pusQueue') <=> In(r, pusQueue) \/ r = s
        /\ QueuesApart'
    <3>1. QueuesApart /\ pusQueue \in Seq(Slot)
      BY Apart DEF IInv, Typed, TypeOK
    <3> QED BY <1>1, <1>2, <1>4, <3>1, Sent DEF QueuesApart
  <2>2. ASSUME NEW r \in Slot, NEW q \in Place
        PROVE  HeldBy(r, q)' <=> IF r = s THEN q = <<"pusQueue">> ELSE HeldBy(r, q)
    <3>1. CASE r = s
      BY <1>1, <1>2, <2>1, <3>1, NoSlotIsNone DEF HeldBy
    <3>2. CASE r # s
      BY <1>1, <1>3, <2>1, <3>2, NoSlotIsNone DEF HeldBy
    <3> QED BY <3>1, <3>2
  <2> QED BY <1>2, <1>4, <2>1, <2>2, Take, PlaceOf DEF IInv
<1>5. CASE Delete(s) /\ UNCHANGED pusQueue
  <2>1. QueuesApart'
    BY <1>1, <1>5, Apart DEF IInv, QueuesApart
  <2>2. tcStore'[s] = Free /\ \A r \in Slot \ {s} : tcStore'[r] = tcStore[r]
    BY <1>2, <1>5 DEF Delete, IInv, Typed, TypeOK
  <2>3. ASSUME NEW r \in Slot, NEW q \in Place
        PROVE  HeldBy(r, q)' <=> HeldBy(r, q) /\ r # s
    <3>1. CASE r = s
      BY <1>1, <1>2, <1>5, <3>1, NoSlotIsNone DEF HeldBy
    <3>2. CASE r # s
      BY <1>1, <1>3, <1>5, <3>2, NoSlotIsNone DEF HeldBy
    <3> QED BY <3>1, <3>2
  <2> QED BY <1>2, <2>1, <2>2, <2>3, Release, PlaceOf DEF IInv
<1> QED BY <1>4, <1>5 DEF CcsdsForward, s

LEMMA PusReceiveKeeps ==
  ASSUME IInv, Typed', PusReceive
  PROVE  OneHolder' /\ [Tokens!Next]_(Tokens!vars)
<1>1. /\ distributor.slot = NoSlot
      /\ UNCHANGED <<tcStore, polled, ccsdsQueue, requestQueue, service>>
  BY DEF PusReceive, IInv, Waiting, Pauses, poller, services
<1>2. CASE pusQueue # << >>
  <2> DEFINE s == Head(pusQueue)
  <2>1. /\ distributor'.slot = s /\ distributor'.step # "accepted"
        /\ pusQueue' = Tail(pusQueue)
    BY <1>2 DEF PusReceive, At
  <2>2. /\ s \in Slot /\ In(s, pusQueue) /\ QueuesApart'
        /\ \A r \in Slot : In(r, pusQueue') <=> In(r, pusQueue) /\ r # s
    <3>1. QueuesApart /\ pusQueue \in Seq(Slot)
      BY Apart DEF IInv, Typed, TypeOK
    <3> QED BY <1>1, <1>2, <2>1, <3>1, Received DEF QueuesApart
  <2>3. HeldBy(s, <<"pusQueue">>)
    BY <2>2, HeldNow
  <2>4. /\ polled # s /\ ~In(s, ccsdsQueue)
        /\ \A v \in Service : service[v].slot # s /\ ~In(s, requestQueue[v])
    BY <2>2, <2>3, Elsewhere, PlaceOf, Distinct DEF IInv
  <2> HIDE DEF s
  <2>5. ASSUME NEW r \in Slot, NEW q \in Place
        PROVE  HeldBy(r, q)' <=> IF r = s THEN q = <<"distributor">> ELSE HeldBy(r, q)
    <3>1. CASE r = s
      BY <1>1, <2>1, <2>2, <2>4, <3>1 DEF HeldBy
    <3>2. CASE r # s
      BY <1>1, <2>1, <2>2, <3>2, NoSlotIsNone DEF HeldBy
    <3> QED BY <3>1, <3>2
  <2> QED BY <1>1, <2>2, <2>3, <2>5, Take, PlaceOf DEF IInv
<1>3. CASE pusQueue = << >>
  <2>1. distributor'.slot = NoSlot /\ UNCHANGED pusQueue
    BY <1>3 DEF PusReceive, At
  <2>2. QueuesApart'
    BY <1>1, <2>1, Apart DEF IInv, QueuesApart
  <2>3. \A r \in Slot, q \in Place : HeldBy(r, q)' <=> HeldBy(r, q)
    BY <1>1, <2>1, NoSlotIsNone DEF HeldBy
  <2> QED BY <1>1, <2>2, <2>3, Stay DEF IInv
<1> QED BY <1>2, <1>3

\* The packet goes to the queue of its service, or stays with the distributor
LEMMA PusSelectKeeps ==
  ASSUME IInv, Typed', PusSelect
  PROVE  OneHolder' /\ [Tokens!Next]_(Tokens!vars)
<1> DEFINE s == distributor.slot
           room == {v \in Destination(tcStore[s]) : Len(requestQueue[v]) < RequestDepth}
<1>1. /\ requestQueue' = [v \in Service |->
           IF v \in room THEN Append(requestQueue[v], s) ELSE requestQueue[v]]
      /\ distributor' = At(IF room # {} THEN "accepted" ELSE "rejected", s)
      /\ UNCHANGED <<tcStore, polled, ccsdsQueue, pusQueue, service>>
  BY DEF PusSelect, poller
<1>2. /\ s \in Slot /\ HeldBy(s, <<"distributor">>)
      /\ polled # s /\ ~In(s, ccsdsQueue) /\ ~In(s, pusQueue)
      /\ \A v \in Service : service[v].slot # s /\ ~In(s, requestQueue[v])
  BY DistributorHolds DEF PusSelect, Pauses
<1>3. room = {} \/ \E v \in Service : room = {v}
  BY DEF Destination
<1>4. distributor.step # "accepted" /\ \A r \in Slot : r # s => distributor.slot # r
  BY DEF PusSelect
<1>5. requestQueue \in [Service -> Seq(Slot)] /\ QueuesApart
  BY Apart DEF IInv, Typed
<1> HIDE DEF s, room
<1>6. ASSUME NEW u \in Service, room = {u} PROVE OneHolder' /\ Tokens!Next
  <2>1. /\ requestQueue'[u] = Append(requestQueue[u], s)
        /\ \A v \in Service \ {u} : requestQueue'[v] = requestQueue[v]
        /\ distributor'.slot = s /\ distributor'.step = "accepted"
    BY <1>1, <1>6 DEF At
  <2>2. /\ \A r \in Slot : In(r, requestQueue'[u]) <=> In(r, requestQueue[u]) \/ r = s
        /\ QueuesApart'
    BY <1>1, <1>2, <1>5, <2>1, Sent DEF QueuesApart
  <2>3. ASSUME NEW r \in Slot, NEW q \in Place
        PROVE  HeldBy(r, q)' <=> IF r = s THEN q = <<"queue", u>> ELSE HeldBy(r, q)
    <3>1. CASE r = s
      BY <1>1, <1>2, <2>1, <2>2, <3>1 DEF HeldBy
    <3>2. CASE r # s
      BY <1>1, <1>4, <2>1, <2>2, <3>2 DEF HeldBy
    <3> QED BY <3>1, <3>2
  <2> QED BY <1>1, <1>2, <2>2, <2>3, Take, PlaceOf DEF IInv
<1>7. CASE room = {}
  <2>1. /\ \A v \in Service : requestQueue'[v] = requestQueue[v]
        /\ distributor'.slot = s /\ distributor'.step = "rejected"
    BY <1>1, <1>7 DEF At
  <2>2. QueuesApart'
    BY <1>1, <1>5, <2>1 DEF QueuesApart
  <2>3. \A r \in Slot, q \in Place : HeldBy(r, q)' <=> HeldBy(r, q)
    BY <1>1, <1>4, <2>1 DEF HeldBy, s
  <2> QED BY <1>1, <2>2, <2>3, Stay DEF IInv
<1> QED BY <1>3, <1>6, <1>7

LEMMA PusDeleteKeeps ==
  ASSUME IInv, Typed', PusDelete
  PROVE  OneHolder' /\ Tokens!Next
<1> DEFINE s == distributor.slot
<1>1. /\ distributor'.slot = NoSlot /\ Delete(s)
      /\ UNCHANGED <<polled, ccsdsQueue, pusQueue, requestQueue, service>>
  BY DEF PusDelete, At, poller, services
<1>2. /\ s \in Slot /\ HeldBy(s, <<"distributor">>)
      /\ polled # s /\ ~In(s, ccsdsQueue) /\ ~In(s, pusQueue)
      /\ \A v \in Service : service[v].slot # s /\ ~In(s, requestQueue[v])
  BY DistributorHolds DEF PusDelete, Pauses
<1>3. \A r \in Slot : r # s => distributor.slot # r
  OBVIOUS
<1> HIDE DEF s
<1>4. QueuesApart'
  BY <1>1, Apart DEF IInv, QueuesApart
<1>5. tcStore'[s] = Free /\ \A r \in Slot \ {s} : tcStore'[r] = tcStore[r]
  BY <1>1, <1>2 DEF Delete, IInv, Typed, TypeOK
<1>6. ASSUME NEW r \in Slot, NEW q \in Place
      PROVE  HeldBy(r, q)' <=> HeldBy(r, q) /\ r # s
  <2>1. CASE r = s
    BY <1>1, <1>2, <2>1, NoSlotIsNone DEF HeldBy
  <2>2. CASE r # s
    BY <1>1, <1>3, <2>2, NoSlotIsNone DEF HeldBy
  <2> QED BY <2>1, <2>2
<1> QED BY <1>2, <1>4, <1>5, <1>6, Release, PlaceOf DEF IInv

-----------------------------------------------------------------------------
(***************************************************************************)
(* The steps of the services.                                              *)
(***************************************************************************)
LEMMA ServiceReceiveKeeps ==
  ASSUME IInv, Typed', NEW u \in Service, ServiceReceive(u)
  PROVE  OneHolder' /\ Tokens!Next
<1> DEFINE s == Head(requestQueue[u])
<1>1. /\ service[u].slot = NoSlot /\ requestQueue[u] # << >>
      /\ UNCHANGED <<tcStore, polled, ccsdsQueue, pusQueue, distributor>>
  BY DEF ServiceReceive, IInv, Waiting, poller
<1>2. /\ service'[u].slot = s /\ \A v \in Service \ {u} : service'[v] = service[v]
      /\ requestQueue'[u] = Tail(requestQueue[u])
      /\ \A v \in Service \ {u} : requestQueue'[v] = requestQueue[v]
  BY DEF ServiceReceive, At, IInv, Typed, TypeOK
<1>3. /\ s \in Slot /\ In(s, requestQueue[u]) /\ QueuesApart'
      /\ \A r \in Slot : In(r, requestQueue'[u]) <=> In(r, requestQueue[u]) /\ r # s
  <2>1. QueuesApart /\ requestQueue[u] \in Seq(Slot)
    BY Apart DEF IInv, Typed, TypeOK
  <2> QED BY <1>1, <1>2, <2>1, Received DEF QueuesApart
<1>4. HeldBy(s, <<"queue", u>>)
  BY <1>3, HeldNow
<1>5. /\ polled # s /\ ~In(s, ccsdsQueue) /\ ~In(s, pusQueue)
      /\ distributor.slot # s \/ distributor.step = "accepted"
      /\ \A v \in Service : /\ service[v].slot # s
                            /\ v # u => ~In(s, requestQueue[v])
  BY <1>3, <1>4, Elsewhere, PlaceOf, Distinct DEF IInv
<1> HIDE DEF s
<1>6. ASSUME NEW r \in Slot, NEW q \in Place
      PROVE  HeldBy(r, q)' <=> IF r = s THEN q = <<"service", u>> ELSE HeldBy(r, q)
  <2>1. CASE r = s
    BY <1>1, <1>2, <1>3, <1>5, <2>1 DEF HeldBy
  <2>2. CASE r # s
    BY <1>1, <1>2, <1>3, <2>2, NoSlotIsNone DEF HeldBy
  <2> QED BY <2>1, <2>2
<1> QED BY <1>1, <1>3, <1>4, <1>6, Take, PlaceOf DEF IInv

LEMMA ServiceDeleteKeeps ==
  ASSUME IInv, Typed', NEW u \in Service, ServiceDelete(u)
  PROVE  OneHolder' /\ Tokens!Next
<1> DEFINE s == service[u].slot
<1>1. /\ s \in Slot /\ Delete(s)
      /\ UNCHANGED <<polled, ccsdsQueue, pusQueue, distributor, requestQueue>>
  BY DEF ServiceDelete, IInv, Typed, HasSlot, poller
<1>2. service'[u].slot = NoSlot /\ \A v \in Service \ {u} : service'[v] = service[v]
  BY DEF ServiceDelete, Idle, At, IInv, Typed, TypeOK
<1>3. HeldBy(s, <<"service", u>>)
  BY HeldNow
<1>4. /\ polled # s /\ ~In(s, ccsdsQueue) /\ ~In(s, pusQueue)
      /\ distributor.slot # s \/ distributor.step = "accepted"
      /\ \A v \in Service : /\ v # u => service[v].slot # s
                            /\ ~In(s, requestQueue[v])
  BY <1>1, <1>3, Elsewhere, PlaceOf, Distinct DEF IInv
<1>5. \A r \in Slot : r # s => service[u].slot # r
  OBVIOUS
<1> HIDE DEF s
<1>6. QueuesApart'
  BY <1>1, Apart DEF IInv, QueuesApart
<1>7. tcStore'[s] = Free /\ \A r \in Slot \ {s} : tcStore'[r] = tcStore[r]
  BY <1>1 DEF Delete, IInv, Typed, TypeOK
<1>8. ASSUME NEW r \in Slot, NEW q \in Place
      PROVE  HeldBy(r, q)' <=> HeldBy(r, q) /\ r # s
  <2>1. CASE r = s
    BY <1>1, <1>2, <1>4, <2>1, NoSlotIsNone DEF HeldBy
  <2>2. CASE r # s
    BY <1>1, <1>2, <1>5, <2>2, NoSlotIsNone DEF HeldBy
  <2> QED BY <2>1, <2>2
<1> QED BY <1>1, <1>3, <1>6, <1>7, <1>8, Release, PlaceOf DEF IInv

\* A service that handles a packet keeps it
LEMMA ServiceHandleKeeps ==
  ASSUME IInv, NEW u \in Service, NEW kind, ServiceHandle(u, kind)
  PROVE  OneHolder' /\ UNCHANGED Tokens!vars
<1>1. UNCHANGED <<tcStore, polled, ccsdsQueue, pusQueue, distributor, requestQueue>>
  BY DEF ServiceHandle, poller
<1>2. \A v \in Service : service'[v].slot = service[v].slot
  BY DEF ServiceHandle, IInv, Typed, TypeOK
<1>3. QueuesApart'
  BY <1>1, Apart DEF IInv, QueuesApart
<1>4. \A r \in Slot, q \in Place : HeldBy(r, q)' <=> HeldBy(r, q)
  BY <1>1, <1>2 DEF HeldBy
<1> QED BY <1>1, <1>3, <1>4, Stay DEF IInv

-----------------------------------------------------------------------------
(***************************************************************************)
(* Steps that leave the addresses where they are.                          *)
(***************************************************************************)
LEMMA QuietKeeps ==
  ASSUME IInv, UNCHANGED <<tcStore, polled, ccsdsQueue, pusQueue, requestQueue, service>>,
         \/ PusAccepted
         \/ PusRejected
         \/ UNCHANGED distributor
  PROVE  OneHolder' /\ UNCHANGED Tokens!vars
<1>1. QueuesApart'
  BY Apart DEF IInv, QueuesApart
<1>2. \A r \in Slot : (distributor'.slot = r /\ distributor'.step # "accepted")
                        <=> (distributor.slot = r /\ distributor.step # "accepted")
  BY NoSlotIsNone DEF PusAccepted, PusRejected, At
<1>3. \A r \in Slot, q \in Place : HeldBy(r, q)' <=> HeldBy(r, q)
  BY <1>2 DEF HeldBy
<1> QED BY <1>1, <1>3, Stay DEF IInv

-----------------------------------------------------------------------------
LEMMA InitIInv == Init => IInv
<1> SUFFICES ASSUME Init PROVE IInv
  OBVIOUS
<1>1. \A s \in Slot, p \in Place : ~HeldBy(s, p)
  BY NoSlotIsNone DEF Init, HeldBy, In, At, Idle
<1>2. OneHolder
  BY <1>1 DEF Init, OneHolder, NoDuplicates
<1> QED BY <1>2, InitTyped DEF IInv, Init, Waiting, Idle, At

\* Every step is one of TokenStore on the slot of a holder, or leaves all
\* packets and their holders alone
LEMMA Steps ==
  ASSUME IInv, [Next]_vars
  PROVE  OneHolder' /\ [Tokens!Next]_(Tokens!vars)
<1>1. Typed'
  BY StepTyped
<1>2. CASE DistributorStep
  <2>1. CASE PusAccepted \/ PusRejected
    BY <2>1, QuietKeeps DEF PusAccepted, PusRejected, poller, services
  <2> QED BY <1>1, <1>2, <2>1, CcsdsReceiveKeeps, CcsdsForwardKeeps, PusReceiveKeeps,
             PusSelectKeeps, PusDeleteKeeps DEF DistributorStep
<1>3. ASSUME NEW v \in Service, ServiceStep(v)
      PROVE  OneHolder' /\ [Tokens!Next]_(Tokens!vars)
  BY <1>1, <1>3, ServiceReceiveKeeps, ServiceHandleKeeps, ServiceDeleteKeeps DEF ServiceStep
<1>4. CASE TakeReport
  BY <1>4, QuietKeeps DEF TakeReport, poller, services
<1>5. CASE UNCHANGED vars
  BY <1>5, QuietKeeps DEF vars, poller, services
<1> QED BY <1>1, <1>2, <1>3, <1>4, <1>5, StoreKeeps, SendKeeps DEF Next

LEMMA StepWaiting ==
  ASSUME IInv, [Next]_vars
  PROVE  Waiting'
<1> USE DEF Waiting
<1>1. CASE DistributorStep
  <2>1. UNCHANGED service
    BY <1>1 DEF DistributorStep, CcsdsReceive, CcsdsForward, PusReceive, PusSelect, PusAccepted,
       PusRejected, PusDelete, services
  <2>2. distributor'.step \in Pauses => distributor'.slot = NoSlot
    BY <1>1 DEF DistributorStep, CcsdsReceive, CcsdsForward, PusReceive, PusSelect, PusAccepted,
       PusRejected, PusDelete, At, Pauses
  <2> QED BY <2>1, <2>2 DEF IInv
<1>2. ASSUME NEW v \in Service, ServiceStep(v) PROVE Waiting'
  <2>1. UNCHANGED distributor
    BY <1>2 DEF ServiceStep, ServiceReceive, ServiceHandle, ServiceDelete
  <2>2. \A u \in Service : service'[u] = service[u] \/ service'[u].step # "receive"
                             \/ service'[u] = Idle
    BY <1>2 DEF ServiceStep, ServiceReceive, ServiceHandle, ServiceDelete, At, IInv, Typed, TypeOK
  <2> QED BY <2>1, <2>2 DEF IInv, Idle, At
<1>3. CASE UNCHANGED <<distributor, service>>
  BY <1>3 DEF IInv
<1> QED BY <1>1, <1>2, <1>3 DEF Next, StoreDatagram, SendDatagram, TakeReport, vars, services

LEMMA StepIInv == IInv /\ [Next]_vars => IInv'
  BY Steps, StepTyped, StepWaiting DEF IInv

-----------------------------------------------------------------------------
\* Every variable has its type and no queue is over its depth; what is given
\* up on the way is a telecommand, not an empty slot
THEOREM TypeCorrect == Spec => []TypeOK
<1>1. IInv => TypeOK
  BY DEF IInv, Typed
<1> QED BY <1>1, InitIInv, StepIInv, PTL DEF Spec

\* A packet has one owner from the poller to its deletion
THEOREM SingleHolder == Spec => []OneHolder
<1>1. IInv => OneHolder
  BY DEF IInv
<1> QED BY <1>1, InitIInv, StepIInv, PTL DEF Spec

\* Every task that touches a packet of the TC store is its holder: the path
\* keeps the discipline of the packet stores
THEOREM KeepsTokens == Spec => ImplementsTokenStore
<1>1. Init => Tokens!Init
  <2> SUFFICES ASSUME Init PROVE Tokens!Init
    OBVIOUS
  <2>1. \A s \in Slot : tcStore[s] = Free /\ HolderOf(s) = <<"nobody">>
    BY InitIInv, HolderNow DEF Init, IInv
  <2> QED BY <2>1 DEF Tokens!Init, Init
<1>2. IInv /\ [Next]_vars => IInv' /\ [Tokens!Next]_(Tokens!vars)
  BY StepIInv, Steps
<1> QED BY <1>1, <1>2, InitIInv, PTL DEF Spec, ImplementsTokenStore, Tokens!Spec

-----------------------------------------------------------------------------
(***************************************************************************)
(* One verdict.  A telecommand is awaited, in one slot of the store, or    *)
(* gone; what is reported on it, and whether it counts as dropped, follows *)
(* from that and from whether its slot is about to be deleted.             *)
(***************************************************************************)
Decided(s) == \/ distributor.step = "pusDelete" /\ distributor.slot = s
              \/ \E v \in Service : service[v].step = "delete" /\ service[v].slot = s

Undecided(tc) == verdicts[tc] = << >> /\ tc \notin dropped
OnceDecided(tc) == Len(verdicts[tc]) = 1 /\ tc \notin dropped
Stored(tc) == \E s \in Slot : tcStore[s] = tc

Records ==
  /\ verdicts \in [Telecommand -> Seq(Kind)]
  /\ \A r, s \in Slot : tcStore[r] = tcStore[s] /\ tcStore[r] # Free => r = s
  /\ \A tc \in awaited : Undecided(tc) /\ ~Stored(tc)
  /\ \A s \in Slot : tcStore[s] # Free =>
       IF Decided(s) THEN OnceDecided(tcStore[s]) ELSE Undecided(tcStore[s])
  /\ \A tc \in Telecommand \ awaited : ~Stored(tc) =>
       OnceDecided(tc) \/ (verdicts[tc] = << >> /\ tc \in dropped)

Kinds == "ACCEPTANCE_FAILURE" \in Kind /\ "COMPLETION_SUCCESS" \in Kind
           /\ "COMPLETION_FAILURE" \in Kind
LEMMA KindsAre == Kinds
  BY DEF Kinds, Kind

\* A slot that is about to be deleted is with the PUSDistributor or a service
LEMMA DecidedIsHeld ==
  ASSUME IInv, NEW s \in Slot, Decided(s)
  PROVE  tcStore[s] # Free /\ (HeldBy(s, <<"distributor">>)
                                 \/ \E v \in Service : HeldBy(s, <<"service", v>>))
<1>1. CASE distributor.step = "pusDelete" /\ distributor.slot = s
  BY <1>1, HeldNow, OnlyThere, PlaceOf DEF IInv
<1>2. ASSUME NEW v \in Service, service[v].slot = s PROVE HeldBy(s, <<"service", v>>) /\ tcStore[s] # Free
  BY <1>2, HeldNow, OnlyThere, PlaceOf DEF IInv
<1> QED BY <1>1, <1>2 DEF Decided

\* The parts of the steps: nothing happens to telecommands, one is stored,
\* decided, dropped, or deleted after its verdict
LEMMA NothingDecided ==
  ASSUME Records, UNCHANGED <<tcStore, awaited, verdicts, dropped>>,
         \A s \in Slot : tcStore[s] # Free => (Decided(s)' <=> Decided(s))
  PROVE  Records'
  BY DEF Records, Undecided, OnceDecided, Stored

LEMMA OneStored ==
  ASSUME IInv, Records, NEW s \in Slot, NEW tc \in awaited,
         tcStore[s] = Free, tcStore' = [tcStore EXCEPT ![s] = tc],
         awaited' = awaited \ {tc}, UNCHANGED <<distributor, service, verdicts, dropped>>
  PROVE  Records'
<1>1. /\ tcStore'[s] = tc /\ tc \in Telecommand /\ tc # Free
      /\ \A r \in Slot \ {s} : tcStore'[r] = tcStore[r]
  BY UplinkAssumption DEF IInv, Typed, TypeOK
<1>2. \A r \in Slot : Decided(r)' <=> Decided(r)
  BY DEF Decided
<1>3. ~Decided(s)
  BY DecidedIsHeld
<1>4. \A r \in Slot : tcStore[r] # tc
  BY DEF Records, Stored
<1>5. \A r, q \in Slot : tcStore'[r] = tcStore'[q] /\ tcStore'[r] # Free => r = q
  BY <1>1, <1>4 DEF Records
<1>6. \A c \in Telecommand : Stored(c)' <=> Stored(c) \/ c = tc
  BY <1>1, UplinkAssumption DEF Stored
<1>7. \A r \in Slot : tcStore'[r] # Free =>
        IF Decided(r)' THEN OnceDecided(tcStore'[r]) ELSE Undecided(tcStore'[r])
  BY <1>1, <1>2, <1>3 DEF Records
<1>8. \A c : (Undecided(c)' <=> Undecided(c)) /\ (OnceDecided(c)' <=> OnceDecided(c))
  BY DEF Undecided, OnceDecided
<1>9. awaited \subseteq Telecommand
  BY DEF IInv, Typed, TypeOK
<1>10. \A r \in Slot : tcStore'[r] # Free =>
         IF Decided(r)' THEN OnceDecided(tcStore[r])' ELSE Undecided(tcStore[r])'
  BY <1>7 DEF OnceDecided, Undecided
<1>11. \A c \in awaited' : Undecided(c)' /\ ~Stored(c)'
  <2> TAKE c \in awaited'
  <2>1. c \in awaited /\ c # tc /\ c \in Telecommand
    BY <1>9
  <2> QED BY <1>6, <1>8, <2>1 DEF Records
<1>12. \A c \in Telecommand \ awaited' : ~Stored(c)' =>
         OnceDecided(c)' \/ (verdicts'[c] = << >> /\ c \in dropped')
  <2> TAKE c \in Telecommand \ awaited'
  <2> HAVE ~Stored(c)'
  <2>1. c # tc /\ c \notin awaited /\ ~Stored(c)
    BY <1>6
  <2> QED BY <1>8, <2>1 DEF Records
<1> QED BY <1>5, <1>10, <1>11, <1>12 DEF Records

LEMMA OneDecided ==
  ASSUME IInv, Records, NEW s \in Slot, NEW kind \in Kind, tcStore[s] # Free, ~Decided(s),
         verdicts' = [verdicts EXCEPT ![tcStore[s]] = Append(@, kind)],
         UNCHANGED <<tcStore, awaited, dropped>>,
         \A r \in Slot : Decided(r)' <=> Decided(r) \/ r = s
  PROVE  Records'
<1> DEFINE tc == tcStore[s]
<1>1. tc \in Telecommand /\ verdicts[tc] = << >> /\ tc \notin dropped
  BY DEF IInv, Typed, TypeOK, Records, Undecided
<1>2. /\ verdicts' \in [Telecommand -> Seq(Kind)] /\ Len(verdicts'[tc]) = 1
      /\ \A c \in Telecommand \ {tc} : verdicts'[c] = verdicts[c]
  <2>1. Append(verdicts[tc], kind) \in Seq(Kind) /\ Len(Append(verdicts[tc], kind)) = 1
    BY <1>1
  <2> QED BY <1>1, <2>1 DEF Records
<1>3. tc \notin awaited /\ \A c : Stored(c)' <=> Stored(c)
  BY DEF Records, Stored
<1>4. \A r \in Slot \ {s} : tcStore[r] # Free => tcStore[r] \in Telecommand \ {tc}
  BY DEF Records, IInv, Typed, TypeOK
<1>5. OnceDecided(tc)'
  BY <1>1, <1>2 DEF OnceDecided
<1>6. \A c \in Telecommand \ {tc} : /\ Undecided(c)' <=> Undecided(c)
                                    /\ OnceDecided(c)' <=> OnceDecided(c)
  BY <1>2 DEF Undecided, OnceDecided
<1>7. \A r \in Slot : tcStore'[r] # Free =>
        IF Decided(r)' THEN OnceDecided(tcStore[r])' ELSE Undecided(tcStore[r])'
  <2> TAKE r \in Slot
  <2> HAVE tcStore'[r] # Free
  <2>1. CASE r = s
    BY <2>1, <1>5 DEF OnceDecided
  <2>2. CASE r # s
    BY <2>2, <1>4, <1>6 DEF Records, OnceDecided, Undecided
  <2> QED BY <2>1, <2>2
<1>8. \A c \in awaited' : Undecided(c)' /\ ~Stored(c)'
  <2> TAKE c \in awaited'
  <2>1. c \in awaited /\ c \in Telecommand \ {tc}
    BY <1>3 DEF IInv, Typed, TypeOK
  <2>2. Undecided(c) /\ ~Stored(c)
    BY <2>1 DEF Records
  <2> HIDE DEF tc
  <2> QED BY <1>3, <1>6, <2>1, <2>2
<1>9. \A c \in Telecommand \ awaited' : ~Stored(c)' =>
        OnceDecided(c)' \/ (verdicts'[c] = << >> /\ c \in dropped')
  BY <1>2, <1>3, <1>6 DEF Records, Stored
<1> QED BY <1>2, <1>7, <1>8, <1>9 DEF Records

\* One slot is freed: its telecommand has its verdict, or is dropped without
LEMMA OneDeleted ==
  ASSUME IInv, Records, NEW s \in Slot, tcStore[s] # Free, Delete(s),
         UNCHANGED <<awaited, verdicts>>,
         \/ Decided(s) /\ dropped' = dropped
         \/ ~Decided(s) /\ dropped' = dropped \cup {tcStore[s]},
         \A r \in Slot \ {s} : Decided(r)' <=> Decided(r)
  PROVE  Records'
<1> DEFINE tc == tcStore[s]
<1>1. /\ tc \in Telecommand /\ tc \notin awaited
      /\ IF Decided(s) THEN OnceDecided(tc) ELSE Undecided(tc)
  BY DEF IInv, Typed, TypeOK, Records, Stored
<1>2. tcStore'[s] = Free /\ \A r \in Slot \ {s} : tcStore'[r] = tcStore[r]
  BY DEF Delete, IInv, Typed, TypeOK
<1>3. \A r \in Slot \ {s} : tcStore[r] # Free => tcStore[r] \in Telecommand \ {tc}
  BY DEF Records, IInv, Typed, TypeOK
<1>4. \A c \in Telecommand : Stored(c)' <=> Stored(c) /\ c # tc
  BY <1>2, <1>3, UplinkAssumption DEF Stored
<1>5. \A c \in Telecommand \ {tc} : /\ Undecided(c)' <=> Undecided(c)
                                    /\ OnceDecided(c)' <=> OnceDecided(c)
                                    /\ c \in dropped' <=> c \in dropped
  <2> TAKE c \in Telecommand \ {tc}
  <2>1. c \in dropped' <=> c \in dropped
    OBVIOUS
  <2> QED BY <2>1 DEF Undecided, OnceDecided
<1>6. \/ Len(verdicts'[tc]) = 1 /\ tc \notin dropped'
      \/ verdicts'[tc] = << >> /\ tc \in dropped'
  BY <1>1 DEF Undecided, OnceDecided
<1>7. \A r \in Slot : tcStore'[r] # Free =>
        IF Decided(r)' THEN OnceDecided(tcStore[r])' ELSE Undecided(tcStore[r])'
  <2> TAKE r \in Slot
  <2> HAVE tcStore'[r] # Free
  <2> DEFINE c == tcStore[r]
  <2>1. r # s /\ tcStore'[r] = c /\ c \in Telecommand \ {tc}
    BY <1>2, <1>3
  <2>2. IF Decided(r) THEN OnceDecided(c) ELSE Undecided(c)
    BY <2>1 DEF Records
  <2>3. verdicts'[c] = verdicts[c] /\ (c \in dropped' <=> c \in dropped)
    BY <1>5, <2>1
  <2>4. Decided(r)' <=> Decided(r)
    BY <2>1
  <2> HIDE DEF tc, c
  <2>5. OnceDecided(tcStore[r])' <=> OnceDecided(c)
    BY <2>1, <2>3 DEF OnceDecided
  <2>6. Undecided(tcStore[r])' <=> Undecided(c)
    BY <2>1, <2>3 DEF Undecided
  <2> QED BY <2>2, <2>4, <2>5, <2>6
<1>8. \A c \in awaited' : Undecided(c)' /\ ~Stored(c)'
  <2> TAKE c \in awaited'
  <2>1. c \in awaited /\ c \in Telecommand \ {tc}
    BY <1>1 DEF IInv, Typed, TypeOK
  <2>2. Undecided(c) /\ ~Stored(c)
    BY <2>1 DEF Records
  <2> HIDE DEF tc
  <2> QED BY <1>4, <1>5, <2>1, <2>2
<1>9. \A c \in Telecommand \ awaited' : ~Stored(c)' =>
        OnceDecided(c)' \/ (verdicts'[c] = << >> /\ c \in dropped')
  <2> TAKE c \in Telecommand \ awaited'
  <2> HAVE ~Stored(c)'
  <2>1. CASE c = tc
    BY <1>6, <2>1 DEF OnceDecided
  <2>2. CASE c # tc
    <3>1. c \in Telecommand \ awaited /\ ~Stored(c)
      BY <1>4, <2>2
    <3>2. OnceDecided(c) \/ (verdicts[c] = << >> /\ c \in dropped)
      BY <3>1 DEF Records
    <3> QED BY <1>5, <2>2, <3>2
  <2> QED BY <2>1, <2>2
<1>10. \A r, q \in Slot : tcStore'[r] = tcStore'[q] /\ tcStore'[r] # Free => r = q
  BY <1>2 DEF Records
<1> QED BY <1>7, <1>8, <1>9, <1>10 DEF Records

-----------------------------------------------------------------------------
(***************************************************************************)
(* The steps, as far as they concern the telecommands.                     *)
(***************************************************************************)
\* A slot that somebody else holds is not about to be deleted
LEMMA NotDecided ==
  ASSUME IInv, NEW s \in Slot, NEW p \in Place, HeldBy(s, p),
         \A v \in Service : p # <<"service", v>>,
         distributor.step # "pusDelete"
  PROVE  ~Decided(s)
<1>1. \A v \in Service : service[v].slot # s
  BY Elsewhere DEF IInv
<1> QED BY <1>1 DEF Decided

LEMMA PollerRecords ==
  ASSUME IInv, Records, NEW tc \in Telecommand, StoreDatagram(tc)
  PROVE  Records'
<1>1. tc \in awaited /\ awaited' = awaited \ {tc} /\ UNCHANGED <<distributor, service, verdicts>>
  BY DEF StoreDatagram, services, reporting
<1>2. CASE \E s \in Slot : tcStore[s] = Free
  <2>1. PICK s \in Slot : tcStore[s] = Free /\ tcStore' = [tcStore EXCEPT ![s] = tc]
    BY <1>2 DEF StoreDatagram
  <2>2. UNCHANGED dropped
    BY <1>2 DEF StoreDatagram
  <2> QED BY <1>1, <2>1, <2>2, OneStored
<1>3. CASE ~ \E s \in Slot : tcStore[s] = Free
  <2>1. dropped' = dropped \cup {tc} /\ UNCHANGED tcStore
    BY <1>3 DEF StoreDatagram
  <2>2. Undecided(tc) /\ ~Stored(tc)
    BY <1>1 DEF Records
  <2>3. \A s \in Slot : Decided(s)' <=> Decided(s)
    BY <1>1 DEF Decided
  <2>4. \A c \in Telecommand \ {tc} : /\ Undecided(c)' <=> Undecided(c)
                                      /\ OnceDecided(c)' <=> OnceDecided(c)
                                      /\ c \in dropped' <=> c \in dropped
    BY <1>1, <2>1 DEF Undecided, OnceDecided
  <2>5. \A c : Stored(c)' <=> Stored(c)
    BY <2>1 DEF Stored
  <2>6. \A s \in Slot : tcStore'[s] # Free =>
          IF Decided(s)' THEN OnceDecided(tcStore[s])' ELSE Undecided(tcStore[s])'
    <3> TAKE s \in Slot
    <3> HAVE tcStore'[s] # Free
    <3>1. tcStore[s] # tc /\ (IF Decided(s) THEN OnceDecided(tcStore[s]) ELSE Undecided(tcStore[s]))
      BY <2>1, <2>2 DEF Records, Stored
    <3> QED BY <1>1, <2>1, <2>3, <3>1 DEF OnceDecided, Undecided
  <2>7. \A c \in awaited' : Undecided(c)' /\ ~Stored(c)'
    BY <1>1, <2>4, <2>5 DEF Records, IInv, Typed, TypeOK
  <2>8. \A c \in Telecommand \ awaited' : ~Stored(c)' =>
          OnceDecided(c)' \/ (verdicts'[c] = << >> /\ c \in dropped')
    <3> TAKE c \in Telecommand \ awaited'
    <3> HAVE ~Stored(c)'
    <3>1. CASE c = tc
      BY <1>1, <2>1, <2>2, <3>1 DEF Undecided
    <3>2. CASE c # tc
      BY <1>1, <2>4, <2>5, <3>2 DEF Records
    <3> QED BY <3>1, <3>2
  <2> QED BY <1>1, <2>1, <2>6, <2>7, <2>8 DEF Records
<1> QED BY <1>2, <1>3

\* What a full queue refuses is dropped
LEMMA DropRecords ==
  ASSUME IInv, Records, SendDatagram \/ CcsdsForward
  PROVE  Records'
<1>1. UNCHANGED <<awaited, verdicts, service>>
  BY DEF SendDatagram, CcsdsForward, poller, services, reporting
<1>2. CASE SendDatagram
  <2> DEFINE s == polled
  <2>1. s \in Slot /\ HeldBy(s, <<"poller">>) /\ UNCHANGED distributor
    BY <1>2, HeldNow DEF SendDatagram, IInv, Typed, TypeOK, SlotOrNone
  <2>2. tcStore[s] # Free /\ ~Decided(s)
    <3>1. tcStore[s] # Free
      BY <2>1, OnlyThere, PlaceOf DEF IInv
    <3>2. distributor.slot # s \/ distributor.step = "accepted"
      BY <2>1, Elsewhere, PlaceOf, Distinct DEF IInv
    <3>3. \A v \in Service : service[v].slot # s
      BY <2>1, Elsewhere, PlaceOf, Distinct DEF IInv
    <3> QED BY <3>1, <3>2, <3>3 DEF Decided
  <2>3. \A r \in Slot : Decided(r)' <=> Decided(r)
    BY <1>1, <2>1 DEF Decided
  <2>4. \/ UNCHANGED <<tcStore, dropped>>
        \/ Delete(s) /\ dropped' = dropped \cup {tcStore[s]}
    BY <1>2 DEF SendDatagram
  <2> HIDE DEF s
  <2> QED BY <1>1, <2>1, <2>2, <2>3, <2>4, NothingDecided, OneDeleted
<1>3. CASE CcsdsForward
  <2> DEFINE s == distributor.slot
  <2>1. /\ s \in Slot /\ HeldBy(s, <<"distributor">>)
        /\ distributor.step = "ccsdsForward" /\ distributor'.step = "ccsds"
    BY <1>3, DistributorHolds DEF CcsdsForward, Pauses, At
  <2>2. tcStore[s] # Free /\ ~Decided(s)
    <3>1. tcStore[s] # Free
      BY <2>1, OnlyThere, PlaceOf DEF IInv
    <3>2. ~Decided(s)
      BY <2>1, NotDecided, PlaceOf, Distinct
    <3> QED BY <3>1, <3>2
  <2>3. \A r \in Slot : Decided(r)' <=> Decided(r)
    BY <1>1, <2>1 DEF Decided
  <2>4. \/ UNCHANGED <<tcStore, dropped>>
        \/ Delete(s) /\ dropped' = dropped \cup {tcStore[s]}
    BY <1>3 DEF CcsdsForward
  <2> HIDE DEF s
  <2> QED BY <1>1, <2>1, <2>2, <2>3, <2>4, NothingDecided, OneDeleted
<1> QED BY <1>2, <1>3

\* Receiving, selecting and reporting success decide nothing
LEMMA QuietRecords ==
  ASSUME IInv, Records,
         \/ CcsdsReceive \/ PusReceive \/ PusSelect \/ PusAccepted \/ TakeReport
         \/ \E v \in Service : ServiceReceive(v)
         \/ UNCHANGED vars
  PROVE  Records'
<1>1. UNCHANGED <<tcStore, awaited, verdicts, dropped>>
  BY DEF CcsdsReceive, PusReceive, PusSelect, PusAccepted, Report, TakeReport, ServiceReceive,
     vars, poller, reporting
<1>2. \/ UNCHANGED distributor
      \/ distributor.step # "pusDelete" /\ distributor'.step # "pusDelete"
  BY DEF CcsdsReceive, PusReceive, PusSelect, PusAccepted, TakeReport, ServiceReceive, vars, At
<1>3. \A v \in Service :
        \/ service'[v] = service[v]
        \/ service[v].step # "delete" /\ service'[v].step # "delete"
  BY DEF CcsdsReceive, PusReceive, PusSelect, PusAccepted, TakeReport, ServiceReceive,
     vars, services, At, IInv, Typed, TypeOK
<1>4. \A s \in Slot : Decided(s)' <=> Decided(s)
  BY <1>2, <1>3 DEF Decided
<1> QED BY <1>1, <1>4, NothingDecided

\* A verdict is given on what the distributor rejects, or a service handles
LEMMA RejectedRecords ==
  ASSUME IInv, Records, PusRejected
  PROVE  Records'
<1> DEFINE s == distributor.slot
<1>1. /\ s \in Slot /\ HeldBy(s, <<"distributor">>) /\ distributor.step = "rejected"
      /\ distributor'.step = "pusDelete" /\ distributor'.slot = s
      /\ UNCHANGED <<tcStore, awaited, dropped, service>>
  BY DistributorHolds DEF PusRejected, Pauses, At, poller, services
<1>2. verdicts' = [verdicts EXCEPT ![tcStore[s]] = Append(@, "ACCEPTANCE_FAILURE")]
  BY DEF PusRejected, Report
<1>3. tcStore[s] # Free /\ ~Decided(s)
  <2>1. tcStore[s] # Free
    BY <1>1, OnlyThere, PlaceOf DEF IInv
  <2>2. ~Decided(s)
    BY <1>1, NotDecided, PlaceOf, Distinct
  <2> QED BY <2>1, <2>2
<1>4. \A r \in Slot : Decided(r)' <=> Decided(r) \/ r = s
  BY <1>1 DEF Decided
<1> HIDE DEF s
<1> QED BY <1>1, <1>2, <1>3, <1>4, OneDecided, KindsAre DEF Kinds

LEMMA HandledRecords ==
  ASSUME IInv, Records, NEW u \in Service,
         NEW kind \in {"COMPLETION_SUCCESS", "COMPLETION_FAILURE"}, ServiceHandle(u, kind)
  PROVE  Records'
<1> DEFINE s == service[u].slot
<1>1. /\ s \in Slot /\ HeldBy(s, <<"service", u>>) /\ service[u].step = "handle"
      /\ UNCHANGED <<tcStore, awaited, dropped, distributor>>
  BY HeldNow DEF ServiceHandle, IInv, Typed, HasSlot, poller
<1>2. verdicts' = [verdicts EXCEPT ![tcStore[s]] = Append(@, kind)]
  BY DEF ServiceHandle, Report
<1>3. /\ service'[u].step = "delete" /\ service'[u].slot = s
      /\ \A v \in Service \ {u} : service'[v] = service[v]
  BY DEF ServiceHandle, IInv, Typed, TypeOK
<1>4. tcStore[s] # Free /\ ~Decided(s)
  <2>1. tcStore[s] # Free
    BY <1>1, OnlyThere, PlaceOf DEF IInv
  <2>2. /\ distributor.slot # s \/ distributor.step = "accepted"
        /\ \A v \in Service : v # u => service[v].slot # s
    BY <1>1, Elsewhere, PlaceOf, Distinct DEF IInv
  <2> QED BY <1>1, <2>1, <2>2 DEF Decided
<1>5. \A r \in Slot : Decided(r)' <=> Decided(r) \/ r = s
  BY <1>1, <1>3 DEF Decided
<1>6. kind \in Kind
  BY DEF Kind
<1> HIDE DEF s
<1> QED BY <1>1, <1>2, <1>4, <1>5, <1>6, OneDecided

\* What has its verdict is deleted
LEMMA DeleteRecords ==
  ASSUME IInv, Records, PusDelete \/ \E u \in Service : ServiceDelete(u)
  PROVE  Records'
<1>1. CASE PusDelete
  <2> DEFINE s == distributor.slot
  <2>1. /\ s \in Slot /\ HeldBy(s, <<"distributor">>) /\ Decided(s) /\ Delete(s)
        /\ distributor'.step = "pus" /\ UNCHANGED <<awaited, verdicts, dropped, service>>
    BY <1>1, DistributorHolds DEF PusDelete, Pauses, At, poller, services, reporting, Decided
  <2>2. tcStore[s] # Free
    BY <2>1, OnlyThere, PlaceOf DEF IInv
  <2>3. \A r \in Slot \ {s} : Decided(r)' <=> Decided(r)
    BY <2>1 DEF Decided
  <2> HIDE DEF s
  <2> QED BY <2>1, <2>2, <2>3, OneDeleted
<1>2. ASSUME NEW u \in Service, ServiceDelete(u) PROVE Records'
  <2> DEFINE s == service[u].slot
  <2>1. /\ s \in Slot /\ HeldBy(s, <<"service", u>>) /\ Decided(s) /\ Delete(s)
        /\ UNCHANGED <<awaited, verdicts, dropped, distributor>>
    BY <1>2, HeldNow DEF ServiceDelete, IInv, Typed, HasSlot, poller, reporting, Decided
  <2>2. service'[u].step = "receive" /\ \A v \in Service \ {u} : service'[v] = service[v]
    BY <1>2 DEF ServiceDelete, Idle, At, IInv, Typed, TypeOK
  <2>3. tcStore[s] # Free
    BY <2>1, OnlyThere, PlaceOf DEF IInv
  <2>4. \A r \in Slot \ {s} : Decided(r)' <=> Decided(r)
    BY <2>1, <2>2 DEF Decided
  <2> HIDE DEF s
  <2> QED BY <2>1, <2>3, <2>4, OneDeleted
<1> QED BY <1>1, <1>2

LEMMA InitRecords == Init => Records
<1> SUFFICES ASSUME Init PROVE Records
  OBVIOUS
<1>1. << >> \in Seq(Kind)
  OBVIOUS
<1> QED BY <1>1, UplinkAssumption DEF Init, Records, Undecided, Stored

LEMMA StepRecords == IInv /\ Records /\ [Next]_vars => Records'
  BY PollerRecords, DropRecords, QuietRecords, RejectedRecords, HandledRecords, DeleteRecords
  DEF Next, DistributorStep, ServiceStep

\* A telecommand is decided once: it fails the acceptance or is handled by its
\* service, never both and never twice, and what has left the store was
\* decided or dropped
THEOREM DecidedOnce == Spec => []OneVerdict
<1>1. IInv /\ Records => OneVerdict
  <2> SUFFICES ASSUME IInv, Records, NEW tc \in Telecommand
               PROVE  /\ Len(verdicts[tc]) <= 1
                      /\ verdicts[tc] # << >> => tc \notin dropped
                      /\ tc \notin awaited /\ (\A s \in Slot : tcStore[s] # tc)
                           => verdicts[tc] # << >> \/ tc \in dropped
    BY DEF OneVerdict
  <2>1. Undecided(tc) \/ OnceDecided(tc) \/ (verdicts[tc] = << >> /\ tc \in dropped)
    BY UplinkAssumption DEF Records, Stored
  <2>2. tc \notin awaited /\ (\A s \in Slot : tcStore[s] # tc)
          => OnceDecided(tc) \/ (verdicts[tc] = << >> /\ tc \in dropped)
    BY DEF Records, Stored
  <2>3. verdicts[tc] = << >> => Len(verdicts[tc]) = 0
    OBVIOUS
  <2>4. Len(verdicts[tc]) = 1 \/ Len(verdicts[tc]) = 0
    BY <2>1, <2>3 DEF Undecided, OnceDecided
  <2>5. OnceDecided(tc) => verdicts[tc] # << >> /\ tc \notin dropped
    BY <2>3 DEF OnceDecided
  <2>6. verdicts[tc] # << >> => tc \notin dropped
    BY <2>1, <2>5 DEF Undecided
  <2>7. Len(verdicts[tc]) <= 1
    <3>1. 1 <= 1 /\ 0 <= 1
      OBVIOUS
    <3>2. CASE Len(verdicts[tc]) = 1
      BY <3>1, <3>2, Zenon
    <3>3. CASE Len(verdicts[tc]) = 0
      BY <3>1, <3>3, Zenon
    <3> QED BY <2>4, <3>2, <3>3
  <2> QED BY <2>2, <2>5, <2>6, <2>7
<1>2. Records /\ [Next]_vars /\ IInv => Records'
  BY StepRecords
<1>3. IInv /\ [Next]_vars => IInv'
  BY StepIInv
<1> QED BY <1>1, <1>2, <1>3, InitIInv, InitRecords, PTL DEF Spec

-----------------------------------------------------------------------------
(***************************************************************************)
(* A sender that keeps to its window is never out of step with FARM-1, for *)
(* every modulus, window, depth of the link and sequence of frames, and    *)
(* whatever is lost, repeated, refused or sent by others: InStep is an     *)
(* invariant.  Packets do not matter here, frames do.                      *)
(***************************************************************************)


(***************************************************************************)
(* Arithmetic of the frame numbers.                                        *)
(***************************************************************************)
LEMMA ModulusPositive == Modulus \in Nat /\ Modulus > 0
  BY ChannelAssumption

LEMMA ModRange ==
  ASSUME NEW x \in Int
  PROVE  x % Modulus \in 0 .. Modulus - 1
  BY ModulusPositive

LEMMA Division ==
  ASSUME NEW x \in Int
  PROVE  \E q \in Int : x % Modulus = x - Modulus * q
<1>1. x \div Modulus \in Int /\ x % Modulus = x - Modulus * (x \div Modulus)
  BY ModulusPositive, Z3T(30)
<1> QED BY <1>1

\* Quotient and remainder determine a number, and it the remainder
LEMMA Quotient ==
  ASSUME NEW k \in Int, NEW l \in Int, NEW r \in 0 .. Modulus - 1, NEW s \in 0 .. Modulus - 1,
         Modulus * k + r = Modulus * l + s
  PROVE  r = s
  BY ModulusPositive, SMTT(30)

\* Multiples of Modulus
LEMMA Times ==
  ASSUME NEW k \in Int, NEW l \in Int
  PROVE  /\ Modulus * k \in Int
         /\ Modulus * k + Modulus * l = Modulus * (k + l)
         /\ Modulus * k - Modulus * l = Modulus * (k - l)
         /\ Modulus * (-k) = -(Modulus * k)
  BY ModulusPositive, SMTT(30)

LEMMA ModOf ==
  ASSUME NEW x \in Int, NEW k \in Int, NEW r \in 0 .. Modulus - 1, x = Modulus * k + r
  PROVE  x % Modulus = r
<1> DEFINE s == x % Modulus
<1>1. s \in 0 .. Modulus - 1
  BY ModRange
<1>2. PICK q \in Int : s = x - Modulus * q
  BY Division
<1> HIDE DEF s
<1>4. Modulus * q + s = Modulus * k + r
  BY <1>1, <1>2, Times, ModulusPositive
<1>3. s = r
  BY <1>1, <1>4, Quotient
<1> QED BY <1>3 DEF s

\* Going round the circle leads back
LEMMA ModShift ==
  ASSUME NEW x \in Int, NEW k \in Int
  PROVE  (x + Modulus * k) % Modulus = x % Modulus
<1> DEFINE s == x % Modulus
           y == x + Modulus * k
<1>1. s \in 0 .. Modulus - 1
  BY ModRange
<1>2. PICK q \in Int : s = x - Modulus * q
  BY Division
<1>3. y = Modulus * (q + k) + s /\ y \in Int
  <2> HIDE DEF s
  <2> QED BY <1>1, <1>2, Times, ModulusPositive
<1> HIDE DEF s, y
<1>4. y % Modulus = s
  BY <1>1, <1>3, ModOf
<1> QED BY <1>4 DEF s, y

\* Numbers less than a round apart differ if they are not equal
LEMMA ModUnique ==
  ASSUME NEW x \in Int, NEW y \in Int, x % Modulus = y % Modulus, x - y < Modulus, y - x < Modulus
  PROVE  x = y
<1> DEFINE s == x % Modulus
<1>1. s \in 0 .. Modulus - 1
  BY ModRange
<1>2. PICK k \in Int : s = x - Modulus * k
  BY Division
<1>3. PICK l \in Int : s = y - Modulus * l
  BY Division
<1> HIDE DEF s
<1>4. x - y = Modulus * (k - l)
  BY <1>1, <1>2, <1>3, Times, ModulusPositive
<1>5. ASSUME NEW d \in Int, d >= 1 PROVE Modulus * d >= Modulus
  BY <1>5, ModulusPositive, SMTT(30)
<1>6. ~(k - l >= 1)
  BY <1>4, <1>5, ModulusPositive
<1>7. ~(l - k >= 1)
  <2>1. y - x = Modulus * (l - k)
    BY <1>1, <1>2, <1>3, Times, ModulusPositive
  <2> QED BY <2>1, <1>5, ModulusPositive
<1>8. k - l = 0
  BY <1>6, <1>7
<1> QED BY <1>4, <1>8, ModulusPositive

\* Sums and differences may be taken of remainders
LEMMA ModOfSum ==
  ASSUME NEW x \in Int, NEW y \in Int, NEW s \in Int, s = x % Modulus
  PROVE  /\ (s + y) % Modulus = (x + y) % Modulus
         /\ (s - y) % Modulus = (x - y) % Modulus
         /\ (y - s) % Modulus = (y - x) % Modulus
<1>1. PICK k \in Int : s = x - Modulus * k
  BY Division
<1>2. /\ s + y = (x + y) + Modulus * (-k)
      /\ s - y = (x - y) + Modulus * (-k)
      /\ y - s = (y - x) + Modulus * k
  BY <1>1, Times, ModulusPositive
<1>3. /\ ((x + y) + Modulus * (-k)) % Modulus = (x + y) % Modulus
      /\ ((x - y) + Modulus * (-k)) % Modulus = (x - y) % Modulus
      /\ ((y - x) + Modulus * k) % Modulus = (y - x) % Modulus
  BY ModShift
<1> QED BY <1>2, <1>3

\* The window is less than half of the numbers
LEMMA Windows ==
  /\ positiveWindow \in Nat /\ negativeWindow = positiveWindow /\ 1 <= positiveWindow
  /\ Modulus \div 2 \in Nat /\ Modulus = 2 * (Modulus \div 2)
  /\ positiveWindow < Modulus \div 2
<1>1. ASSUME NEW n \in Nat, n % 2 = 0 PROVE n \div 2 \in Nat /\ n = 2 * (n \div 2)
  <2>1. n \div 2 \in Int /\ n % 2 = n - 2 * (n \div 2)
    BY Z3T(30)
  <2> DEFINE q == n \div 2
  <2> HIDE DEF q
  <2>2. q \in Int /\ 0 = n - 2 * q
    BY <1>1, <2>1 DEF q
  <2>3. q \in Nat /\ n = 2 * q
    BY <2>2
  <2> QED BY <2>3 DEF q
<1>2. SlidingWindowWidth \in Nat /\ SlidingWindowWidth % 2 = 0 /\ Modulus \in Nat /\ Modulus % 2 = 0
  BY ChannelAssumption
<1>3. /\ positiveWindow \in Nat /\ SlidingWindowWidth = 2 * positiveWindow
      /\ negativeWindow = positiveWindow
  BY <1>1, <1>2 DEF positiveWindow, negativeWindow
<1>4. Modulus \div 2 \in Nat /\ Modulus = 2 * (Modulus \div 2)
  BY <1>1, <1>2
<1>5. SlidingWindowWidth >= 2 /\ SlidingWindowWidth <= Modulus - 2
  BY ChannelAssumption
<1> DEFINE half == Modulus \div 2
<1> HIDE DEF half
<1>6. half \in Nat /\ Modulus = 2 * half
  BY <1>4 DEF half
<1>7. 1 <= positiveWindow /\ positiveWindow < half
  BY <1>3, <1>5, <1>6
<1> QED BY <1>3, <1>4, <1>7 DEF half

\* The difference of two frame numbers that are a window apart at most is
\* their distance, across the wrap as well
LEMMA DiffIsDistance ==
  ASSUME NEW x \in Int, NEW y \in Int, farm.vR = x % Modulus, NEW n, n = y % Modulus,
         y - x < positiveWindow, -positiveWindow <= y - x
  PROVE  Diff(n) = y - x
<1> DEFINE e == y - x
           half == Modulus \div 2
           d == (n - farm.vR) % Modulus
<1>1. half \in Nat /\ Modulus = 2 * half /\ positiveWindow < half /\ positiveWindow \in Nat
  BY Windows
<1>2. n \in Int /\ farm.vR \in Int
  BY ModRange, ModulusPositive
<1>3. d = e % Modulus
  <2>1. (n - farm.vR) % Modulus = (n - x) % Modulus
    BY <1>2, ModOfSum
  <2>2. (n - x) % Modulus = (y - x) % Modulus
    BY <1>2, ModOfSum
  <2> QED BY <2>1, <2>2
<1>4. Diff(n) = IF d < half THEN d ELSE d - Modulus
  BY DEF Diff
<1>5. e \in Int /\ e < positiveWindow /\ -positiveWindow <= e
  BY <1>1
<1> HIDE DEF d, e, half
<1>6. CASE e >= 0
  <2>1. e \in 0 .. Modulus - 1 /\ e < half
    BY <1>1, <1>5, <1>6
  <2>2. d = e
    BY <1>3, <2>1, ModulusPositive
  <2> QED BY <1>4, <2>1, <2>2 DEF e
<1>7. CASE e < 0
  <2> DEFINE f == e + Modulus * 1
  <2>1. f \in 0 .. Modulus - 1 /\ f = e + Modulus /\ ~(f < half)
    BY <1>1, <1>5, <1>7
  <2>2. f % Modulus = e % Modulus
    BY <1>5, ModShift
  <2> HIDE DEF f
  <2>3. d = f
    BY <1>3, <2>1, <2>2, ModulusPositive
  <2>4. Diff(n) = e
    BY <1>4, <1>5, <2>1, <2>3, ModulusPositive
  <2> QED BY <2>4 DEF e
<1> QED BY <1>6, <1>7, <1>5

\* A frame without distance is the one expected
LEMMA NoDifference ==
  ASSUME farm.vR \in Number, NEW n \in Number, Diff(n) = 0
  PROVE  n = farm.vR
<1> DEFINE d == (n - farm.vR) % Modulus
<1>1. n \in Int /\ farm.vR \in Int /\ n - farm.vR \in Int
  BY ModulusPositive DEF Number
<1>2. d \in 0 .. Modulus - 1
  BY <1>1, ModRange
<1>3. Diff(n) = IF d < Modulus \div 2 THEN d ELSE d - Modulus
  BY DEF Diff
<1>4. d = 0
  <2> HIDE DEF d
  <2> QED BY <1>2, <1>3, ModulusPositive
<1>5. 0 % Modulus = 0
  BY ModulusPositive
<1>6. n - farm.vR < Modulus /\ farm.vR - n < Modulus
  BY ModulusPositive DEF Number
<1>7. n - farm.vR = 0
  BY <1>1, <1>4, <1>5, <1>6, ModUnique
<1> QED BY <1>1, <1>7
-----------------------------------------------------------------------------
(***************************************************************************)
(* The inductive invariant.                                                *)
(***************************************************************************)
Register == [vR : Number, lockout : BOOLEAN, wait : BOOLEAN, retransmit : BOOLEAN]
Farm == [currentState : {"open", "wait", "lockout"}, vR : Number, lockout : BOOLEAN,
         wait : BOOLEAN, retransmit : BOOLEAN]
Frame == [type : {"AD", "BD", "UNLOCK", "SET_V_R"}, n : Number, i : Nat]

ChannelTyped ==
  /\ farm \in Farm /\ clcw \in Register /\ report \in Register
  /\ uplink \in Seq(Frame)
  /\ ground \in [vS : Number, acked : Nat, sent : Nat, syncing : BOOLEAN, blocked : BOOLEAN]
  /\ received \in Nat

\* V(R) after r frames
AtNumber(r) == (ground.vS + r) % Modulus

\* Before the ground has seen its V(R) in a CLCW it sends no AD frame; what it
\* sees there is true of the channel
Syncing ==
  ground.syncing =>
    /\ ground.acked = 0 /\ ground.sent = 0 /\ received = 0
    /\ \A k \in 1 .. Len(uplink) : uplink[k].type # "AD"
    /\ report.vR = ground.vS => clcw.vR = ground.vS
    /\ clcw.vR = ground.vS => farm.vR = ground.vS

\* A command that sets V(R) is ahead of all AD frames
SetsFirst ==
  \A k \in 1 .. Len(uplink) : uplink[k].type = "SET_V_R" =>
    /\ uplink[k].n = ground.vS /\ received = 0
    /\ \A j \in 1 .. k - 1 : uplink[j].type # "AD"

\* Afterwards farm, CLCW and report are at frames that the ground has sent and
\* not given up, each one behind the other
Synced ==
  ~ground.syncing =>
    /\ farm.vR = AtNumber(received)
    /\ received <= ground.sent /\ ground.sent <= ground.acked + positiveWindow
    /\ \E q \in Nat, p \in Nat :
         /\ clcw.vR = AtNumber(q) /\ report.vR = AtNumber(p)
         /\ ground.acked <= p /\ p <= q /\ q <= received

\* A frame on its way is at most a window behind what has been received, and
\* behind each frame ahead of it
Close(frame) ==
  /\ frame.i >= 1 /\ frame.i <= ground.sent
  /\ frame.n = AtNumber(frame.i - 1)
  /\ received <= frame.i - 1 + positiveWindow
InOrder ==
  \A k \in 1 .. Len(uplink) : uplink[k].type = "AD" =>
    /\ Close(uplink[k])
    /\ \A j \in 1 .. k - 1 :
         uplink[j].type = "AD" => uplink[j].i <= uplink[k].i - 1 + positiveWindow

ChannelInv == ChannelTyped /\ Syncing /\ SetsFirst /\ Synced /\ InOrder

-----------------------------------------------------------------------------
(***************************************************************************)
(* Parts of the steps.                                                     *)
(***************************************************************************)
\* vR++ is the next number, across the wrap
LEMMA SuccessorOf ==
  ASSUME NEW x \in Int, NEW v, v = x % Modulus
  PROVE  v \in Number /\ Successor(v) = (x + 1) % Modulus
<1>1. v \in Number /\ v \in Int
  BY ModRange, ModulusPositive DEF Number
<1>2. (v + 1) % Modulus = (x + 1) % Modulus
  <2> DEFINE one == 1
  <2>1. one \in Int
    OBVIOUS
  <2> HIDE DEF one
  <2>2. (v + one) % Modulus = (x + one) % Modulus
    BY <1>1, <2>1, ModOfSum
  <2> QED BY <2>2 DEF one
<1> QED BY <1>1, <1>2 DEF Successor

\* What an AD frame does to the FARM: V(R) counts accepted frames only
LEMMA ADFrame ==
  ASSUME farm \in Farm, NEW n
  PROVE  /\ handleADFrame(n) \in Farm
         /\ handleADFrame(n).vR = IF Accepts(n) THEN Successor(farm.vR) ELSE farm.vR
<1>1. Successor(farm.vR) \in Number
  <2>1. farm.vR + 1 \in Int
    BY ModulusPositive DEF Farm, Number
  <2> QED BY <2>1, ModRange DEF Successor, Number
<1>2. CASE Accepts(n)
  <2>1. InWindow(Diff(n)) /\ ~(Diff(n) > 0) /\ farm.currentState = "open"
    BY <1>2, Windows DEF Accepts, InWindow
  <2> QED BY <1>1, <1>2, <2>1 DEF handleADFrame, Farm
<1>3. CASE ~Accepts(n)
  BY <1>3 DEF handleADFrame, Farm, Locked
<1> QED BY <1>2, <1>3

\* The other frames leave the FARM as one, and V(R) alone or as commanded
LEMMA ControlFrame ==
  ASSUME farm \in Farm, NEW v \in Number
  PROVE  /\ handleBCUnlockCommand \in Farm /\ handleBCUnlockCommand.vR = farm.vR
         /\ handleBCSetVrCommand(v) \in Farm
         /\ handleBCSetVrCommand(v).vR \in {farm.vR, v}
  BY DEF Farm, handleBCUnlockCommand, handleBCSetVrCommand

LEMMA ReportedTyped ==
  ASSUME NEW f \in Farm, Reported(f)
  PROVE  farm' = f /\ farm' \in Farm /\ clcw' \in Register /\ clcw'.vR = f.vR
  BY DEF Reported, Farm, Register

\* Frames are taken from the front of the link only
Shorter == uplink' = uplink \/ (uplink # << >> /\ uplink' = Tail(uplink))

LEMMA Shift ==
  ASSUME uplink \in Seq(Frame), Shorter
  PROVE  /\ uplink' \in Seq(Frame)
         /\ \E s \in {0, 1} : \A k \in 1 .. Len(uplink') :
              k + s \in 1 .. Len(uplink) /\ uplink'[k] = uplink[k + s]
<1>1. CASE uplink' = uplink
  <2>1. \A k \in 1 .. Len(uplink') : k + 0 \in 1 .. Len(uplink) /\ uplink'[k] = uplink[k + 0]
    BY <1>1
  <2> QED BY <1>1, <2>1
<1>2. CASE uplink # << >> /\ uplink' = Tail(uplink)
  <2>1. uplink' \in Seq(Frame) /\ Len(uplink') = Len(uplink) - 1
    BY <1>2
  <2>2. \A k \in 1 .. Len(uplink') : k + 1 \in 1 .. Len(uplink) /\ uplink'[k] = uplink[k + 1]
    BY <1>2, <2>1
  <2> QED BY <2>1, <2>2
<1> QED BY <1>1, <1>2 DEF Shorter

\* As long as nothing is received and the ground rests, they are in order
LEMMA FramesStay ==
  ASSUME ChannelInv, Shorter, UNCHANGED <<ground, received>>
  PROVE  /\ uplink' \in Seq(Frame)
         /\ SetsFirst' /\ InOrder'
         /\ ground.syncing => \A k \in 1 .. Len(uplink') : uplink'[k].type # "AD"
<1>1. uplink' \in Seq(Frame)
  BY Shift DEF ChannelInv, ChannelTyped
<1>2. PICK s \in {0, 1} : \A k \in 1 .. Len(uplink') :
        k + s \in 1 .. Len(uplink) /\ uplink'[k] = uplink[k + s]
  BY Shift DEF ChannelInv, ChannelTyped
<1>3. \A k \in 1 .. Len(uplink') : \A j \in 1 .. k - 1 :
        j \in 1 .. Len(uplink') /\ j + s \in 1 .. (k + s) - 1
  BY <1>1, <1>2
<1>4. SetsFirst'
  BY <1>1, <1>2, <1>3 DEF ChannelInv, SetsFirst
<1>5. InOrder'
  <2> SUFFICES ASSUME NEW k \in 1 .. Len(uplink'), uplink'[k].type = "AD"
               PROVE  /\ Close(uplink[k])'
                      /\ \A j \in 1 .. k - 1 : uplink'[j].type = "AD"
                           => uplink'[j].i <= uplink'[k].i - 1 + positiveWindow
    BY DEF InOrder
  <2>1. Close(uplink[k + s])
    BY <1>2 DEF ChannelInv, InOrder
  <2>2. Close(uplink[k])'
    BY <2>1, <1>2 DEF Close, AtNumber
  <2>3. \A j \in 1 .. k - 1 : uplink'[j].type = "AD"
           => uplink'[j].i <= uplink'[k].i - 1 + positiveWindow
    BY <1>2, <1>3 DEF ChannelInv, InOrder
  <2> QED BY <2>2, <2>3
<1> QED BY <1>1, <1>2, <1>4, <1>5 DEF ChannelInv, Syncing

\* Steps on board that leave V(R) alone
LEMMA QuietStep ==
  ASSUME ChannelInv, Shorter, UNCHANGED <<ground, received, report>>,
         farm' \in Farm, farm'.vR = farm.vR,
         clcw' \in Register, clcw' = clcw \/ clcw'.vR = farm.vR
  PROVE  ChannelInv'
<1>1. ChannelTyped'
  BY FramesStay DEF ChannelInv, ChannelTyped
<1>2. Syncing'
  BY FramesStay DEF ChannelInv, Syncing
<1>3. Synced'
  <2> SUFFICES ASSUME ~ground.syncing PROVE Synced'
    BY DEF Synced
  <2>1. /\ farm.vR = AtNumber(received)
        /\ received <= ground.sent /\ ground.sent <= ground.acked + positiveWindow
    BY DEF ChannelInv, Synced
  <2>2. PICK q \in Nat, p \in Nat :
          /\ clcw.vR = AtNumber(q) /\ report.vR = AtNumber(p)
          /\ ground.acked <= p /\ p <= q /\ q <= received
    BY DEF ChannelInv, Synced
  <2>3. received \in Nat /\ ground.acked \in Nat
    BY DEF ChannelInv, ChannelTyped
  <2>4. \E r \in Nat, o \in Nat :
          /\ clcw'.vR = AtNumber(r) /\ report.vR = AtNumber(o)
          /\ ground.acked <= o /\ o <= r /\ r <= received
    <3>1. CASE clcw' = clcw
      BY <3>1, <2>2
    <3>2. CASE clcw'.vR = farm.vR
      <4>1. p <= received /\ received <= received
        BY <2>2, <2>3
      <4> QED BY <3>2, <4>1, <2>1, <2>2, <2>3
    <3> QED BY <3>1, <3>2
  <2> QED BY <2>1, <2>4 DEF Synced, AtNumber
<1> QED BY <1>1, <1>2, <1>3, FramesStay DEF ChannelInv

\* An AD frame of the ground is accepted only if it is the one that follows
LEMMA HeadIsClose ==
  ASSUME ChannelInv, uplink # << >>, Head(uplink).type = "AD"
  PROVE  /\ ~ground.syncing
         /\ Head(uplink).i \in Nat
         /\ Diff(Head(uplink).n) = Head(uplink).i - 1 - received
         /\ InWindow(Diff(Head(uplink).n))
<1> DEFINE frame == Head(uplink)
<1>1. frame = uplink[1] /\ 1 \in 1 .. Len(uplink) /\ frame \in Frame
  BY DEF ChannelInv, ChannelTyped
<1>2. ~ground.syncing /\ Close(frame)
  BY <1>1 DEF ChannelInv, Syncing, InOrder
<1>3. /\ frame.i \in Nat /\ received \in Nat /\ ground.vS \in Int /\ ground.sent \in Nat
      /\ ground.acked \in Nat /\ positiveWindow \in Nat /\ negativeWindow = positiveWindow
  BY <1>1, Windows, ModulusPositive DEF ChannelInv, ChannelTyped, Frame, Number
<1>4. /\ farm.vR = AtNumber(received) /\ ground.acked <= received
      /\ ground.sent <= ground.acked + positiveWindow
  <2>1. PICK q \in Nat, p \in Nat : ground.acked <= p /\ p <= q /\ q <= received
    BY <1>2 DEF ChannelInv, Synced
  <2> QED BY <1>2, <1>3, <2>1 DEF ChannelInv, Synced
<1> DEFINE x == ground.vS + received
           y == ground.vS + (frame.i - 1)
<1>5. /\ x \in Int /\ y \in Int /\ y - x = frame.i - 1 - received
      /\ y - x < positiveWindow /\ -positiveWindow <= y - x
  <2>1. frame.i <= ground.sent /\ received <= frame.i - 1 + positiveWindow
    BY <1>2 DEF Close
  <2> HIDE DEF frame
  <2>2. x \in Int /\ y \in Int /\ y - x = frame.i - 1 - received
    BY <1>3
  <2>3. frame.i <= ground.acked + positiveWindow
    BY <2>1, <1>3, <1>4
  <2>4. frame.i - 1 - received < positiveWindow
    BY <2>3, <1>3, <1>4
  <2>5. -positiveWindow <= frame.i - 1 - received
    BY <2>1, <1>3
  <2> HIDE DEF x, y
  <2> QED BY <2>2, <2>4, <2>5
<1>6. farm.vR = x % Modulus /\ frame.n = y % Modulus
  BY <1>2, <1>4 DEF Close, AtNumber
<1> HIDE DEF x, y
<1>7. Diff(frame.n) = y - x
  BY <1>5, <1>6, DiffIsDistance
<1> QED BY <1>2, <1>3, <1>5, <1>7 DEF InWindow

LEMMA AcceptStep ==
  ASSUME ChannelInv, ReceiveAD, Accepts(Head(uplink).n)
  PROVE  ChannelInv'
<1> DEFINE frame == Head(uplink)
<1>1. /\ uplink # << >> /\ frame.type = "AD" /\ uplink' = Tail(uplink)
      /\ UNCHANGED <<ground, report>> /\ received' = received + 1
      /\ Reported(handleADFrame(frame.n))
  BY DEF ReceiveAD, Arrives
<1>2. frame = uplink[1] /\ 1 \in 1 .. Len(uplink) /\ frame \in Frame
  BY <1>1 DEF ChannelInv, ChannelTyped
<1>3. /\ received \in Nat /\ ground.vS \in Int /\ ground.sent \in Nat /\ ground.acked \in Nat
      /\ frame.i \in Nat
  BY <1>2, ModulusPositive DEF ChannelInv, ChannelTyped, Frame, Number
<1>4. ~ground.syncing /\ Close(frame) /\ received = frame.i - 1
  <2>1. Diff(frame.n) = 0 /\ ~ground.syncing /\ Diff(frame.n) = frame.i - 1 - received
    BY <1>1, HeadIsClose DEF Accepts
  <2>2. Close(frame)
    BY <1>1, <1>2 DEF ChannelInv, InOrder
  <2> QED BY <2>1, <2>2, <1>3
<1>5. /\ farm' \in Farm /\ clcw' \in Register /\ clcw'.vR = farm'.vR
      /\ farm'.vR = Successor(farm.vR)
  <2>1. /\ handleADFrame(frame.n) \in Farm
        /\ handleADFrame(frame.n).vR = Successor(farm.vR)
    BY ADFrame DEF ChannelInv, ChannelTyped
  <2> QED BY <1>1, <2>1, ReportedTyped
<1>6. farm'.vR = AtNumber(received + 1)
  <2> DEFINE x == ground.vS + received
  <2>1. x \in Int /\ farm.vR = x % Modulus /\ x + 1 = ground.vS + (received + 1)
    BY <1>3, <1>4 DEF ChannelInv, Synced, AtNumber
  <2> HIDE DEF x
  <2>2. Successor(farm.vR) = (x + 1) % Modulus
    BY <2>1, SuccessorOf
  <2> QED BY <1>5, <2>1, <2>2 DEF AtNumber
<1>7. PICK p \in Nat : report.vR = AtNumber(p) /\ ground.acked <= p /\ p <= received
  <2>1. PICK q \in Nat, p \in Nat :
          report.vR = AtNumber(p) /\ ground.acked <= p /\ p <= q /\ q <= received
    BY <1>4 DEF ChannelInv, Synced
  <2>2. p <= received
    BY <2>1, <1>3
  <2> QED BY <2>1, <2>2
<1>8. Synced'
  <2>1. received + 1 <= ground.sent /\ ground.sent <= ground.acked + positiveWindow
    BY <1>3, <1>4 DEF Close, ChannelInv, Synced
  <2>2. /\ received + 1 \in Nat /\ clcw'.vR = AtNumber(received + 1)
        /\ p <= received + 1 /\ received + 1 <= received + 1
    BY <1>3, <1>5, <1>6, <1>7
  <2>3. \E q \in Nat, o \in Nat :
          /\ clcw'.vR = AtNumber(q) /\ report.vR = AtNumber(o)
          /\ ground.acked <= o /\ o <= q /\ q <= received + 1
    BY <2>2, <1>7
  <2> QED BY <1>1, <1>6, <2>1, <2>3 DEF Synced, AtNumber
<1>9. /\ uplink' \in Seq(Frame) /\ Len(uplink') = Len(uplink) - 1
      /\ \A k \in 1 .. Len(uplink') : k + 1 \in 1 .. Len(uplink) /\ uplink'[k] = uplink[k + 1]
      /\ \A k \in 1 .. Len(uplink') : 1 \in 1 .. (k + 1) - 1
      /\ \A k \in 1 .. Len(uplink') : \A j \in 1 .. k - 1 :
           j \in 1 .. Len(uplink') /\ j + 1 \in 1 .. (k + 1) - 1
  <2>1. uplink' \in Seq(Frame) /\ Len(uplink') = Len(uplink) - 1
    BY <1>1 DEF ChannelInv, ChannelTyped
  <2>2. \A k \in 1 .. Len(uplink') : k + 1 \in 1 .. Len(uplink) /\ uplink'[k] = uplink[k + 1]
    BY <1>1, <2>1 DEF ChannelInv, ChannelTyped
  <2> QED BY <2>1, <2>2
<1>10. SetsFirst'
  BY <1>1, <1>2, <1>9 DEF ChannelInv, SetsFirst
<1>11. InOrder'
  <2> SUFFICES ASSUME NEW k \in 1 .. Len(uplink'), uplink'[k].type = "AD"
               PROVE  /\ Close(uplink[k])'
                      /\ \A j \in 1 .. k - 1 : uplink'[j].type = "AD"
                           => uplink'[j].i <= uplink'[k].i - 1 + positiveWindow
    BY DEF InOrder
  <2>1. Close(uplink[k + 1]) /\ frame.i <= uplink[k + 1].i - 1 + positiveWindow
    BY <1>1, <1>2, <1>9 DEF ChannelInv, InOrder
  <2>2. received' = frame.i
    BY <1>1, <1>3, <1>4
  <2>3. Close(uplink[k])'
    BY <1>1, <1>9, <2>1, <2>2 DEF Close, AtNumber
  <2>4. \A j \in 1 .. k - 1 : uplink'[j].type = "AD"
           => uplink'[j].i <= uplink'[k].i - 1 + positiveWindow
    BY <1>9 DEF ChannelInv, InOrder
  <2> QED BY <2>3, <2>4
<1>12. ChannelTyped' /\ Syncing'
  BY <1>1, <1>3, <1>4, <1>5, <1>9 DEF ChannelInv, ChannelTyped, Syncing
<1> QED BY <1>8, <1>10, <1>11, <1>12 DEF ChannelInv

LEMMA SetVrStep ==
  ASSUME ChannelInv, ReceiveSetVr
  PROVE  ChannelInv'
<1>1. /\ uplink # << >> /\ Head(uplink).type = "SET_V_R" /\ uplink' = Tail(uplink)
      /\ UNCHANGED <<ground, report, received>>
      /\ Reported(handleBCSetVrCommand(Head(uplink).n))
  BY DEF ReceiveSetVr, Arrives, history
<1>2. Head(uplink) = uplink[1] /\ 1 \in 1 .. Len(uplink) /\ Head(uplink) \in Frame
  BY <1>1 DEF ChannelInv, ChannelTyped
<1>3. Head(uplink).n = ground.vS /\ received = 0 /\ Head(uplink).n \in Number
  BY <1>1, <1>2 DEF ChannelInv, SetsFirst, Frame
<1>4. /\ farm' \in Farm /\ clcw' \in Register /\ clcw'.vR = farm'.vR
      /\ farm'.vR \in {farm.vR, ground.vS}
  <2>1. /\ handleBCSetVrCommand(ground.vS) \in Farm
        /\ handleBCSetVrCommand(ground.vS).vR \in {farm.vR, ground.vS}
    BY <1>3, ControlFrame DEF ChannelInv, ChannelTyped
  <2> QED BY <1>1, <1>3, <2>1, ReportedTyped
<1>5. CASE farm'.vR = farm.vR
  BY <1>1, <1>4, <1>5, QuietStep DEF Shorter
<1>6. CASE farm'.vR = ground.vS
  <2>1. CASE ground.syncing
    <3>1. Shorter
      BY <1>1 DEF Shorter
    <3>2. ChannelTyped' /\ SetsFirst' /\ InOrder'
      BY <1>1, <1>4, <3>1, FramesStay DEF ChannelInv, ChannelTyped
    <3>3. Syncing'
      BY <1>1, <1>4, <1>6, <3>1, <2>1, FramesStay DEF ChannelInv, Syncing
    <3> QED BY <1>1, <2>1, <3>2, <3>3 DEF ChannelInv, Synced
  <2>2. CASE ~ground.syncing
    <3>1. farm.vR = AtNumber(0)
      BY <2>2, <1>3 DEF ChannelInv, Synced
    <3>2. AtNumber(0) = ground.vS
      <4>1. ground.vS \in 0 .. Modulus - 1 /\ ground.vS + 0 = ground.vS
        BY ModulusPositive DEF ChannelInv, ChannelTyped, Number
      <4> QED BY <4>1, ModulusPositive DEF AtNumber
    <3>3. farm'.vR = farm.vR
      BY <1>6, <3>1, <3>2
    <3> QED BY <1>1, <1>4, <3>3, QuietStep DEF Shorter
  <2> QED BY <2>1, <2>2
<1> QED BY <1>4, <1>5, <1>6

LEMMA SendClcwStep ==
  ASSUME ChannelInv, SendClcw
  PROVE  ChannelInv'
<1>1. report' = clcw /\ UNCHANGED <<farm, clcw, uplink, ground, received>>
  BY DEF SendClcw, onboard, history
<1>2. Shorter
  BY <1>1 DEF Shorter
<1>3. ChannelTyped' /\ SetsFirst' /\ InOrder'
  BY <1>1, <1>2, FramesStay DEF ChannelInv, ChannelTyped
<1>4. Syncing'
  BY <1>1 DEF ChannelInv, Syncing
<1>5. Synced'
  <2> SUFFICES ASSUME ~ground.syncing PROVE Synced'
    BY <1>1 DEF Synced
  <2>1. PICK q \in Nat, p \in Nat :
          clcw.vR = AtNumber(q) /\ ground.acked <= p /\ p <= q /\ q <= received
    BY DEF ChannelInv, Synced
  <2>2. ground.acked <= q /\ q <= q
    BY <2>1 DEF ChannelInv, ChannelTyped
  <2>3. \E r \in Nat, o \in Nat :
          /\ clcw.vR = AtNumber(r) /\ clcw.vR = AtNumber(o)
          /\ ground.acked <= o /\ o <= r /\ r <= received
    BY <2>1, <2>2
  <2> QED BY <1>1, <2>3 DEF ChannelInv, Synced, AtNumber
<1> QED BY <1>3, <1>4, <1>5 DEF ChannelInv

\* BD and BC frames come behind what is on its way
LEMMA OtherFrameSent ==
  ASSUME ChannelInv, NEW frame \in Frame, frame.type # "AD",
         frame.type = "SET_V_R" => ground.syncing /\ frame.n = ground.vS,
         uplink' = Append(uplink, frame),
         UNCHANGED <<farm, clcw, report, ground, received>>
  PROVE  ChannelInv'
<1>1. /\ uplink' \in Seq(Frame) /\ Len(uplink') = Len(uplink) + 1
      /\ uplink'[Len(uplink) + 1] = frame
      /\ \A k \in 1 .. Len(uplink) : uplink'[k] = uplink[k]
  BY DEF ChannelInv, ChannelTyped
<1>2. Len(uplink) \in Nat
  BY DEF ChannelInv, ChannelTyped
<1>3. \A k \in 1 .. Len(uplink') : k \in 1 .. Len(uplink) \/ k = Len(uplink) + 1
  BY <1>1, <1>2
<1>4. \A k \in 1 .. Len(uplink') : \A j \in 1 .. k - 1 : j \in 1 .. Len(uplink)
  BY <1>1, <1>2
<1>5. ChannelTyped' /\ Syncing' /\ Synced'
  BY <1>1, <1>3 DEF ChannelInv, ChannelTyped, Syncing, Synced, AtNumber
<1>6. SetsFirst'
  BY <1>1, <1>3, <1>4 DEF ChannelInv, SetsFirst, Syncing
<1>7. InOrder'
  BY <1>1, <1>3, <1>4 DEF ChannelInv, InOrder, Close, AtNumber
<1> QED BY <1>5, <1>6, <1>7 DEF ChannelInv

LEMMA OtherSent ==
  ASSUME ChannelInv, SendBD \/ SendUnlock \/ SendSetVr
  PROVE  ChannelInv'
<1>1. 0 \in Number /\ ground.vS \in Number
  BY ModulusPositive DEF ChannelInv, ChannelTyped, Number
<1>2. CASE SendBD
  <2>1. [type |-> "BD", n |-> 0, i |-> 0] \in Frame
    BY <1>1 DEF Frame
  <2> QED BY <1>2, <2>1, OtherFrameSent DEF SendBD, Transmit, onboard, history
<1>3. CASE SendUnlock
  <2>1. [type |-> "UNLOCK", n |-> 0, i |-> 0] \in Frame
    BY <1>1 DEF Frame
  <2> QED BY <1>3, <2>1, OtherFrameSent DEF SendUnlock, Transmit, onboard, history
<1>4. CASE SendSetVr
  <2>1. [type |-> "SET_V_R", n |-> ground.vS, i |-> 0] \in Frame
    BY <1>1 DEF Frame
  <2> QED BY <1>4, <2>1, OtherFrameSent DEF SendSetVr, Transmit, onboard, history
<1> QED BY <1>2, <1>3, <1>4

\* The ground sends within its window, and a repeated frame is not far behind
\* those it has sent before
LEMMA SendADStep ==
  ASSUME ChannelInv, NEW i \in DOMAIN Frames, SendAD(i)
  PROVE  ChannelInv'
<1> DEFINE frame == [type |-> "AD", n |-> NumberOf(i), i |-> i]
<1>1. /\ ~ground.syncing
      /\ i \in ground.acked + 1 .. ground.acked + positiveWindow /\ i <= ground.sent + 1
      /\ uplink' = Append(uplink, frame)
      /\ UNCHANGED <<farm, clcw, report, received>>
      /\ ground' = [ground EXCEPT !.sent = IF i > @ THEN i ELSE @]
  BY DEF SendAD, Transmit, onboard, history
<1>2. /\ i \in Nat /\ ground.acked \in Nat /\ ground.sent \in Nat /\ ground.vS \in Number
      /\ received \in Nat /\ positiveWindow \in Nat /\ Len(uplink) \in Nat
  BY ChannelAssumption, Windows DEF ChannelInv, ChannelTyped
<1>3. /\ ground'.vS = ground.vS /\ ground'.acked = ground.acked
      /\ ground'.syncing = ground.syncing /\ ground'.sent \in Nat
      /\ ground'.sent >= ground.sent /\ ground'.sent >= i
      /\ ground' \in [vS : Number, acked : Nat, sent : Nat, syncing : BOOLEAN, blocked : BOOLEAN]
      /\ ground'.sent = ground.sent \/ ground'.sent = i
  <2>1. ground \in [vS : Number, acked : Nat, sent : Nat, syncing : BOOLEAN, blocked : BOOLEAN]
    BY DEF ChannelInv, ChannelTyped
  <2> DEFINE last == IF i > ground.sent THEN i ELSE ground.sent
  <2>2. last \in Nat /\ last >= ground.sent /\ last >= i /\ (last = ground.sent \/ last = i)
    BY <1>2
  <2>3. ground' = [ground EXCEPT !.sent = last]
    BY <1>1
  <2> HIDE DEF last
  <2> QED BY <2>1, <2>2, <2>3
<1>4. ground.sent <= ground.acked + positiveWindow /\ received <= ground.sent
  BY <1>1 DEF ChannelInv, Synced
<1>5. NumberOf(i) = AtNumber(i - 1) /\ NumberOf(i) \in Number
  <2>1. ground.vS \in Int /\ i - 1 \in Int /\ ground.vS + i - 1 = ground.vS + (i - 1)
    BY <1>2, ModulusPositive DEF Number
  <2>2. NumberOf(i) = AtNumber(i - 1)
    BY <2>1 DEF NumberOf, AtNumber
  <2>3. (ground.vS + i - 1) % Modulus \in 0 .. Modulus - 1
    BY <2>1, ModRange
  <2> QED BY <2>2, <2>3 DEF NumberOf, Number
<1>6. frame \in Frame
  BY <1>2, <1>5 DEF Frame
<1>7. /\ uplink' \in Seq(Frame) /\ Len(uplink') = Len(uplink) + 1
      /\ uplink'[Len(uplink) + 1] = frame
      /\ \A k \in 1 .. Len(uplink) : uplink'[k] = uplink[k]
  BY <1>1, <1>6 DEF ChannelInv, ChannelTyped
<1>8. \A k \in 1 .. Len(uplink') : k \in 1 .. Len(uplink) \/ k = Len(uplink) + 1
  BY <1>2, <1>7
<1>9. \A k \in 1 .. Len(uplink') : \A j \in 1 .. k - 1 : j \in 1 .. Len(uplink)
  BY <1>2, <1>7
<1>10. ChannelTyped' /\ Syncing'
  BY <1>1, <1>3, <1>7 DEF ChannelInv, ChannelTyped, Syncing
<1>11. SetsFirst'
  BY <1>1, <1>3, <1>7, <1>8, <1>9 DEF ChannelInv, SetsFirst
<1>12. Synced'
  <2>1. received <= ground'.sent /\ ground'.sent <= ground.acked + positiveWindow
    BY <1>1, <1>2, <1>3, <1>4
  <2> QED BY <1>1, <1>3, <2>1 DEF ChannelInv, Synced, AtNumber
<1>13. InOrder'
  <2> SUFFICES ASSUME NEW k \in 1 .. Len(uplink'), uplink'[k].type = "AD"
               PROVE  /\ Close(uplink[k])'
                      /\ \A j \in 1 .. k - 1 : uplink'[j].type = "AD"
                           => uplink'[j].i <= uplink'[k].i - 1 + positiveWindow
    BY DEF InOrder
  <2>1. CASE k \in 1 .. Len(uplink)
    <3>1. Close(uplink[k]) /\ uplink'[k] = uplink[k] /\ uplink[k].i \in Nat
      <4>1. uplink[k] \in Frame /\ uplink'[k] = uplink[k]
        BY <1>7, <2>1 DEF ChannelInv, ChannelTyped
      <4>2. Close(uplink[k])
        BY <4>1, <2>1 DEF ChannelInv, InOrder
      <4> QED BY <4>1, <4>2 DEF Frame
    <3>2. Close(uplink[k])'
      <4>1. uplink[k].i <= ground'.sent
        BY <1>2, <1>3, <3>1 DEF Close
      <4> QED BY <1>1, <1>3, <3>1, <4>1 DEF Close, AtNumber
    <3>3. \A j \in 1 .. k - 1 : uplink'[j].type = "AD"
             => uplink'[j].i <= uplink'[k].i - 1 + positiveWindow
      BY <1>7, <1>9, <2>1, <3>1 DEF ChannelInv, InOrder
    <3> QED BY <3>2, <3>3
  <2>2. CASE k = Len(uplink) + 1
    <3>1. uplink'[k] = frame /\ frame.i = i /\ frame.n = AtNumber(i - 1)
      BY <1>5, <1>7, <2>2
    <3>2. i >= 1 /\ i <= ground'.sent /\ received <= i - 1 + positiveWindow
      BY <1>1, <1>2, <1>3, <1>4
    <3>3. Close(uplink[k])'
      <4> HIDE DEF frame
      <4> QED BY <1>1, <1>3, <3>1, <3>2 DEF Close, AtNumber
    <3>4. \A j \in 1 .. Len(uplink) : uplink[j].type = "AD"
             => uplink[j].i <= i - 1 + positiveWindow
      <4> TAKE j \in 1 .. Len(uplink)
      <4> HAVE uplink[j].type = "AD"
      <4>1. uplink[j].i <= ground.sent /\ uplink[j].i \in Nat
        <5>1. uplink[j] \in Frame
          BY DEF ChannelInv, ChannelTyped
        <5>2. Close(uplink[j])
          BY DEF ChannelInv, InOrder
        <5> QED BY <5>1, <5>2 DEF Frame, Close
      <4>2. ground.acked + 1 <= i
        BY <1>1, <1>2
      <4>3. ground.sent <= i - 1 + positiveWindow
        BY <4>2, <1>2, <1>4
      <4> HIDE DEF frame
      <4> QED BY <4>1, <4>3, <1>2
    <3> QED BY <1>7, <1>9, <3>1, <3>3, <3>4
  <2> QED BY <1>8, <2>1, <2>2
<1> QED BY <1>10, <1>11, <1>12, <1>13 DEF ChannelInv

\* What a CLCW acknowledges is one number of frames, and no more than was
\* received
LEMMA ReadClcwStep ==
  ASSUME ChannelInv, ReadClcw
  PROVE  ChannelInv'
<1>1. UNCHANGED <<farm, clcw, report, uplink, received>>
  BY DEF ReadClcw, onboard, history
<1>2. Shorter
  BY <1>1 DEF Shorter
<1> DEFINE numbers == Acknowledged(report.vR)
           acked == IF ground.syncing \/ numbers = {} THEN ground.acked
                    ELSE CHOOSE a \in numbers : TRUE
           blocked == report.lockout \/ report.wait
           syncing == ground.syncing /\ (report.vR # ground.vS \/ report.lockout \/ report.wait)
<1>3. ground' = [ground EXCEPT !.blocked = blocked, !.syncing = syncing, !.acked = acked]
  BY DEF ReadClcw
<1>4. /\ ground.vS \in Number /\ ground.acked \in Nat /\ ground.sent \in Nat
      /\ ground.syncing \in BOOLEAN /\ received \in Nat /\ positiveWindow \in Nat
      /\ positiveWindow < Modulus /\ ground.vS \in Int
  BY Windows, ModulusPositive DEF ChannelInv, ChannelTyped, Number
<1>5. blocked \in BOOLEAN /\ syncing \in BOOLEAN
  BY DEF ChannelInv, ChannelTyped, Register
<1>6. ASSUME ~ground.syncing
      PROVE  \E q \in Nat, p \in Nat :
               /\ clcw.vR = AtNumber(q) /\ report.vR = AtNumber(p) /\ p <= q /\ q <= received
               /\ ground.acked <= p /\ acked = p
  <2>1. PICK q \in Nat, p \in Nat :
          /\ clcw.vR = AtNumber(q) /\ report.vR = AtNumber(p)
          /\ ground.acked <= p /\ p <= q /\ q <= received
    BY <1>6 DEF ChannelInv, Synced
  <2>2. received <= ground.sent /\ ground.sent <= ground.acked + positiveWindow
    BY <1>6 DEF ChannelInv, Synced
  <2>3. p \in ground.acked .. ground.sent
    BY <2>1, <2>2, <1>4
  <2>4. p \in numbers
    BY <2>1, <2>3 DEF Acknowledged, AtNumber
  <2>5. ASSUME NEW a \in numbers PROVE a = p
    <3>1. a \in ground.acked .. ground.sent /\ (ground.vS + a) % Modulus = (ground.vS + p) % Modulus
      BY <2>1, <2>5 DEF Acknowledged, AtNumber
    <3> DEFINE x == ground.vS + a
               y == ground.vS + p
    <3>2. x \in Int /\ y \in Int /\ x - y < Modulus /\ y - x < Modulus
      <4>1. Modulus \in Nat /\ a \in Int /\ p \in Int
        BY <1>4, <3>1, ModulusPositive
      <4>2. /\ ground.acked <= a /\ a <= ground.sent /\ ground.acked <= p /\ p <= ground.sent
            /\ ground.sent <= ground.acked + positiveWindow
        BY <3>1, <2>2, <2>3
      <4>3. a - p < Modulus /\ p - a < Modulus
        BY <4>1, <4>2, <1>4
      <4> QED BY <4>1, <4>3, <1>4
    <3>3. x % Modulus = y % Modulus
      BY <3>1
    <3> HIDE DEF x, y
    <3>4. x = y
      BY <3>2, <3>3, ModUnique
    <3> QED BY <3>1, <3>4, <1>4 DEF x, y
  <2> HIDE DEF numbers
  <2>6. acked = p
    BY <1>6, <2>4, <2>5
  <2> QED BY <2>1, <2>6
<1>7. acked \in Nat /\ ground.acked <= acked /\ (ground.syncing => acked = ground.acked)
  <2>1. CASE ground.syncing
    BY <2>1, <1>4
  <2>2. CASE ~ground.syncing
    <3> HIDE DEF acked
    <3> QED BY <2>2, <1>6
  <2> QED BY <2>1, <2>2
<1> HIDE DEF numbers, acked, blocked, syncing
<1>8. /\ ground'.vS = ground.vS /\ ground'.sent = ground.sent
      /\ ground'.acked = acked /\ ground'.syncing = syncing
      /\ ground' \in [vS : Number, acked : Nat, sent : Nat, syncing : BOOLEAN, blocked : BOOLEAN]
  BY <1>3, <1>5, <1>7 DEF ChannelInv, ChannelTyped
<1>9. ChannelTyped' /\ SetsFirst' /\ InOrder'
  BY <1>1, <1>8 DEF ChannelInv, ChannelTyped, SetsFirst, InOrder, Close, AtNumber
<1>10. Syncing'
  <2>1. syncing => ground.syncing
    BY DEF syncing
  <2> QED BY <1>1, <1>7, <1>8, <2>1 DEF ChannelInv, Syncing
<1>11. Synced'
  <2> SUFFICES ASSUME ~syncing PROVE Synced'
    BY <1>8 DEF Synced
  <2>1. CASE ground.syncing
    <3>1. report.vR = ground.vS
      BY <2>1 DEF syncing
    <3>2. /\ farm.vR = ground.vS /\ clcw.vR = ground.vS
          /\ ground.acked = 0 /\ ground.sent = 0 /\ received = 0 /\ acked = 0
      BY <2>1, <3>1, <1>7 DEF ChannelInv, Syncing
    <3>3. AtNumber(0) = ground.vS
      <4>1. ground.vS \in 0 .. Modulus - 1 /\ ground.vS + 0 = ground.vS
        BY <1>4 DEF Number
      <4> QED BY <4>1, ModulusPositive DEF AtNumber
    <3>4. AtNumber(0)' = ground.vS
      BY <1>8, <3>3 DEF AtNumber
    <3>5. \E q \in Nat, p \in Nat :
            /\ clcw.vR = AtNumber(q)' /\ report.vR = AtNumber(p)'
            /\ acked <= p /\ p <= q /\ q <= received
      BY <3>1, <3>2, <3>4
    <3>6. received <= ground.sent /\ ground.sent <= acked + positiveWindow
      BY <3>2, <1>4
    <3> QED BY <1>1, <1>8, <3>2, <3>4, <3>5, <3>6 DEF Synced
  <2>2. CASE ~ground.syncing
    <3>1. PICK q \in Nat, p \in Nat :
            /\ clcw.vR = AtNumber(q) /\ report.vR = AtNumber(p)
            /\ p <= q /\ q <= received /\ acked = p
      BY <1>6, <2>2
    <3>2. \E r \in Nat, o \in Nat :
            /\ clcw.vR = AtNumber(r) /\ report.vR = AtNumber(o)
            /\ acked <= o /\ o <= r /\ r <= received
      BY <3>1
    <3>3. farm.vR = AtNumber(received) /\ received <= ground.sent
          /\ ground.sent <= acked + positiveWindow
      <4>1. farm.vR = AtNumber(received) /\ received <= ground.sent
            /\ ground.sent <= ground.acked + positiveWindow
        BY <2>2 DEF ChannelInv, Synced
      <4> QED BY <4>1, <1>4, <1>7
    <3> QED BY <1>1, <1>8, <3>2, <3>3 DEF Synced, AtNumber
  <2> QED BY <2>1, <2>2
<1> QED BY <1>9, <1>10, <1>11 DEF ChannelInv

-----------------------------------------------------------------------------
LEMMA InitChannelInv == ChannelInit => ChannelInv
<1> SUFFICES ASSUME ChannelInit PROVE ChannelInv
  OBVIOUS
<1>1. 0 \in Number /\ FirstVr \subseteq Number
  BY ChannelAssumption, ModulusPositive DEF Number
<1>2. PICK v \in FirstVr : ground = [vS |-> v, acked |-> 0, sent |-> 0,
                                      syncing |-> TRUE, blocked |-> FALSE]
  BY DEF ChannelInit
<1>3. /\ farm.vR = 0 /\ clcw.vR = 0 /\ report.vR = 0 /\ uplink = << >> /\ received = 0
      /\ farm \in Farm /\ clcw \in Register /\ report \in Register
  BY <1>1 DEF ChannelInit, NoReport, Farm, Register
<1>4. ChannelTyped
  BY <1>1, <1>2, <1>3 DEF ChannelTyped
<1>5. Syncing /\ Synced /\ SetsFirst /\ InOrder
  BY <1>2, <1>3 DEF Syncing, Synced, SetsFirst, InOrder
<1> QED BY <1>4, <1>5 DEF ChannelInv

LEMMA ReceiveADStep ==
  ASSUME ChannelInv, ReceiveAD
  PROVE  ChannelInv'
<1>1. CASE Accepts(Head(uplink).n)
  BY <1>1, AcceptStep
<1>2. CASE ~Accepts(Head(uplink).n)
  <2>1. /\ Shorter /\ UNCHANGED <<ground, received, report>>
        /\ Reported(handleADFrame(Head(uplink).n))
    BY <1>2 DEF ReceiveAD, Arrives, Shorter
  <2>2. /\ handleADFrame(Head(uplink).n) \in Farm
        /\ handleADFrame(Head(uplink).n).vR = farm.vR
    BY <1>2, ADFrame DEF ChannelInv, ChannelTyped
  <2>3. farm' \in Farm /\ farm'.vR = farm.vR /\ clcw' \in Register /\ clcw'.vR = farm.vR
    BY <2>1, <2>2, ReportedTyped
  <2> QED BY <2>1, <2>3, QuietStep
<1> QED BY <1>1, <1>2

\* BD frames, unlock commands, frames of others, waits and losses
LEMMA QuietSteps ==
  ASSUME ChannelInv, ReceiveBD \/ ReceiveUnlock \/ ReceiveStray \/ setToWaitState \/ LoseFrame
  PROVE  ChannelInv'
<1>1. farm \in Farm /\ clcw \in Register
  BY DEF ChannelInv, ChannelTyped
<1>2. CASE ReceiveBD
  <2>1. Shorter /\ UNCHANGED <<ground, received, report>> /\ Reported(farm)
    BY <1>2 DEF ReceiveBD, Arrives, Shorter
  <2> QED BY <1>1, <2>1, ReportedTyped, QuietStep
<1>3. CASE ReceiveUnlock
  <2>1. /\ Shorter /\ UNCHANGED <<ground, received, report>>
        /\ Reported(handleBCUnlockCommand)
    BY <1>3 DEF ReceiveUnlock, Arrives, Shorter, history
  <2>2. handleBCUnlockCommand \in Farm /\ handleBCUnlockCommand.vR = farm.vR
    BY <1>1 DEF handleBCUnlockCommand, Farm
  <2> QED BY <2>1, <2>2, ReportedTyped, QuietStep
<1>4. CASE ReceiveStray
  <2>1. PICK n \in Number \ {farm.vR} : Reported(handleADFrame(n))
    BY <1>4 DEF ReceiveStray
  <2>2. ~Accepts(n)
    BY <1>1, <2>1, NoDifference DEF Accepts, Farm
  <2>3. handleADFrame(n) \in Farm /\ handleADFrame(n).vR = farm.vR
    BY <1>1, <2>2, ADFrame
  <2>4. Shorter /\ UNCHANGED <<ground, received, report>>
    BY <1>4 DEF ReceiveStray, Shorter, history
  <2>5. farm' \in Farm /\ farm'.vR = farm.vR /\ clcw' \in Register /\ clcw'.vR = farm.vR
    BY <2>1, <2>3, ReportedTyped
  <2> QED BY <2>4, <2>5, QuietStep
<1>5. CASE setToWaitState
  <2>1. Shorter /\ UNCHANGED <<ground, received, report, clcw>>
    BY <1>5 DEF setToWaitState, Shorter, history
  <2>2. farm' \in Farm /\ farm'.vR = farm.vR
    BY <1>1, <1>5 DEF setToWaitState, Farm
  <2> QED BY <1>1, <2>1, <2>2, QuietStep
<1>6. CASE LoseFrame
  <2>1. Shorter /\ UNCHANGED <<ground, received, report, clcw, farm>>
    BY <1>6 DEF LoseFrame, Shorter, onboard, history
  <2> QED BY <1>1, <2>1, QuietStep
<1> QED BY <1>2, <1>3, <1>4, <1>5, <1>6

LEMMA StepChannelInv == ChannelInv /\ [ChannelNext]_channelVars => ChannelInv'
<1> SUFFICES ASSUME ChannelInv, [ChannelNext]_channelVars PROVE ChannelInv'
  OBVIOUS
<1>1. CASE Receive
  BY <1>1, ReceiveADStep, SetVrStep, QuietSteps DEF Receive
<1>2. CASE ReceiveStray \/ setToWaitState \/ LoseFrame
  BY <1>2, QuietSteps
<1>3. CASE SendClcw \/ ReadClcw
  BY <1>3, SendClcwStep, ReadClcwStep
<1>4. ASSUME NEW i \in DOMAIN Frames, SendAD(i) PROVE ChannelInv'
  BY <1>4, SendADStep
<1>5. CASE SendBD \/ SendUnlock \/ SendSetVr
  BY <1>5, OtherSent
<1>6. CASE UNCHANGED channelVars
  <2>1. UNCHANGED <<farm, clcw, report, uplink, ground, received>>
    BY <1>6 DEF channelVars, onboard, history
  <2> QED BY <2>1 DEF ChannelInv, ChannelTyped, Syncing, SetsFirst, Synced, InOrder, Close, AtNumber
<1> QED BY <1>1, <1>2, <1>3, <1>4, <1>5, <1>6 DEF ChannelNext

LEMMA InvariantInStep == ChannelInv => InStep
<1> SUFFICES ASSUME ChannelInv, ~ground.syncing
             PROVE  /\ farm.vR = (ground.vS + received) % Modulus
                    /\ received \in ground.acked .. ground.sent
                    /\ uplink # << >> /\ Head(uplink).type = "AD" => InWindow(Diff(Head(uplink).n))
  BY DEF InStep
<1>1. farm.vR = AtNumber(received) /\ received <= ground.sent
  BY DEF ChannelInv, Synced
<1>2. PICK q \in Nat, p \in Nat : ground.acked <= p /\ p <= q /\ q <= received
  BY DEF ChannelInv, Synced
<1>3. received \in ground.acked .. ground.sent
  BY <1>1, <1>2 DEF ChannelInv, ChannelTyped
<1> QED BY <1>1, <1>3, HeadIsClose DEF AtNumber

\* A sender that keeps to its window stays in step with the channel, whatever
\* happens on the link
THEOREM StaysInStep == ChannelSpec => []InStep
<1> QED BY InitChannelInv, StepChannelInv, InvariantInStep, PTL DEF ChannelSpec

-----------------------------------------------------------------------------
(***************************************************************************)
(* Packets: what is delivered is what the accepted frames contain, in      *)
(* their order.  The size of a packet is a sum over its segments, given by *)
(* a recursive function: that it exists is shown for prefixes of the       *)
(* frames, up to all of them.                                              *)
(***************************************************************************)
Later == {"CONTINUING_PORTION", "LAST_PORTION"}

(* Every non-empty set of natural numbers has a least element. *)
LEMMA LeastNumber ==
  ASSUME NEW T, T \subseteq Nat, T # {}
  PROVE  \E x \in T : \A y \in T : x <= y
<1> DEFINE R == OpToRel(<, Nat)
<1>1. IsWellFoundedOn(R, Nat)
  BY NatLessThanWellFounded
<1>2. PICK x \in T : \A y \in T : ~ (<<y, x>> \in R)
  <2> HIDE DEF R
  <2> QED BY <1>1, WFMin, Zenon
<1>3. \A y \in T : y < x => <<y, x>> \in R
  BY DEF OpToRel
<1>4. \A y \in T : ~ (y < x)
  BY <1>2, <1>3, Zenon
<1>5. \A y \in T : x <= y
  <2> HIDE DEF R
  <2> QED BY <1>4
<1> QED BY <1>5

\* Frames of the ground, their number, and the frame before a segment
LEMMA FramesAre ==
  /\ Len(Frames) \in Nat /\ DOMAIN Frames = 1 .. Len(Frames)
  /\ MAX_PACKET_SIZE \in Nat /\ MINIMUM_SIZE \in Nat
  /\ \A i \in DOMAIN Frames : /\ Frames[i].flag \in Flag
                              /\ Frames[i].size \in Nat /\ Frames[i].size >= 1
                              /\ Frames[i].ends \in Seq(Nat \ {0})
                              /\ Frames[i].flag \in Later
                                   <=> i > 1 /\ Frames[i - 1].flag \in Unfinished
<1> DEFINE S == [flag : Flag, size : Nat \ {0}, ends : Seq(Nat \ {0})]
<1>1. Frames \in Seq(S)
  BY ChannelAssumption
<1>2. Len(Frames) \in Nat /\ DOMAIN Frames = 1 .. Len(Frames)
  BY <1>1
<1>3. ASSUME NEW i \in DOMAIN Frames PROVE Frames[i] \in S
  <2> HIDE DEF S
  <2> QED BY <1>1, <1>2
<1>4. MAX_PACKET_SIZE \in Nat /\ MINIMUM_SIZE \in Nat
  BY ChannelAssumption
<1>5. ASSUME NEW i \in DOMAIN Frames
      PROVE  Frames[i].flag \in Later <=> i > 1 /\ Frames[i - 1].flag \in Unfinished
  BY ChannelAssumption DEF Later
<1>6. ASSUME NEW i \in DOMAIN Frames
      PROVE  /\ Frames[i].flag \in Flag
             /\ Frames[i].size \in Nat /\ Frames[i].size >= 1
             /\ Frames[i].ends \in Seq(Nat \ {0})
  <2>1. /\ Frames[i].flag \in Flag /\ Frames[i].size \in Nat \ {0}
        /\ Frames[i].ends \in Seq(Nat \ {0})
    BY <1>3
  <2> QED BY <2>1
<1> QED BY <1>2, <1>4, <1>5, <1>6

\* The packets in a frame without segmentation that unpackBlockingPackets sends
Unpacked(i) == {j \in Whole(i) : /\ Frames[i].size <= MAX_PACKET_SIZE
                            /\ left(i, j) > MINIMUM_SIZE}

(* If a packet is sent, the one before it in the frame is. *)
LEMMA UnpackedBefore ==
  ASSUME NEW i \in DOMAIN Frames, NEW k \in Unpacked(i), k > 1
  PROVE  k - 1 \in Unpacked(i)
<1> DEFINE ends == Frames[i].ends
<1>1. /\ ends \in Seq(Nat \ {0}) /\ Frames[i].size \in Nat /\ MINIMUM_SIZE \in Nat
      /\ k \in DOMAIN ends /\ ends[k] <= Frames[i].size /\ Frames[i].size <= MAX_PACKET_SIZE
      /\ left(i, k) > MINIMUM_SIZE
  BY FramesAre DEF Unpacked, Whole
<1>2. \A j \in DOMAIN ends : start(i, j) < ends[j]
  BY ChannelAssumption
<1> HIDE DEF ends
<1>3. k \in Nat /\ k - 1 \in DOMAIN ends /\ ends[k] \in Nat /\ ends[k - 1] \in Nat
  BY <1>1
<1>4. start(i, k) = ends[k - 1]
  BY DEF start, ends
<1>5. start(i, k - 1) \in Nat
  <2>1. CASE k - 1 = 1
    BY <2>1 DEF start
  <2>2. CASE k - 1 # 1
    <3>1. (k - 1) - 1 \in DOMAIN ends
      BY <1>1, <1>3, <2>2
    <3>2. start(i, k - 1) = ends[(k - 1) - 1]
      BY <2>2 DEF start, ends
    <3> QED BY <1>1, <3>1, <3>2
  <2> QED BY <2>1, <2>2
<1>6. start(i, k - 1) < ends[k - 1] /\ ends[k - 1] < ends[k]
  BY <1>1, <1>2, <1>3, <1>4
<1>7. left(i, k - 1) > MINIMUM_SIZE /\ ends[k - 1] <= Frames[i].size
  BY <1>1, <1>3, <1>4, <1>5, <1>6 DEF left
<1> QED BY <1>1, <1>3, <1>7 DEF Unpacked, Whole, ends

(* The packets sent are the first ones of the frame. *)
LEMMA UnpackedAre ==
  ASSUME NEW i \in DOMAIN Frames
  PROVE  \E n \in Nat : Unpacked(i) = 1 .. n
<1> DEFINE missing == {m \in Nat : m + 1 \notin Unpacked(i)}
<1>1. Unpacked(i) \subseteq 1 .. Len(Frames[i].ends) /\ Len(Frames[i].ends) \in Nat
  <2>1. Frames[i].ends \in Seq(Nat \ {0})
    BY FramesAre
  <2> QED BY <2>1 DEF Unpacked, Whole
<1>2. Len(Frames[i].ends) \in missing
  BY <1>1
<1>3. PICK n \in missing : \A m \in missing : n <= m
  BY <1>2, LeastNumber
<1>4. 1 .. n \subseteq Unpacked(i)
  <2> SUFFICES ASSUME NEW k \in 1 .. n, k \notin Unpacked(i) PROVE FALSE
    OBVIOUS
  <2>1. k - 1 \in missing /\ k - 1 < n
    OBVIOUS
  <2> QED BY <1>3, <2>1
<1> DEFINE after == {k \in Unpacked(i) : k > n}
<1>5. ASSUME after # {} PROVE FALSE
  <2>1. after \subseteq Nat
    BY <1>1
  <2>2. PICK k \in after : \A j \in after : k <= j
    <3> HIDE DEF after
    <3> QED BY <1>5, <2>1, LeastNumber
  <2>3. k \in Nat /\ n \in Nat /\ k > n + 1 /\ n + 1 \notin Unpacked(i)
    BY <2>1
  <2>4. k - 1 \in Unpacked(i)
    BY <2>3, UnpackedBefore
  <2>5. k - 1 \in after /\ k - 1 < k
    BY <2>3, <2>4
  <2> QED BY <2>2, <2>3, <2>5
<1>6. Unpacked(i) \subseteq 1 .. n
  BY <1>1, <1>5
<1> QED BY <1>4, <1>6

\* What SizeAt is for the first n frames
SizeBefore(f, i) == Frames[i].size + IF Frames[i].flag \in Later THEN f[i - 1] ELSE 0

\* Sizes of the segments of a prefix, and of all
LEMMA SizesExist ==
  ASSUME NEW n \in 0 .. Len(Frames)
  PROVE  \E f : f = [i \in 1 .. n |-> SizeBefore(f, i)]
<1> DEFINE Exists(m) == \E f : f = [i \in 1 .. m |-> SizeBefore(f, i)]
           Missing == {m \in 0 .. Len(Frames) : ~Exists(m)}
<1>1. Exists(0)
  <2> DEFINE f == [i \in 1 .. 0 |-> 0]
  <2>1. f = [i \in 1 .. 0 |-> SizeBefore(f, i)]
    OBVIOUS
  <2> HIDE DEF f
  <2> QED BY <2>1
<1>2. ASSUME NEW m \in Nat, Exists(m), m + 1 <= Len(Frames)
      PROVE  Exists(m + 1)
  <2>1. PICK f : f = [i \in 1 .. m |-> SizeBefore(f, i)]
    BY <1>2
  <2> DEFINE g == [i \in 1 .. m + 1 |-> IF i <= m THEN f[i] ELSE SizeBefore(f, i)]
  <2>2. ASSUME NEW i \in 1 .. m + 1 PROVE SizeBefore(g, i) = SizeBefore(f, i)
    <3>1. CASE Frames[i].flag \in Later
      <4>1. i \in DOMAIN Frames /\ i > 1
        BY <1>2, <3>1, FramesAre
      <4>2. i - 1 \in 1 .. m + 1 /\ i - 1 <= m
        BY <4>1
      <4>3. g[i - 1] = f[i - 1]
        BY <4>2
      <4> HIDE DEF g
      <4> QED BY <4>3 DEF SizeBefore
    <3>2. CASE Frames[i].flag \notin Later
      BY <3>2 DEF SizeBefore
    <3> QED BY <3>1, <3>2
  <2>3. ASSUME NEW i \in 1 .. m + 1 PROVE g[i] = SizeBefore(f, i)
    <3>1. CASE i <= m
      <4>1. i \in 1 .. m
        BY <3>1
      <4>2. f[i] = SizeBefore(f, i)
        BY <2>1, <4>1
      <4> QED BY <3>1, <4>2
    <3>2. CASE ~(i <= m)
      BY <3>2
    <3> QED BY <3>1, <3>2
  <2>4. g = [i \in 1 .. m + 1 |-> SizeBefore(g, i)]
    <3>1. \A i \in 1 .. m + 1 : g[i] = SizeBefore(g, i)
      BY <2>2, <2>3
    <3>2. DOMAIN g = 1 .. m + 1 /\ g = [i \in 1 .. m + 1 |-> g[i]]
      OBVIOUS
    <3> HIDE DEF g
    <3> QED BY <3>1, <3>2
  <2> HIDE DEF g
  <2> QED BY <2>4
<1>3. Len(Frames) \in Nat
  BY FramesAre
<1>4. Missing = {}
  <2> SUFFICES ASSUME Missing # {} PROVE FALSE
    OBVIOUS
  <2>1. Missing \subseteq Nat
    BY <1>3
  <2>2. PICK m \in Missing : \A k \in Missing : m <= k
    <3> HIDE DEF Missing
    <3> QED BY <2>1, LeastNumber
  <2> HIDE DEF Exists
  <2>3. m \in 0 .. Len(Frames) /\ ~Exists(m) /\ m # 0
    BY <1>1, <2>2
  <2>4. m - 1 \in Nat /\ m - 1 \in 0 .. Len(Frames) /\ (m - 1) + 1 = m /\ ~(m <= m - 1)
    BY <1>3, <2>3
  <2>5. Exists(m - 1)
    BY <2>2, <2>4
  <2>6. Exists((m - 1) + 1)
    BY <1>2, <1>3, <2>3, <2>4, <2>5
  <2> QED BY <2>3, <2>4, <2>6
<1> HIDE DEF Exists
<1>5. Exists(n)
  BY <1>4
<1> QED BY <1>5 DEF Exists

\* What SizeAt is at a frame
LEMMA SizeIs ==
  ASSUME NEW i \in DOMAIN Frames
  PROVE  SizeAt[i] = Frames[i].size + IF Frames[i].flag \in Later THEN SizeAt[i - 1] ELSE 0
<1>1. \E f : f = [j \in DOMAIN Frames |-> SizeBefore(f, j)]
  <2>1. Len(Frames) \in 0 .. Len(Frames) /\ DOMAIN Frames = 1 .. Len(Frames)
    BY FramesAre
  <2> QED BY <2>1, SizesExist
<1>2. SizeAt = CHOOSE f : f = [j \in DOMAIN Frames |-> SizeBefore(f, j)]
  BY Zenon DEF SizeAt, SizeBefore, Later
<1>3. SizeAt = [j \in DOMAIN Frames |-> SizeBefore(SizeAt, j)]
  BY <1>1, <1>2, Zenon
<1>4. SizeAt[i] = SizeBefore(SizeAt, i)
  BY <1>3, Zenon
<1> QED BY <1>4 DEF SizeBefore

\* The size of a packet grows with each of its segments
LEMMA SizesGrow ==
  ASSUME NEW i \in DOMAIN Frames
  PROVE  /\ SizeAt[i] \in Nat
         /\ Frames[i].flag \in Later
              => /\ i - 1 \in DOMAIN Frames
                 /\ SizeAt[i - 1] \in Nat /\ SizeAt[i - 1] < SizeAt[i]
                 /\ SizeAt[i] = SizeAt[i - 1] + Frames[i].size
         /\ Frames[i].flag \notin Later => SizeAt[i] = Frames[i].size
<1> DEFINE Odd == {j \in DOMAIN Frames : SizeAt[j] \notin Nat}
<1>1. ASSUME NEW j \in DOMAIN Frames, Frames[j].flag \in Later
      PROVE  j \in Nat /\ j - 1 \in DOMAIN Frames /\ j - 1 < j
  BY <1>1, FramesAre
<1>2. ASSUME NEW j \in DOMAIN Frames
      PROVE  /\ Frames[j].size \in Nat /\ Frames[j].size >= 1
             /\ Frames[j].flag \in Later => SizeAt[j] = Frames[j].size + SizeAt[j - 1]
             /\ Frames[j].flag \notin Later => SizeAt[j] = Frames[j].size
  <2>1. Frames[j].size \in Nat /\ Frames[j].size >= 1
    BY FramesAre
  <2>2. SizeAt[j] = Frames[j].size + IF Frames[j].flag \in Later THEN SizeAt[j - 1] ELSE 0
    BY SizeIs
  <2> QED BY <2>1, <2>2
<1>3. Odd = {}
  <2> SUFFICES ASSUME Odd # {} PROVE FALSE
    OBVIOUS
  <2>1. Odd \subseteq Nat
    BY FramesAre
  <2>2. PICK j \in Odd : \A k \in Odd : j <= k
    <3> HIDE DEF Odd
    <3> QED BY <2>1, LeastNumber
  <2>3. Frames[j].flag \in Later
    BY <1>2, <2>2
  <2>4. j \in Nat /\ j - 1 \in DOMAIN Frames /\ j - 1 < j
    BY <1>1, <2>2, <2>3
  <2>5. SizeAt[j - 1] \in Nat
    BY <2>2, <2>4
  <2> QED BY <1>2, <2>2, <2>3, <2>5
<1>4. SizeAt[i] \in Nat
  BY <1>3
<1>5. ASSUME Frames[i].flag \in Later
      PROVE  /\ i - 1 \in DOMAIN Frames
             /\ SizeAt[i - 1] \in Nat /\ SizeAt[i - 1] < SizeAt[i]
             /\ SizeAt[i] = SizeAt[i - 1] + Frames[i].size
  <2>1. i - 1 \in DOMAIN Frames /\ SizeAt[i] = Frames[i].size + SizeAt[i - 1]
    BY <1>1, <1>2, <1>5
  <2>2. SizeAt[i - 1] \in Nat
    BY <1>3, <2>1
  <2> HIDE DEF Odd
  <2> QED BY <1>2, <2>1, <2>2
<1> QED BY <1>2, <1>4, <1>5

-----------------------------------------------------------------------------
(***************************************************************************)
(* Pieces of packets.                                                      *)
(***************************************************************************)
Packet == Seq(Nat \X Nat)

\* Sequences are equal if their elements are
LEMMA SameSequence ==
  ASSUME NEW S, NEW s \in Seq(S), NEW t \in Seq(S), NEW n \in Nat, Len(s) = n, Len(t) = n,
         \A j \in 1 .. n : s[j] = t[j]
  PROVE  s = t
  OBVIOUS

\* One piece of each segment
LEMMA PiecesAre ==
  ASSUME NEW f \in Nat, NEW e \in Nat, f <= e + 1
  PROVE  /\ Pieces(f, e) \in Packet /\ Len(Pieces(f, e)) = e - f + 1
         /\ \A j \in 1 .. e - f + 1 : Pieces(f, e)[j] = <<f + j - 1, 1>>
         /\ f <= e => Ending(Pieces(f, e)) = <<e, 1>>
<1> DEFINE p == Pieces(f, e)
<1>1. e - f + 1 \in Nat /\ DOMAIN p = 1 .. e - f + 1
  BY DEF Pieces
<1>2. ASSUME NEW j \in 1 .. e - f + 1 PROVE p[j] = <<f + j - 1, 1>> /\ p[j] \in Nat \X Nat
  BY DEF Pieces
<1>3. p = [j \in 1 .. e - f + 1 |-> p[j]]
  BY DEF Pieces
<1> HIDE DEF p
<1>4. p \in Seq(Nat \X Nat) /\ Len(p) = e - f + 1
  <2> DEFINE n == e - f + 1
  <2>1. n \in Nat /\ p \in [1 .. n -> Nat \X Nat]
    BY <1>1, <1>2, <1>3
  <2> HIDE DEF n
  <2>2. p \in Seq(Nat \X Nat) /\ Len(p) = n
    BY <2>1
  <2> QED BY <2>2 DEF n
<1>5. ASSUME f <= e PROVE p[Len(p)] = <<e, 1>>
  <2>1. Len(p) \in 1 .. e - f + 1 /\ f + Len(p) - 1 = e
    BY <1>4, <1>5
  <2> QED BY <1>2, <2>1
<1> QED BY <1>2, <1>4, <1>5 DEF p, Packet, Ending

\* A further segment
LEMMA Extended ==
  ASSUME NEW k \in Nat, NEW i \in Nat, k <= i + 1
  PROVE  /\ Append(Pieces(k, i), <<i + 1, 1>>) = Pieces(k, i + 1)
         /\ << >> = Pieces(i + 1, i)
<1>1. /\ Pieces(k, i) \in Packet /\ Len(Pieces(k, i)) = i - k + 1
      /\ \A j \in 1 .. i - k + 1 : Pieces(k, i)[j] = <<k + j - 1, 1>>
  BY PiecesAre
<1>2. /\ Pieces(k, i + 1) \in Packet /\ Len(Pieces(k, i + 1)) = i - k + 2
      /\ \A j \in 1 .. i - k + 2 : Pieces(k, i + 1)[j] = <<k + j - 1, 1>>
  <2>1. i + 1 \in Nat /\ k <= (i + 1) + 1 /\ (i + 1) - k + 1 = i - k + 2
    OBVIOUS
  <2> QED BY <2>1, PiecesAre
<1> DEFINE p == Pieces(k, i)
           q == Pieces(k, i + 1)
           s == Append(p, <<i + 1, 1>>)
<1> HIDE DEF p, q
<1>3. /\ s \in Packet /\ Len(s) = i - k + 2 /\ s[i - k + 2] = <<i + 1, 1>>
      /\ \A j \in 1 .. i - k + 1 : s[j] = <<k + j - 1, 1>>
  BY <1>1 DEF p, Packet
<1>4. q[i - k + 2] = <<i + 1, 1>>
  <2>1. i - k + 2 \in 1 .. i - k + 2 /\ k + (i - k + 2) - 1 = i + 1
    OBVIOUS
  <2> QED BY <1>2, <2>1 DEF q
<1>5. \A j \in 1 .. i - k + 2 : s[j] = q[j]
  <2> HIDE DEF s
  <2>1. ASSUME NEW j \in 1 .. i - k + 2 PROVE s[j] = q[j]
    <3>1. CASE j = i - k + 2
      BY <3>1, <1>3, <1>4
    <3>2. CASE j # i - k + 2
      <4>1. j \in 1 .. i - k + 1
        BY <3>2
      <4> QED BY <4>1, <1>2, <1>3 DEF q
    <3> QED BY <3>1, <3>2
  <2> QED BY <2>1
<1>6. s = q
  <2> HIDE DEF s
  <2>1. q \in Packet /\ Len(q) = i - k + 2
    BY <1>2 DEF q
  <2>2. i - k + 2 \in Nat
    OBVIOUS
  <2> QED BY <1>3, <1>5, <2>1, <2>2, SameSequence DEF Packet
<1>7. << >> = Pieces(i + 1, i)
  <2>1. i + 1 \in Nat /\ i - (i + 1) + 1 = 0 /\ i + 1 <= i + 1
    OBVIOUS
  <2>2. Pieces(i + 1, i) \in Seq(Nat \X Nat) /\ Len(Pieces(i + 1, i)) = 0
    BY <2>1, PiecesAre DEF Packet
  <2> QED BY <2>2
<1> QED BY <1>6, <1>7 DEF p, q

\* Without its first pieces it is a rest
LEMMA RestOf ==
  ASSUME NEW f \in Nat, NEW e \in Nat, NEW k \in Nat, f < k, k <= e
  PROVE  Pieces(k, e) \in Rests(Pieces(f, e))
<1>0. f <= e + 1 /\ k <= e + 1
  OBVIOUS
<1> DEFINE q == Pieces(f, e)
           p == Pieces(k, e)
           n == k - f + 1
<1>1. /\ q \in Packet /\ Len(q) = e - f + 1
      /\ \A j \in 1 .. e - f + 1 : q[j] = <<f + j - 1, 1>>
  BY <1>0, PiecesAre
<1>2. /\ p \in Packet /\ Len(p) = e - k + 1
      /\ \A j \in 1 .. e - k + 1 : p[j] = <<k + j - 1, 1>>
  BY <1>0, PiecesAre
<1>3. n \in 2 .. e - f + 1
  OBVIOUS
<1> HIDE DEF p, q
<1>4. SubSeq(q, n, Len(q)) = p
  <2> DEFINE r == SubSeq(q, n, Len(q))
  <2>1. r \in Seq(Nat \X Nat) /\ Len(r) = e - k + 1
    BY <1>1, <1>3 DEF Packet
  <2>2. ASSUME NEW j \in 1 .. e - k + 1 PROVE r[j] = p[j]
    <3>1. r[j] = q[n + j - 1]
      <4> HIDE DEF n
      <4>1. j \in 1 .. Len(q) - n + 1 /\ n \in 1 .. Len(q) + 1
        BY <1>1, <1>3 DEF n
      <4> QED BY <1>1, <4>1 DEF Packet
    <3>2. n + j - 1 \in 1 .. e - f + 1 /\ f + (n + j - 1) - 1 = k + j - 1
      OBVIOUS
    <3> HIDE DEF r, n
    <3> QED BY <1>1, <1>2, <3>1, <3>2
  <2> HIDE DEF r
  <2>3. r = p
    BY <1>2, <2>1, <2>2, SameSequence DEF Packet
  <2> QED BY <2>3 DEF r
<1>5. p \in {SubSeq(q, j, Len(q)) : j \in 2 .. Len(q)}
  BY <1>1, <1>3, <1>4
<1> QED BY <1>5 DEF Rests, p, q

\* The end of a sequence
LEMMA Suffix ==
  ASSUME NEW S, NEW q \in Seq(S), NEW k \in 1 .. Len(q)
  PROVE  /\ SubSeq(q, k, Len(q)) \in Seq(S)
         /\ Len(SubSeq(q, k, Len(q))) = Len(q) - k + 1
         /\ \A j \in 1 .. Len(q) - k + 1 : SubSeq(q, k, Len(q))[j] = q[k + j - 1]
<1>1. Len(q) \in Nat /\ k \in 1 .. Len(q) + 1 /\ k <= Len(q)
  OBVIOUS
<1>2. SubSeq(q, k, Len(q)) \in Seq(S)
  BY <1>1
<1>3. Len(SubSeq(q, k, Len(q))) = Len(q) - k + 1
  BY <1>1
<1>4. \A j \in 1 .. Len(q) - k + 1 : SubSeq(q, k, Len(q))[j] = q[k + j - 1]
  BY <1>1
<1> QED BY <1>2, <1>3, <1>4

\* A rest ends as the packet does
LEMMA RestsAre ==
  ASSUME NEW q \in Packet, NEW p \in Rests(q)
  PROVE  p \in Packet /\ Len(p) >= 1 /\ Ending(p) = Ending(q)
<1>1. PICK k \in 2 .. Len(q) : p = SubSeq(q, k, Len(q))
  BY DEF Rests
<1>2. Len(q) \in Nat /\ k \in 1 .. Len(q)
  BY DEF Packet
<1>3. /\ p \in Packet /\ Len(p) = Len(q) - k + 1
      /\ \A j \in 1 .. Len(q) - k + 1 : p[j] = q[k + j - 1]
  BY <1>1, <1>2, Suffix DEF Packet
<1>4. Len(p) \in 1 .. Len(q) - k + 1 /\ k + Len(p) - 1 = Len(q)
  BY <1>2, <1>3
<1>5. p[Len(p)] = q[Len(q)]
  BY <1>3, <1>4
<1> QED BY <1>3, <1>4, <1>5 DEF Ending

\* A whole packet ends with the frame that completes it, and begins before
LEMMA CompletedAre ==
  ASSUME NEW i \in DOMAIN Frames, NEW q \in CompletedBy(i)
  PROVE  /\ q \in Packet /\ Len(q) >= 1 /\ Ending(q) \in Nat \X Nat /\ Ending(q)[1] = i
         /\ \A k \in 1 .. Len(q) - 1 : q[k][1] \in 1 .. i - 1
<1>1. i \in Nat /\ i >= 1 /\ Whole(i) \subseteq Nat
  <2>1. Frames[i].ends \in Seq(Nat \ {0})
    BY FramesAre
  <2> QED BY <2>1, FramesAre DEF Whole
<1>2. CASE Frames[i].flag = "NO_SEGMENTATION"
  <2>1. PICK k \in Whole(i) : q = << <<i, k>> >>
    BY <1>2 DEF CompletedBy
  <2>2. <<i, k>> \in Nat \X Nat
    BY <1>1
  <2>3. q \in Seq(Nat \X Nat) /\ Len(q) = 1 /\ q[1] = <<i, k>>
    BY <2>1, <2>2
  <2> QED BY <2>2, <2>3 DEF Packet, Ending
<1>3. CASE Frames[i].flag = "LAST_PORTION"
  <2>1. PICK f \in 1 .. i - 1 : q = Pieces(f, i)
    BY <1>3 DEF CompletedBy
  <2>2. f \in Nat /\ f <= i /\ f <= i + 1
    BY <1>1
  <2>3. /\ q \in Packet /\ Len(q) = i - f + 1 /\ Ending(q) = <<i, 1>>
        /\ \A j \in 1 .. i - f + 1 : q[j] = <<f + j - 1, 1>>
    BY <1>1, <2>1, <2>2, PiecesAre
  <2>4. \A j \in 1 .. Len(q) - 1 : q[j][1] = f + j - 1 /\ f + j - 1 \in 1 .. i - 1
    BY <1>1, <2>2, <2>3
  <2> QED BY <1>1, <2>2, <2>3, <2>4
<1>4. CASE Frames[i].flag \notin {"NO_SEGMENTATION", "LAST_PORTION"}
  BY <1>4 DEF CompletedBy
<1> QED BY <1>2, <1>3, <1>4

\* Each frame adds the packets it completes
LEMMA PacketsAre ==
  ASSUME NEW n \in Nat
  PROVE  /\ \A q : q \in PacketsIn(n) <=> \E i \in 1 .. n : q \in CompletedBy(i)
         /\ PacketsIn(n + 1) = PacketsIn(n) \union CompletedBy(n + 1)
<1>1. \A m \in Nat : \A q : q \in PacketsIn(m) <=> \E i \in 1 .. m : q \in CompletedBy(i)
  BY Zenon DEF PacketsIn
<1>2. \A q : (\E i \in 1 .. n + 1 : q \in CompletedBy(i))
          <=> (\E i \in 1 .. n : q \in CompletedBy(i)) \/ q \in CompletedBy(n + 1)
  OBVIOUS
<1>3. \A q : q \in PacketsIn(n + 1) <=> q \in PacketsIn(n) \/ q \in CompletedBy(n + 1)
  <2>1. n + 1 \in Nat
    OBVIOUS
  <2> QED BY <1>1, <1>2, <2>1, Zenon
<1> QED BY <1>1, <1>3

-----------------------------------------------------------------------------
(***************************************************************************)
(* What is delivered.                                                      *)
(***************************************************************************)
Ordered(s) == \A j, k \in DOMAIN s :
                j < k /\ s[j] # BypassPacket /\ s[k] # BypassPacket => Before(s[j], s[k])

\* What is appended to packets in order
LEMMA Joined ==
  ASSUME NEW d \in Seq(Packet), NEW s \in Seq(Packet)
  PROVE  /\ d \o s \in Seq(Packet)
         /\ Elements(d \o s) = Elements(d) \union Elements(s)
         /\ /\ Ordered(d) /\ Ordered(s)
            /\ \A p \in Elements(d) \ {BypassPacket}, q \in Elements(s) \ {BypassPacket} : Before(p, q)
            => Ordered(d \o s)
<1> DEFINE t == d \o s
<1>1. /\ t \in Seq(Packet) /\ Len(d) \in Nat /\ Len(s) \in Nat /\ Len(t) = Len(d) + Len(s)
      /\ DOMAIN d = 1 .. Len(d) /\ DOMAIN s = 1 .. Len(s) /\ DOMAIN t = 1 .. Len(t)
  OBVIOUS
<1>2. ASSUME NEW j \in 1 .. Len(d) PROVE j \in DOMAIN t /\ t[j] = d[j]
  BY <1>1
<1>3. ASSUME NEW j \in 1 .. Len(s) PROVE Len(d) + j \in DOMAIN t /\ t[Len(d) + j] = s[j]
  BY <1>1
<1> HIDE DEF t
<1>4. ASSUME NEW k \in DOMAIN t
      PROVE  \/ k \in 1 .. Len(d) /\ t[k] = d[k]
             \/ k - Len(d) \in 1 .. Len(s) /\ t[k] = s[k - Len(d)]
  <2>1. CASE k <= Len(d)
    BY <1>1, <1>2, <2>1
  <2>2. CASE ~(k <= Len(d))
    <3>1. k - Len(d) \in 1 .. Len(s) /\ Len(d) + (k - Len(d)) = k
      BY <1>1, <2>2
    <3> QED BY <1>3, <3>1
  <2> QED BY <2>1, <2>2
<1>5. Elements(t) = Elements(d) \union Elements(s)
  <2>1. ASSUME NEW x \in Elements(t) PROVE x \in Elements(d) \union Elements(s)
    <3>1. PICK k \in DOMAIN t : x = t[k]
      BY DEF Elements
    <3> QED BY <1>1, <1>4, <3>1 DEF Elements
  <2>2. ASSUME NEW x \in Elements(d) PROVE x \in Elements(t)
    <3>1. PICK k \in 1 .. Len(d) : x = d[k]
      BY <1>1 DEF Elements
    <3> QED BY <1>2, <3>1 DEF Elements
  <2>3. ASSUME NEW x \in Elements(s) PROVE x \in Elements(t)
    <3>1. PICK k \in 1 .. Len(s) : x = s[k]
      BY <1>1 DEF Elements
    <3> QED BY <1>3, <3>1 DEF Elements
  <2> QED BY <2>1, <2>2, <2>3
<1>6. ASSUME Ordered(d), Ordered(s),
             \A p \in Elements(d) \ {BypassPacket}, q \in Elements(s) \ {BypassPacket} : Before(p, q)
      PROVE  Ordered(t)
  <2> SUFFICES ASSUME NEW j \in DOMAIN t, NEW k \in DOMAIN t,
                      j < k, t[j] # BypassPacket, t[k] # BypassPacket
               PROVE  Before(t[j], t[k])
    BY DEF Ordered
  <2>1. CASE k \in 1 .. Len(d) /\ t[k] = d[k]
    <3>1. j \in 1 .. Len(d) /\ t[j] = d[j]
      BY <1>1, <1>4, <2>1
    <3> QED BY <1>1, <1>6, <2>1, <3>1 DEF Ordered
  <2>2. CASE k - Len(d) \in 1 .. Len(s) /\ t[k] = s[k - Len(d)]
    <3>1. CASE j \in 1 .. Len(d) /\ t[j] = d[j]
      <4>1. t[j] \in Elements(d) /\ t[k] \in Elements(s)
        BY <1>1, <2>2, <3>1 DEF Elements
      <4> QED BY <1>6, <4>1
    <3>2. CASE j - Len(d) \in 1 .. Len(s) /\ t[j] = s[j - Len(d)]
      <4>1. j - Len(d) < k - Len(d)
        BY <1>1
      <4> QED BY <1>1, <1>6, <2>2, <3>2, <4>1 DEF Ordered
    <3> QED BY <1>4, <3>1, <3>2
  <2> QED BY <1>4, <2>1, <2>2
<1> QED BY <1>1, <1>5, <1>6 DEF t

\* What goes out when packets are sent: some of them, in their order; the
\* others are lost
LEMMA Sending ==
  ASSUME NEW packets \in Seq(Packet), SendCompletePackets(packets)
  PROVE  /\ lost \subseteq lost'
         /\ \E s \in Seq(Packet) : \E kept :
              /\ delivered' = delivered \o s
              /\ Elements(packets) \subseteq Elements(s) \union lost'
              /\ \A k \in DOMAIN s : /\ kept[k] \in DOMAIN packets /\ s[k] = packets[kept[k]]
                                     /\ \A j \in DOMAIN s : j < k => kept[j] < kept[k]
<1>1. PICK n \in 0 .. Len(packets) : \E kept \in [1 .. n -> DOMAIN packets] :
        LET refused == {packets[k] : k \in DOMAIN packets \ {kept[j] : j \in 1 .. n}}
        IN  /\ \A k \in 1 .. n : \A j \in 1 .. k - 1 : kept[j] < kept[k]
            /\ Cardinality(lost) + Cardinality(refused) <= Refusals
            /\ delivered' = delivered \o [k \in 1 .. n |-> packets[kept[k]]]
            /\ lost' = lost \union refused
  BY Zenon DEF SendCompletePackets
<1>2. PICK kept \in [1 .. n -> DOMAIN packets] :
        /\ \A k \in 1 .. n : \A j \in 1 .. k - 1 : kept[j] < kept[k]
        /\ delivered' = delivered \o [k \in 1 .. n |-> packets[kept[k]]]
        /\ lost' = lost \union {packets[k] : k \in DOMAIN packets \ {kept[j] : j \in 1 .. n}}
  BY <1>1, Zenon
<1> DEFINE s == [k \in 1 .. n |-> packets[kept[k]]]
<1>3. /\ n \in Nat /\ DOMAIN s = 1 .. n
      /\ \A k \in 1 .. n : kept[k] \in DOMAIN packets /\ s[k] = packets[kept[k]]
      /\ \A k \in DOMAIN packets : packets[k] \in Packet
  BY <1>2
<1>4. s \in Seq(Packet)
  BY <1>3
<1>5. delivered' = delivered \o s
  BY <1>2
<1> HIDE DEF s
<1>6. ASSUME NEW k \in DOMAIN packets PROVE packets[k] \in Elements(s) \union lost'
  <2>1. CASE k \in {kept[j] : j \in 1 .. n}
    BY <1>3, <2>1 DEF Elements
  <2>2. CASE k \notin {kept[j] : j \in 1 .. n}
    BY <1>2, <2>2
  <2> QED BY <2>1, <2>2
<1>7. Elements(packets) \subseteq Elements(s) \union lost'
  BY <1>6 DEF Elements
<1>8. \A k \in DOMAIN s : /\ kept[k] \in DOMAIN packets /\ s[k] = packets[kept[k]]
                          /\ \A j \in DOMAIN s : j < k => kept[j] < kept[k]
  <2>1. ASSUME NEW k \in 1 .. n, NEW j \in 1 .. n, j < k PROVE kept[j] < kept[k]
    <3>1. j \in 1 .. k - 1
      BY <1>3, <2>1
    <3> QED BY <1>2, <3>1
  <2> QED BY <1>3, <2>1
<1> QED BY <1>2, <1>4, <1>5, <1>7, <1>8

-----------------------------------------------------------------------------
(***************************************************************************)
(* The inductive invariant: the buffer holds the last segments of the      *)
(* packet that is being received, from its first one unless it is too      *)
(* large or was interrupted.                                               *)
(***************************************************************************)
Broken(f, i) == SizeAt[i] > MAX_PACKET_SIZE \/ \E j \in f .. i : j \in spoilt

Buffered ==
  received > 0 /\ Frames[received].flag \in Unfinished =>
    \E f \in 1 .. received :
      /\ Begun(f, received)
      /\ IF lastSegmentationFlag \in Unfinished
         THEN \E k \in f .. received + 1 :
                /\ packetBuffer = Pieces(k, received)
                /\ IF k = f THEN packetLength = SizeAt[received]
                   ELSE packetLength \in Nat /\ Broken(f, received)
         ELSE received \in spoilt

OwnFrames ==
  /\ received \in 0 .. Len(Frames)
  /\ uplink \in Seq(Frame)
  /\ \A k \in 1 .. Len(uplink) : uplink[k].type = "AD" => uplink[k].i \in DOMAIN Frames

Complete == \A p \in PacketsIn(received) : Sound(p) => p \in Elements(delivered) \union lost
FromPacket(p, n) == \E q \in PacketsIn(n) : p = q \/ (~Sound(q) /\ p \in Rests(q))
Genuine == \A p \in Elements(delivered) \ {BypassPacket} : FromPacket(p, received)

PacketInv == /\ OwnFrames /\ delivered \in Seq(Packet) /\ Buffered
             /\ Complete /\ Genuine /\ Ordered(delivered)

-----------------------------------------------------------------------------
(***************************************************************************)
(* A frame is accepted.                                                    *)
(***************************************************************************)
\* What comes from frames ends with them
LEMMA EndsThere ==
  ASSUME NEW n \in 0 .. Len(Frames), NEW p, FromPacket(p, n)
  PROVE  p \in Packet /\ Ending(p)[1] \in 1 .. n
<1>1. PICK q \in PacketsIn(n) : p = q \/ p \in Rests(q)
  BY DEF FromPacket
<1>2. n \in Nat /\ 1 .. n \subseteq DOMAIN Frames
  BY FramesAre
<1>3. PICK i \in 1 .. n : q \in CompletedBy(i)
  BY <1>1, <1>2, PacketsAre
<1>4. q \in Packet /\ Ending(q)[1] = i
  BY <1>2, <1>3, CompletedAre
<1>5. p \in Packet /\ Ending(p) = Ending(q)
  BY <1>1, <1>4, RestsAre
<1> QED BY <1>4, <1>5

\* Packets of the frame, or rests of them, are sent in their order
LEMMA Grows ==
  ASSUME PacketInv, received + 1 \in DOMAIN Frames, received' = received + 1, spoilt' = spoilt,
         lost \subseteq lost', NEW s \in Seq(Packet), delivered' = delivered \o s, Ordered(s),
         \A p \in Elements(s) : \E q \in CompletedBy(received + 1) :
            p = q \/ (~Sound(q) /\ p \in Rests(q)),
         \A q \in CompletedBy(received + 1) : Sound(q) => q \in Elements(s) \union lost'
  PROVE  delivered' \in Seq(Packet) /\ Complete' /\ Genuine' /\ Ordered(delivered)'
<1> DEFINE r == received
<1>1. r \in Nat /\ r \in 0 .. Len(Frames) /\ r + 1 \in 0 .. Len(Frames) /\ delivered \in Seq(Packet)
  BY FramesAre DEF PacketInv, OwnFrames
<1>2. PacketsIn(received)' = PacketsIn(r) \union CompletedBy(r + 1)
  <2>1. PacketsIn(r + 1) = PacketsIn(r) \union CompletedBy(r + 1)
    BY <1>1, PacketsAre
  <2>2. PacketsIn(received)' = PacketsIn(r + 1)
    BY DEF PacketsIn, CompletedBy, Begun, Pieces
  <2> QED BY <2>1, <2>2
<1>3. \A q : Sound(q)' <=> Sound(q)
  BY DEF Sound, Ending, SizeAt
<1>4. delivered' \in Seq(Packet) /\ Elements(delivered)' = Elements(delivered) \union Elements(s)
  <2>1. delivered \o s \in Seq(Packet)
        /\ Elements(delivered \o s) = Elements(delivered) \union Elements(s)
    BY <1>1, Joined
  <2> QED BY <2>1 DEF Elements
<1>5. Complete'
  <2> SUFFICES ASSUME NEW p \in PacketsIn(received)', Sound(p)
               PROVE  p \in Elements(delivered)' \union lost'
    BY <1>3 DEF Complete
  <2>1. CASE p \in PacketsIn(r)
    BY <2>1, <1>4 DEF PacketInv, Complete
  <2>2. CASE p \in CompletedBy(r + 1)
    BY <2>2, <1>4
  <2> QED BY <1>2, <2>1, <2>2
<1>6. ASSUME NEW p \in Elements(s) PROVE FromPacket(p, r + 1)
  <2>1. PICK q \in CompletedBy(r + 1) : p = q \/ (~Sound(q) /\ p \in Rests(q))
    BY <1>6
  <2>2. q \in PacketsIn(r + 1)
    BY <1>1, PacketsAre
  <2> QED BY <2>1, <2>2 DEF FromPacket
<1>7. \A p \in Elements(s) : p \in Packet /\ Ending(p)[1] = r + 1
  <2> SUFFICES ASSUME NEW p \in Elements(s) PROVE p \in Packet /\ Ending(p)[1] = r + 1
    OBVIOUS
  <2>1. PICK q \in CompletedBy(r + 1) : p = q \/ p \in Rests(q)
    OBVIOUS
  <2>2. q \in Packet /\ Ending(q)[1] = r + 1
    BY CompletedAre
  <2> QED BY <2>1, <2>2, RestsAre
<1>8. Genuine'
  <2> SUFFICES ASSUME NEW p \in Elements(delivered)', p # BypassPacket
               PROVE  \E q \in PacketsIn(received)' : p = q \/ (~Sound(q) /\ p \in Rests(q))
    BY <1>3 DEF Genuine, FromPacket, BypassPacket, Rests
  <2>1. CASE p \in Elements(delivered)
    BY <2>1, <1>2 DEF PacketInv, Genuine, FromPacket
  <2>2. CASE p \in Elements(s)
    BY <2>2, <1>2
  <2> QED BY <1>4, <2>1, <2>2
<1>9. \A p \in Elements(delivered) \ {BypassPacket}, q \in Elements(s) \ {BypassPacket} : Before(p, q)
  <2> SUFFICES ASSUME NEW p \in Elements(delivered) \ {BypassPacket},
                      NEW q \in Elements(s) \ {BypassPacket}
               PROVE  Before(p, q)
    OBVIOUS
  <2>1. Ending(p)[1] \in 1 .. r
    BY <1>1, EndsThere DEF PacketInv, Genuine
  <2>2. Ending(q)[1] = r + 1
    BY <1>7
  <2> QED BY <1>1, <2>1, <2>2 DEF Before
<1>10. Ordered(delivered)'
  <2>1. Ordered(delivered \o s)
    BY <1>1, <1>9, Joined DEF PacketInv
  <2>2. Ordered(delivered)' <=> Ordered(delivered \o s)
    BY DEF Ordered, BypassPacket, Before, Ending
  <2> QED BY <2>1, <2>2
<1> QED BY <1>4, <1>5, <1>8, <1>10

\* The frame completes no packet that the buffer could hold
LEMMA GrowsNot ==
  ASSUME PacketInv, received + 1 \in DOMAIN Frames, received' = received + 1, spoilt' = spoilt,
         UNCHANGED <<delivered, lost>>,
         \A q \in CompletedBy(received + 1) : ~Sound(q)
  PROVE  delivered' \in Seq(Packet) /\ Complete' /\ Genuine' /\ Ordered(delivered)'
<1> DEFINE s == << >>
<1>1. s \in Seq(Packet) /\ DOMAIN s = {} /\ delivered' = delivered \o s
  BY DEF PacketInv
<1>2. Elements(s) = {} /\ Ordered(s)
  BY <1>1 DEF Elements, Ordered
<1> HIDE DEF s
<1>3. lost \subseteq lost'
  OBVIOUS
<1> QED BY <1>1, <1>2, <1>3, Grows

\* A packet in a frame that is not too large, and not left over, is sent
LEMMA SoundBlocked ==
  ASSUME NEW i \in DOMAIN Frames, Frames[i].flag = "NO_SEGMENTATION", NEW k \in Whole(i),
         Sound(<< <<i, k>> >>)
  PROVE  k \in Unpacked(i)
<1> DEFINE q == << <<i, k>> >>
<1>1. Ending(q) = <<i, k>> /\ Ending(q)[1] = i /\ Ending(q)[2] = k
  BY DEF Ending
<1>2. Sound(q)
  OBVIOUS
<1> HIDE DEF q
<1>3. SizeAt[i] <= MAX_PACKET_SIZE /\ ~(left(i, k) <= MINIMUM_SIZE)
  BY <1>1, <1>2 DEF Sound, Residual
<1>4. SizeAt[i] = Frames[i].size
  BY SizesGrow DEF Later
<1>5. left(i, k) \in Int
  <2>1. Frames[i].ends \in Seq(Nat \ {0}) /\ Frames[i].size \in Nat
    BY FramesAre
  <2>2. k \in DOMAIN Frames[i].ends
    BY DEF Whole
  <2>3. start(i, k) \in Nat
    <3>1. CASE k = 1
      BY <3>1 DEF start
    <3>2. CASE k # 1
      <4>1. k - 1 \in DOMAIN Frames[i].ends
        BY <2>1, <2>2, <3>2
      <4>2. Frames[i].ends[k - 1] \in Nat
        BY <2>1, <4>1
      <4> QED BY <3>2, <4>2 DEF start
    <3> QED BY <3>1, <3>2
  <2> QED BY <2>1, <2>3 DEF left
<1>6. left(i, k) > MINIMUM_SIZE
  BY <1>3, <1>5, FramesAre
<1> QED BY <1>3, <1>4, <1>6 DEF Unpacked

\* Packets of one frame
LEMMA AcceptWhole ==
  ASSUME PacketInv, NEW i \in DOMAIN Frames, i = received + 1, received' = i, spoilt' = spoilt,
         extractPackets(i), Frames[i].flag = "NO_SEGMENTATION"
  PROVE  /\ delivered' \in Seq(Packet) /\ Complete' /\ Genuine' /\ Ordered(delivered)'
         /\ Buffered'
<1> DEFINE packets == unpackBlockingPackets(i)
<1>0. PICK n \in Nat : Unpacked(i) = 1 .. n
  BY UnpackedAre
<1>1. n \in Nat /\ i \in Nat /\ i >= 1
  BY FramesAre
<1>2. /\ DOMAIN packets = 1 .. n
      /\ \A k \in 1 .. n : packets[k] = << <<i, k>> >> /\ packets[k] \in Packet
  <2>1. ASSUME NEW k \in 1 .. n PROVE << <<i, k>> >> \in Packet
    <3>1. <<i, k>> \in Nat \X Nat
      BY <1>1
    <3> QED BY <3>1 DEF Packet
  <2>2. packets = [k \in 1 .. n |-> << <<i, k>> >>]
    BY <1>0 DEF unpackBlockingPackets, Unpacked
  <2> QED BY <2>1, <2>2
<1>3. packets = [k \in 1 .. n |-> packets[k]]
  BY <1>0 DEF unpackBlockingPackets, Unpacked
<1>4. SendCompletePackets(packets)
  BY DEF extractPackets
<1> HIDE DEF packets
<1>5. packets \in Seq(Packet)
  BY <1>1, <1>2, <1>3
<1>5a. PICK s \in Seq(Packet) : \E kept :
        /\ delivered' = delivered \o s
        /\ Elements(packets) \subseteq Elements(s) \union lost'
        /\ \A k \in DOMAIN s : /\ kept[k] \in DOMAIN packets /\ s[k] = packets[kept[k]]
                               /\ \A j \in DOMAIN s : j < k => kept[j] < kept[k]
  BY <1>4, <1>5, Sending
<1>6. PICK kept :
        /\ delivered' = delivered \o s
        /\ Elements(packets) \subseteq Elements(s) \union lost'
        /\ \A k \in DOMAIN s : /\ kept[k] \in DOMAIN packets /\ s[k] = packets[kept[k]]
                               /\ \A j \in DOMAIN s : j < k => kept[j] < kept[k]
  BY <1>5a
<1>7. lost \subseteq lost'
  BY <1>4, <1>5, Sending
<1>8. \A q : q \in CompletedBy(i) <=> \E k \in Whole(i) : q = << <<i, k>> >>
  BY Zenon DEF CompletedBy
<1>9. \A q \in CompletedBy(i) : Sound(q) => q \in Elements(s) \union lost'
  <2>1. ASSUME NEW q \in CompletedBy(i), Sound(q) PROVE q \in Elements(packets)
    <3>1. PICK k \in Whole(i) : q = << <<i, k>> >>
      BY <1>8
    <3>2. k \in Unpacked(i)
      BY <1>1, <2>1, <3>1, SoundBlocked
    <3> QED BY <1>0, <1>2, <3>1, <3>2 DEF Elements
  <2> QED BY <1>6, <2>1
<1>10. ASSUME NEW p \in Elements(s) PROVE p \in CompletedBy(i)
  <2>1. PICK k \in DOMAIN s : p = s[k]
    BY DEF Elements
  <2>2. kept[k] \in 1 .. n /\ p = packets[kept[k]]
    BY <1>2, <1>6, <2>1
  <2>3. kept[k] \in Whole(i)
    BY <1>0, <2>2 DEF Unpacked
  <2> QED BY <1>2, <1>8, <2>2, <2>3
<1>11. Ordered(s)
  <2> SUFFICES ASSUME NEW j \in DOMAIN s, NEW k \in DOMAIN s, j < k PROVE Before(s[j], s[k])
    BY DEF Ordered
  <2>1. PICK a \in 1 .. n, b \in 1 .. n : s[j] = << <<i, a>> >> /\ s[k] = << <<i, b>> >> /\ a < b
    <3>1. kept[j] \in 1 .. n /\ kept[k] \in 1 .. n /\ kept[j] < kept[k]
      BY <1>2, <1>6
    <3>2. /\ s[j] = packets[kept[j]] /\ packets[kept[j]] = << <<i, kept[j]>> >>
          /\ s[k] = packets[kept[k]] /\ packets[kept[k]] = << <<i, kept[k]>> >>
      BY <3>1, <1>2, <1>6
    <3> QED BY <3>1, <3>2
  <2>2. Ending(s[j]) = <<i, a>> /\ Ending(s[k]) = <<i, b>>
    BY <2>1 DEF Ending
  <2> QED BY <2>1, <2>2 DEF Before
<1>12. delivered' \in Seq(Packet) /\ Complete' /\ Genuine' /\ Ordered(delivered)'
  BY <1>6, <1>7, <1>9, <1>10, <1>11, Grows
<1>13. Buffered'
  BY DEF Buffered, Unfinished
<1> QED BY <1>12, <1>13

\* The first segment of a packet
LEMMA AcceptFirst ==
  ASSUME PacketInv, NEW i \in DOMAIN Frames, i = received + 1, received' = i, spoilt' = spoilt,
         extractPackets(i), Frames[i].flag = "FIRST_PORTION"
  PROVE  /\ delivered' \in Seq(Packet) /\ Complete' /\ Genuine' /\ Ordered(delivered)'
         /\ Buffered'
<1>1. i \in Nat /\ i >= 1 /\ MAX_PACKET_SIZE \in Nat /\ Frames[i].size \in Nat
  BY FramesAre
<1> DEFINE large == Frames[i].size > MAX_PACKET_SIZE
<1>2. Segment(i) /\ lastSegmentationFlag' = "FIRST_PORTION"
  BY DEF extractPackets
<1>3. /\ IF large THEN packetBuffer' = << >> /\ packetLength' = 0
         ELSE packetBuffer' = Append(<< >>, <<i, 1>>) /\ packetLength' = Frames[i].size
      /\ UNCHANGED <<delivered, lost>>
  <2>1. 0 + Frames[i].size = Frames[i].size
    BY <1>1
  <2> QED BY <1>2, <2>1 DEF Segment, clearBuffers
<1>4. Append(<< >>, <<i, 1>>) = Pieces(i, i) /\ << >> = Pieces(i + 1, i)
  <2>1. i - 1 \in Nat /\ (i - 1) + 1 = i /\ i <= (i - 1) + 1
    BY <1>1
  <2>2. Append(Pieces(i, i - 1), <<(i - 1) + 1, 1>>) = Pieces(i, (i - 1) + 1)
    BY <1>1, <2>1, Extended
  <2>3. << >> = Pieces((i - 1) + 1, i - 1)
    BY <1>1, <2>1, Extended
  <2>4. << >> = Pieces(i + 1, i)
    BY <1>1, Extended
  <2> QED BY <2>1, <2>2, <2>3, <2>4
<1>5. SizeAt[i] = Frames[i].size
  BY SizesGrow DEF Later
<1>6. CompletedBy(i) = {}
  BY DEF CompletedBy
<1>7. delivered' \in Seq(Packet) /\ Complete' /\ Genuine' /\ Ordered(delivered)'
  BY <1>3, <1>6, GrowsNot
<1>8. Begun(i, i)
  BY <1>1 DEF Begun
<1>9. i \in 1 .. i /\ lastSegmentationFlag' \in Unfinished
  BY <1>1, <1>2 DEF Unfinished
<1>10. \E k \in i .. i + 1 :
         /\ packetBuffer' = Pieces(k, i)'
         /\ IF k = i THEN packetLength' = SizeAt[i]
            ELSE packetLength' \in Nat /\ Broken(i, i)'
  <2>1. CASE large
    <3>1. Broken(i, i)
      BY <1>5, <2>1 DEF Broken
    <3>2. packetBuffer' = Pieces(i + 1, i)' /\ packetLength' \in Nat
      <4>1. packetBuffer' = << >> /\ packetLength' = 0
        BY <1>3, <2>1
      <4>2. packetBuffer' = Pieces(i + 1, i)
        BY <1>4, <4>1
      <4> QED BY <4>1, <4>2 DEF Pieces
    <3>3. Broken(i, i)'
      BY <3>1 DEF Broken, SizeAt
    <3>4. i + 1 \in i .. i + 1 /\ i + 1 # i
      BY <1>1
    <3> QED BY <3>2, <3>3, <3>4
  <2>2. CASE ~large
    <3>1. packetBuffer' = Pieces(i, i)' /\ packetLength' = SizeAt[i]
      BY <1>3, <1>4, <1>5, <2>2 DEF Pieces
    <3>2. i \in i .. i + 1
      BY <1>1
    <3> QED BY <3>1, <3>2
  <2> QED BY <2>1, <2>2
<1>11. Buffered'
  <2>1. Begun(i, i)'
    BY <1>8 DEF Begun
  <2> QED BY <1>9, <1>10, <2>1 DEF Buffered, Begun, Pieces, Broken, SizeAt
<1> QED BY <1>7, <1>11

-----------------------------------------------------------------------------
\* What is too large or interrupted stays so
LEMMA BrokenStays ==
  ASSUME NEW i \in DOMAIN Frames, Frames[i].flag \in Later, NEW f \in Nat, Broken(f, i - 1)
  PROVE  Broken(f, i)
<1>1. i \in Nat /\ SizeAt[i - 1] \in Nat /\ SizeAt[i] \in Nat /\ SizeAt[i - 1] < SizeAt[i]
  BY SizesGrow, FramesAre
<1>2. MAX_PACKET_SIZE \in Nat
  BY FramesAre
<1>3. CASE SizeAt[i - 1] > MAX_PACKET_SIZE
  <2>1. SizeAt[i] > MAX_PACKET_SIZE
    BY <1>1, <1>2, <1>3
  <2> QED BY <2>1 DEF Broken
<1>4. ASSUME NEW j \in f .. i - 1, j \in spoilt PROVE Broken(f, i)
  <2>1. j \in f .. i
    BY <1>1, <1>4
  <2> QED BY <1>4, <2>1 DEF Broken
<1> QED BY <1>3, <1>4 DEF Broken

\* The buffer when a segment comes that is not the first one
LEMMA Continued ==
  ASSUME PacketInv, NEW i \in DOMAIN Frames, i = received + 1, Frames[i].flag \in Later
  PROVE  \E f \in 1 .. i - 1 :
           /\ Begun(f, i - 1)
           /\ \/ lastSegmentationFlag \notin Unfinished /\ i - 1 \in spoilt
              \/ /\ lastSegmentationFlag \in Unfinished
                 /\ \E k \in f .. i :
                      /\ packetBuffer = Pieces(k, i - 1) /\ packetLength \in Nat
                      /\ \/ k = f /\ packetLength + Frames[i].size = SizeAt[i]
                         \/ k > f /\ Broken(f, i - 1)
<1>1. /\ i \in Nat /\ received = i - 1 /\ received > 0 /\ Frames[received].flag \in Unfinished
      /\ received + 1 = i
  BY FramesAre DEF PacketInv, OwnFrames
<1>2. PICK f \in 1 .. received :
        /\ Begun(f, received)
        /\ IF lastSegmentationFlag \in Unfinished
           THEN \E k \in f .. received + 1 :
                  /\ packetBuffer = Pieces(k, received)
                  /\ IF k = f THEN packetLength = SizeAt[received]
                     ELSE packetLength \in Nat /\ Broken(f, received)
           ELSE received \in spoilt
  BY <1>1 DEF PacketInv, Buffered
<1>3. CASE lastSegmentationFlag \in Unfinished
  <2>1. PICK k \in f .. received + 1 :
          /\ packetBuffer = Pieces(k, received)
          /\ IF k = f THEN packetLength = SizeAt[received]
             ELSE packetLength \in Nat /\ Broken(f, received)
    BY <1>2, <1>3
  <2>2. /\ SizeAt[i - 1] \in Nat /\ SizeAt[i] = SizeAt[i - 1] + Frames[i].size
    BY SizesGrow
  <2>3. /\ packetLength \in Nat
        /\ \/ k = f /\ packetLength + Frames[i].size = SizeAt[i]
           \/ k > f /\ Broken(f, i - 1)
    <3>1. CASE k = f
      BY <1>1, <2>1, <2>2, <3>1
    <3>2. CASE k # f
      BY <1>1, <2>1, <3>2
    <3> QED BY <3>1, <3>2
  <2>4. f \in 1 .. i - 1 /\ k \in f .. i /\ packetBuffer = Pieces(k, i - 1) /\ Begun(f, i - 1)
    BY <1>1, <1>2, <2>1
  <2> QED BY <1>3, <2>3, <2>4
<1>4. CASE lastSegmentationFlag \notin Unfinished
  BY <1>1, <1>2, <1>4
<1> QED BY <1>3, <1>4

\* A further segment that is not the last one
LEMMA AcceptContinuing ==
  ASSUME PacketInv, NEW i \in DOMAIN Frames, i = received + 1, received' = i, spoilt' = spoilt,
         extractPackets(i), Frames[i].flag = "CONTINUING_PORTION"
  PROVE  /\ delivered' \in Seq(Packet) /\ Complete' /\ Genuine' /\ Ordered(delivered)'
         /\ Buffered'
<1>1. /\ i \in Nat /\ i >= 1 /\ MAX_PACKET_SIZE \in Nat /\ Frames[i].size \in Nat
      /\ Frames[i].flag \in Later
  BY FramesAre DEF Later
<1>2. Segment(i) /\ lastSegmentationFlag' = "CONTINUING_PORTION"
  BY DEF extractPackets
<1> DEFINE legal == lastSegmentationFlag \in Unfinished
           length == packetLength + Frames[i].size
<1>3. /\ UNCHANGED <<delivered, lost>>
      /\ IF ~legal \/ length > MAX_PACKET_SIZE
         THEN packetBuffer' = << >> /\ packetLength' = 0
         ELSE packetBuffer' = Append(packetBuffer, <<i, 1>>) /\ packetLength' = length
  BY <1>2 DEF Segment, clearBuffers
<1>4. CompletedBy(i) = {}
  BY DEF CompletedBy
<1>5. delivered' \in Seq(Packet) /\ Complete' /\ Genuine' /\ Ordered(delivered)'
  BY <1>3, <1>4, GrowsNot
<1>6. PICK f \in 1 .. i - 1 :
        /\ Begun(f, i - 1)
        /\ \/ lastSegmentationFlag \notin Unfinished /\ i - 1 \in spoilt
           \/ /\ lastSegmentationFlag \in Unfinished
              /\ \E k \in f .. i :
                   /\ packetBuffer = Pieces(k, i - 1) /\ packetLength \in Nat
                   /\ \/ k = f /\ packetLength + Frames[i].size = SizeAt[i]
                      \/ k > f /\ Broken(f, i - 1)
  BY <1>1, Continued
<1>7. f \in Nat /\ f >= 1 /\ f < i /\ f \in 1 .. i /\ Begun(f, i)
  <2>1. f \in Nat /\ f >= 1 /\ f < i /\ f \in 1 .. i
    BY <1>1
  <2>2. \A j \in f + 1 .. i : j = i \/ j \in f + 1 .. i - 1
    BY <1>1, <2>1
  <2> QED BY <1>6, <2>1, <2>2 DEF Begun
<1> DEFINE Held(k) == /\ packetBuffer' = Pieces(k, i)
                      /\ IF k = f THEN packetLength' = SizeAt[i]
                         ELSE packetLength' \in Nat /\ Broken(f, i)
<1>8. ASSUME packetBuffer' = << >>, packetLength' = 0, Broken(f, i)
      PROVE  i + 1 \in f .. i + 1 /\ Held(i + 1)
  <2>1. << >> = Pieces(i + 1, i) /\ i + 1 # f /\ i + 1 \in f .. i + 1
    BY <1>1, <1>7, Extended
  <2> QED BY <1>8, <2>1
<1>9. \E k \in f .. i + 1 : Held(k)
  <2>1. CASE ~legal
    <3>1. i - 1 \in spoilt /\ i - 1 \in f .. i
      BY <1>1, <1>6, <1>7, <2>1
    <3>2. Broken(f, i)
      BY <3>1 DEF Broken
    <3> QED BY <1>3, <1>8, <2>1, <3>2
  <2>2. CASE legal
    <3>1. PICK k \in f .. i :
            /\ packetBuffer = Pieces(k, i - 1) /\ packetLength \in Nat
            /\ \/ k = f /\ packetLength + Frames[i].size = SizeAt[i]
               \/ k > f /\ Broken(f, i - 1)
      BY <1>6, <2>2
    <3>2. k > f => Broken(f, i)
      BY <1>1, <1>7, <3>1, BrokenStays
    <3>3. CASE length > MAX_PACKET_SIZE
      <4>1. k = f => Broken(f, i)
        BY <1>7, <3>1, <3>3 DEF Broken
      <4>2. Broken(f, i)
        BY <3>1, <3>2, <4>1
      <4> QED BY <1>3, <1>8, <3>3, <4>2
    <3>4. CASE ~(length > MAX_PACKET_SIZE)
      <4>1. k \in Nat /\ k \in f .. i + 1 /\ i - 1 \in Nat /\ k <= (i - 1) + 1 /\ (i - 1) + 1 = i
        BY <1>1, <1>7
      <4>2. Append(Pieces(k, i - 1), <<i, 1>>) = Pieces(k, i)
        <5>1. Append(Pieces(k, i - 1), <<(i - 1) + 1, 1>>) = Pieces(k, (i - 1) + 1)
          BY <4>1, Extended
        <5> QED BY <4>1, <5>1
      <4>3. packetBuffer' = Pieces(k, i) /\ packetLength' = length /\ length \in Nat
        <5>1. packetBuffer' = Append(packetBuffer, <<i, 1>>) /\ packetLength' = length
          BY <1>3, <2>2, <3>4
        <5> QED BY <1>1, <3>1, <4>2, <5>1
      <4>4. Held(k)
        BY <1>7, <3>1, <3>2, <4>3
      <4> QED BY <4>1, <4>4
    <3> QED BY <3>3, <3>4
  <2> QED BY <2>1, <2>2
<1>10. Buffered'
  <2>1. lastSegmentationFlag' \in Unfinished
    BY <1>2 DEF Unfinished
  <2>2. PICK k \in f .. i + 1 : Held(k)
    BY <1>9
  <2>3. Begun(f, i)' /\ (Broken(f, i) => Broken(f, i)') /\ Pieces(k, i)' = Pieces(k, i)
    BY <1>7 DEF Begun, Broken, Pieces, SizeAt
  <2>4. IF k = f THEN packetLength' = SizeAt[i] ELSE packetLength' \in Nat /\ Broken(f, i)'
    BY <2>2, <2>3
  <2> QED BY <1>7, <2>1, <2>2, <2>3, <2>4 DEF Buffered
<1> QED BY <1>5, <1>10

\* A whole segmented packet is sound if it is not broken
LEMMA SoundSegments ==
  ASSUME NEW f \in Nat, NEW i \in DOMAIN Frames, f < i, Sound(Pieces(f, i))
  PROVE  ~(SizeAt[i] > MAX_PACKET_SIZE) /\ \A j \in f .. i - 1 : j \notin spoilt
<1> DEFINE q == Pieces(f, i)
<1>1. /\ i \in Nat /\ f <= i + 1 /\ f <= i
      /\ SizeAt[i] \in Nat /\ MAX_PACKET_SIZE \in Nat
  <2>1. i \in Nat /\ MAX_PACKET_SIZE \in Nat
    BY FramesAre
  <2>2. SizeAt[i] \in Nat
    BY SizesGrow
  <2> QED BY <2>1, <2>2
<1>2. /\ Len(q) = i - f + 1 /\ Ending(q) = <<i, 1>>
      /\ \A j \in 1 .. i - f + 1 : q[j] = <<f + j - 1, 1>>
  BY <1>1, PiecesAre
<1>3. SizeAt[Ending(q)[1]] <= MAX_PACKET_SIZE /\ \A k \in 1 .. Len(q) - 1 : q[k][1] \notin spoilt
  BY DEF Sound
<1> HIDE DEF q
<1>4. SizeAt[i] <= MAX_PACKET_SIZE
  BY <1>2, <1>3
<1>5. ASSUME NEW j \in f .. i - 1 PROVE j \notin spoilt
  <2>1. j - f + 1 \in 1 .. Len(q) - 1 /\ j - f + 1 \in 1 .. i - f + 1 /\ f + (j - f + 1) - 1 = j
    BY <1>1, <1>2
  <2>2. q[j - f + 1] = <<j, 1>>
    BY <1>2, <2>1
  <2> QED BY <1>3, <2>1, <2>2
<1> QED BY <1>1, <1>4, <1>5

\* The packet that a last segment completes begins with the segment that the
\* buffer has begun with
LEMMA OnePacket ==
  ASSUME NEW i \in DOMAIN Frames, Frames[i].flag = "LAST_PORTION",
         NEW f \in 1 .. i - 1, Begun(f, i - 1)
  PROVE  CompletedBy(i) = {Pieces(f, i)}
<1>1. i \in Nat /\ f \in Nat
  BY FramesAre
<1>2. CompletedBy(i) = {Pieces(g, i) : g \in {h \in 1 .. i - 1 : Begun(h, i - 1)}}
  BY Zenon DEF CompletedBy
<1>3. ASSUME NEW g \in 1 .. i - 1, Begun(g, i - 1) PROVE g = f
  <2>1. Frames[g].flag # "CONTINUING_PORTION" /\ Frames[f].flag # "CONTINUING_PORTION"
    BY <1>3 DEF Begun
  <2>2. g \notin f + 1 .. i - 1 /\ f \notin g + 1 .. i - 1
    BY <1>3, <2>1 DEF Begun
  <2> QED BY <1>1, <2>2
<1> QED BY <1>2, <1>3

\* The last segment
LEMMA AcceptLast ==
  ASSUME PacketInv, NEW i \in DOMAIN Frames, i = received + 1, received' = i, spoilt' = spoilt,
         extractPackets(i), Frames[i].flag = "LAST_PORTION"
  PROVE  /\ delivered' \in Seq(Packet) /\ Complete' /\ Genuine' /\ Ordered(delivered)'
         /\ Buffered'
<1>1. /\ i \in Nat /\ i >= 1 /\ MAX_PACKET_SIZE \in Nat /\ Frames[i].size \in Nat
      /\ Frames[i].flag \in Later
  BY FramesAre DEF Later
<1>2. Segment(i)
  BY DEF extractPackets
<1> DEFINE legal == lastSegmentationFlag \in Unfinished
           length == packetLength + Frames[i].size
           fits == legal /\ ~(length > MAX_PACKET_SIZE)
<1>3. /\ ~fits => UNCHANGED <<delivered, lost>>
      /\ fits => SendCompletePackets(<< Append(packetBuffer, <<i, 1>>) >>)
  BY <1>2 DEF Segment, clearBuffers
<1>4. PICK f \in 1 .. i - 1 :
        /\ Begun(f, i - 1)
        /\ \/ lastSegmentationFlag \notin Unfinished /\ i - 1 \in spoilt
           \/ /\ lastSegmentationFlag \in Unfinished
              /\ \E k \in f .. i :
                   /\ packetBuffer = Pieces(k, i - 1) /\ packetLength \in Nat
                   /\ \/ k = f /\ packetLength + Frames[i].size = SizeAt[i]
                      \/ k > f /\ Broken(f, i - 1)
  BY <1>1, Continued
<1>5. f \in Nat /\ f >= 1 /\ f < i
  BY <1>1
<1> DEFINE q == Pieces(f, i)
<1>6. CompletedBy(i) = {q}
  BY <1>4, OnePacket
<1>7. ASSUME Broken(f, i - 1) PROVE ~Sound(q)
  <2>1. SizeAt[i - 1] \in Nat /\ SizeAt[i] \in Nat /\ SizeAt[i - 1] < SizeAt[i]
    BY <1>1, SizesGrow
  <2>2. SizeAt[i - 1] > MAX_PACKET_SIZE => SizeAt[i] > MAX_PACKET_SIZE
    BY <1>1, <2>1
  <2> QED BY <1>1, <1>5, <1>7, <2>2, SoundSegments DEF Broken
<1> HIDE DEF q
<1>8. Buffered'
  BY DEF Buffered, Unfinished
<1>9. CASE ~fits
  <2>1. ~Sound(q)
    <3>1. CASE ~legal
      <4>1. i - 1 \in spoilt /\ i - 1 \in f .. i - 1
        BY <1>1, <1>4, <1>5, <3>1
      <4> QED BY <4>1, <1>7 DEF Broken
    <3>2. CASE legal
      <4>1. PICK k \in f .. i : \/ k = f /\ packetLength + Frames[i].size = SizeAt[i]
                                \/ k > f /\ Broken(f, i - 1)
        BY <1>4, <3>2
      <4>2. k = f => SizeAt[i] > MAX_PACKET_SIZE
        BY <1>5, <1>9, <3>2, <4>1
      <4> QED BY <1>1, <1>5, <1>7, <4>1, <4>2, SoundSegments DEF q
    <3> QED BY <3>1, <3>2
  <2> QED BY <1>3, <1>6, <1>9, <1>8, <2>1, GrowsNot
<1>10. CASE fits
  <2>1. PICK k \in f .. i :
          /\ packetBuffer = Pieces(k, i - 1) /\ packetLength \in Nat
          /\ \/ k = f /\ packetLength + Frames[i].size = SizeAt[i]
             \/ k > f /\ Broken(f, i - 1)
    BY <1>4, <1>10
  <2> DEFINE p == Pieces(k, i)
             packets == << p >>
  <2>2. k \in Nat /\ k <= i /\ k <= i + 1 /\ i - 1 \in Nat /\ k <= (i - 1) + 1 /\ (i - 1) + 1 = i
    BY <1>1, <1>5
  <2>3. Append(packetBuffer, <<i, 1>>) = p
    <3>1. Append(Pieces(k, i - 1), <<(i - 1) + 1, 1>>) = Pieces(k, (i - 1) + 1)
      BY <2>2, Extended
    <3> QED BY <2>1, <2>2, <3>1
  <2>4. p \in Packet
    BY <1>1, <2>2, PiecesAre
  <2>5. p = q \/ (~Sound(q) /\ p \in Rests(q))
    <3>1. CASE k = f
      BY <3>1 DEF q
    <3>2. CASE k > f /\ Broken(f, i - 1)
      BY <1>1, <1>5, <1>7, <2>2, <3>2, RestOf DEF q
    <3> QED BY <2>1, <3>1, <3>2
  <2>6. SendCompletePackets(packets)
    BY <1>3, <1>10, <2>3
  <2> HIDE DEF p
  <2>7. packets \in Seq(Packet) /\ DOMAIN packets = {1} /\ packets[1] = p
    BY <2>4
  <2> HIDE DEF packets
  <2>8. PICK s \in Seq(Packet) : \E kept :
          /\ delivered' = delivered \o s
          /\ Elements(packets) \subseteq Elements(s) \union lost'
          /\ \A n \in DOMAIN s : /\ kept[n] \in DOMAIN packets /\ s[n] = packets[kept[n]]
                                 /\ \A j \in DOMAIN s : j < n => kept[j] < kept[n]
    BY <2>6, <2>7, Sending
  <2>9. PICK kept :
          /\ delivered' = delivered \o s
          /\ Elements(packets) \subseteq Elements(s) \union lost'
          /\ \A n \in DOMAIN s : /\ kept[n] \in DOMAIN packets /\ s[n] = packets[kept[n]]
                                 /\ \A j \in DOMAIN s : j < n => kept[j] < kept[n]
    BY <2>8
  <2>10. lost \subseteq lost'
    BY <2>6, <2>7, Sending
  <2>11. \A n \in DOMAIN s : kept[n] = 1 /\ s[n] = p
    BY <2>7, <2>9
  <2>12. Ordered(s)
    <3> SUFFICES ASSUME NEW j \in DOMAIN s, NEW n \in DOMAIN s, j < n PROVE FALSE
      BY DEF Ordered
    <3>1. kept[j] < kept[n]
      BY <2>9
    <3> QED BY <2>11, <3>1
  <2>13. p \in Elements(s) \union lost'
    BY <2>7, <2>9 DEF Elements
  <2>14. \A x \in Elements(s) : x = p
    BY <2>11 DEF Elements
  <2>15. \A x \in Elements(s) : \E c \in CompletedBy(i) : x = c \/ (~Sound(c) /\ x \in Rests(c))
    BY <1>6, <2>5, <2>14
  <2>16. \A c \in CompletedBy(i) : Sound(c) => c \in Elements(s) \union lost'
    BY <1>6, <2>5, <2>13
  <2> QED BY <1>8, <2>9, <2>10, <2>12, <2>15, <2>16, Grows
<1> QED BY <1>9, <1>10

-----------------------------------------------------------------------------
(***************************************************************************)
(* The steps.                                                              *)
(***************************************************************************)
\* Frames on their way stay frames of the ground
LEMMA OwnStay ==
  ASSUME OwnFrames, Shorter, received' \in 0 .. Len(Frames)
  PROVE  OwnFrames'
<1>1. uplink' \in Seq(Frame)
  BY Shift DEF OwnFrames
<1>2. PICK s \in {0, 1} : \A k \in 1 .. Len(uplink') :
        k + s \in 1 .. Len(uplink) /\ uplink'[k] = uplink[k + s]
  BY Shift DEF OwnFrames
<1> QED BY <1>1, <1>2 DEF OwnFrames

\* An AD frame is accepted
LEMMA AcceptPackets ==
  ASSUME ChannelInv, PacketInv, ReceiveAD, Accepts(Head(uplink).n)
  PROVE  PacketInv'
<1> DEFINE i == Head(uplink).i
<1>1. /\ uplink # << >> /\ Head(uplink).type = "AD" /\ uplink' = Tail(uplink)
      /\ received' = received + 1 /\ spoilt' = spoilt /\ extractPackets(i)
  BY DEF ReceiveAD, Arrives
<1>2. i \in DOMAIN Frames
  <2>1. Head(uplink) = uplink[1] /\ 1 \in 1 .. Len(uplink)
    BY <1>1 DEF PacketInv, OwnFrames
  <2> QED BY <1>1, <2>1 DEF PacketInv, OwnFrames
<1>3. i = received + 1
  <2>1. Diff(Head(uplink).n) = 0 /\ Diff(Head(uplink).n) = i - 1 - received
    BY <1>1, HeadIsClose DEF Accepts
  <2>2. i \in Nat /\ received \in Nat
    BY <1>2, FramesAre DEF PacketInv, OwnFrames
  <2> HIDE DEF i
  <2> QED BY <2>1, <2>2
<1> HIDE DEF i
<1>4. OwnFrames'
  <2>1. Shorter /\ received' \in 0 .. Len(Frames)
    BY <1>1, <1>2, <1>3, FramesAre DEF Shorter
  <2> QED BY <2>1, OwnStay DEF PacketInv
<1>5. Frames[i].flag \in Flag
  BY <1>2, FramesAre
<1>6. /\ delivered' \in Seq(Packet) /\ Complete' /\ Genuine' /\ Ordered(delivered)'
      /\ Buffered'
  <2>1. received' = i
    BY <1>1, <1>3
  <2>2. CASE Frames[i].flag = "NO_SEGMENTATION"
    BY <1>1, <1>2, <1>3, <2>1, <2>2, AcceptWhole
  <2>3. CASE Frames[i].flag = "FIRST_PORTION"
    BY <1>1, <1>2, <1>3, <2>1, <2>3, AcceptFirst
  <2>4. CASE Frames[i].flag = "CONTINUING_PORTION"
    BY <1>1, <1>2, <1>3, <2>1, <2>4, AcceptContinuing
  <2>5. CASE Frames[i].flag = "LAST_PORTION"
    BY <1>1, <1>2, <1>3, <2>1, <2>5, AcceptLast
  <2> QED BY <1>5, <2>2, <2>3, <2>4, <2>5 DEF Flag
<1> QED BY <1>4, <1>6 DEF PacketInv

\* Steps that neither take a frame into the packets nor send packets
LEMMA QuietPackets ==
  ASSUME PacketInv, OwnFrames', UNCHANGED <<map, delivered, history>>
  PROVE  PacketInv'
<1>1. UNCHANGED <<lastSegmentationFlag, packetBuffer, packetLength, delivered, received, spoilt, lost>>
  BY DEF map, history
<1>2. Buffered' /\ Complete' /\ Genuine' /\ Ordered(delivered)'
  <2>1. Buffered'
    BY <1>1 DEF PacketInv, Buffered, Begun, Pieces, Broken, SizeAt
  <2>2. Complete'
    BY <1>1 DEF PacketInv, Complete, PacketsIn, CompletedBy, Begun, Pieces, Sound, Ending,
                SizeAt, Elements
  <2>3. Genuine'
    BY <1>1 DEF PacketInv, Genuine, FromPacket, PacketsIn, CompletedBy, Begun, Pieces, Sound,
                Ending, SizeAt, Elements, Rests, BypassPacket
  <2>4. Ordered(delivered)'
    BY <1>1 DEF PacketInv, Ordered, Before, Ending, BypassPacket
  <2> QED BY <2>1, <2>2, <2>3, <2>4
<1> QED BY <1>1, <1>2 DEF PacketInv

\* A BD frame sends the packet it carries, and interrupts another one
LEMMA BypassStep ==
  ASSUME PacketInv, ReceiveBD
  PROVE  PacketInv'
<1>1. /\ Shorter /\ received' = received /\ extractBypass
      /\ spoilt' = spoilt \union Interrupted
  BY DEF ReceiveBD, Arrives, Shorter
<1>2. OwnFrames'
  BY <1>1, OwnStay DEF PacketInv, OwnFrames
<1>3. PICK n \in {0, 1} : SendCompletePackets([k \in 1 .. n |-> BypassPacket])
  BY <1>1 DEF extractBypass
<1> DEFINE packets == [k \in 1 .. n |-> BypassPacket]
<1>4. packets \in Seq(Packet) /\ \A k \in DOMAIN packets : packets[k] = BypassPacket
  <2>1. <<0, 1>> \in Nat \X Nat
    OBVIOUS
  <2>2. BypassPacket \in Packet
    BY <2>1 DEF BypassPacket, Packet
  <2> QED BY <2>2
<1>5. SendCompletePackets(packets) /\ lastSegmentationFlag' = "NO_SEGMENTATION"
  BY <1>1, <1>3 DEF extractBypass
<1> HIDE DEF packets
<1>6. lost \subseteq lost'
  BY <1>4, <1>5, Sending
<1>7. PICK s \in Seq(Packet) : \E kept :
        /\ delivered' = delivered \o s
        /\ Elements(packets) \subseteq Elements(s) \union lost'
        /\ \A k \in DOMAIN s : /\ kept[k] \in DOMAIN packets /\ s[k] = packets[kept[k]]
                               /\ \A j \in DOMAIN s : j < k => kept[j] < kept[k]
  BY <1>4, <1>5, Sending
<1>8. delivered' = delivered \o s /\ \A k \in DOMAIN s : s[k] = BypassPacket
  BY <1>4, <1>7
<1>9. Elements(s) \subseteq {BypassPacket} /\ Ordered(s)
  BY <1>8 DEF Elements, Ordered
<1>10. /\ delivered' \in Seq(Packet) /\ Ordered(delivered \o s)
       /\ Elements(delivered)' = Elements(delivered) \union Elements(s)
  <2>1. /\ delivered \o s \in Seq(Packet)
        /\ Elements(delivered \o s) = Elements(delivered) \union Elements(s)
        /\ Ordered(delivered \o s)
    BY <1>9, Joined DEF PacketInv
  <2> QED BY <1>8, <2>1 DEF Elements
<1>11. \A q : Sound(q)' => Sound(q)
  BY <1>1 DEF Sound, Ending, SizeAt
<1>12. PacketsIn(received)' = PacketsIn(received)
  BY <1>1 DEF PacketsIn, CompletedBy, Begun, Pieces
<1>13. Complete'
  <2> SUFFICES ASSUME NEW p \in PacketsIn(received)', Sound(p)'
               PROVE  p \in Elements(delivered)' \union lost'
    BY DEF Complete
  <2>1. p \in Elements(delivered) \union lost
    BY <1>11, <1>12 DEF PacketInv, Complete
  <2> QED BY <1>6, <1>10, <2>1
<1>14. Genuine'
  <2> SUFFICES ASSUME NEW p \in Elements(delivered)', p # BypassPacket
               PROVE  \E q \in PacketsIn(received)' : p = q \/ (~Sound(q)' /\ p \in Rests(q))
    BY DEF Genuine, FromPacket, BypassPacket, Rests
  <2>1. PICK q \in PacketsIn(received) : p = q \/ (~Sound(q) /\ p \in Rests(q))
    BY <1>9, <1>10 DEF PacketInv, Genuine, FromPacket
  <2> QED BY <1>11, <1>12, <2>1
<1>15. Buffered'
  <2> SUFFICES ASSUME received > 0, Frames[received].flag \in Unfinished
               PROVE  \E f \in 1 .. received : Begun(f, received) /\ received \in spoilt'
    BY <1>1, <1>5 DEF Buffered, Begun, Unfinished
  <2>1. received \in Interrupted
    BY DEF Interrupted
  <2> QED BY <1>1, <2>1 DEF PacketInv, Buffered
<1>16. Ordered(delivered)'
  BY <1>8, <1>10 DEF Ordered, BypassPacket, Before, Ending
<1> QED BY <1>2, <1>10, <1>13, <1>14, <1>15, <1>16 DEF PacketInv

\* Nothing is received at the beginning
LEMMA InitPackets == ChannelInit => PacketInv
<1> SUFFICES ASSUME ChannelInit PROVE PacketInv
  OBVIOUS
<1>1. received = 0 /\ delivered = << >> /\ uplink = << >>
  BY DEF ChannelInit
<1>2. OwnFrames
  BY <1>1, FramesAre DEF OwnFrames
<1>3. Buffered
  BY <1>1 DEF Buffered
<1>4. Complete
  <2>1. PacketsIn(0) = {}
    BY PacketsAre
  <2> QED BY <1>1, <2>1 DEF Complete
<1>5. delivered \in Seq(Packet) /\ DOMAIN delivered = {}
  BY <1>1
<1>6. Genuine /\ Ordered(delivered)
  BY <1>5 DEF Genuine, Ordered, Elements
<1> QED BY <1>2, <1>3, <1>4, <1>5, <1>6 DEF PacketInv

\* A frame is sent
LEMMA FrameSent ==
  ASSUME PacketInv, NEW type, NEW n, NEW i, Transmit(type, n, i), UNCHANGED onboard,
         uplink' \in Seq(Frame), type = "AD" => i \in DOMAIN Frames
  PROVE  PacketInv'
<1>1. UNCHANGED <<map, delivered, history>> /\ received' = received
  BY DEF onboard, history
<1>2. uplink' = Append(uplink, [type |-> type, n |-> n, i |-> i])
  BY DEF Transmit
<1> DEFINE frame == [type |-> type, n |-> n, i |-> i]
<1>3. frame.type = type /\ frame.i = i
  OBVIOUS
<1> HIDE DEF frame
<1>4. /\ uplink \in Seq(Frame) /\ Len(uplink') = Len(uplink) + 1
      /\ \A k \in 1 .. Len(uplink') :
           IF k = Len(uplink) + 1 THEN uplink'[k] = frame
           ELSE k \in 1 .. Len(uplink) /\ uplink'[k] = uplink[k]
  BY <1>2 DEF PacketInv, OwnFrames, frame
<1>5. OwnFrames'
  BY <1>1, <1>3, <1>4 DEF PacketInv, OwnFrames
<1> QED BY <1>1, <1>5, QuietPackets

\* Every step keeps the packets in order
LEMMA StepPackets ==
  ChannelInv /\ ChannelInv' /\ PacketInv /\ [ChannelNext]_channelVars => PacketInv'
<1> SUFFICES ASSUME ChannelInv, ChannelInv', PacketInv, [ChannelNext]_channelVars PROVE PacketInv'
  OBVIOUS
<1>1. uplink' \in Seq(Frame)
  BY DEF ChannelInv, ChannelTyped
<1>2. ASSUME UNCHANGED <<map, delivered, history>>, Shorter PROVE PacketInv'
  <2>1. received' \in 0 .. Len(Frames)
    BY <1>2 DEF history, PacketInv, OwnFrames
  <2> QED BY <1>2, <2>1, OwnStay, QuietPackets DEF PacketInv
<1>3. CASE ReceiveAD
  <2>1. CASE Accepts(Head(uplink).n)
    BY <1>3, <2>1, AcceptPackets
  <2>2. CASE ~Accepts(Head(uplink).n)
    <3>1. UNCHANGED <<map, delivered, history>> /\ Shorter
      BY <1>3, <2>2 DEF ReceiveAD, Arrives, Shorter, history
    <3> QED BY <1>2, <3>1
  <2> QED BY <2>1, <2>2
<1>4. CASE ReceiveBD
  BY <1>4, BypassStep
<1>5. CASE ReceiveUnlock \/ ReceiveSetVr \/ ReceiveStray \/ setToWaitState
  <2>1. UNCHANGED <<map, delivered, history>> /\ Shorter
    BY <1>5 DEF ReceiveUnlock, ReceiveSetVr, ReceiveStray, setToWaitState, Arrives, Shorter
  <2> QED BY <1>2, <2>1
<1>6. CASE LoseFrame \/ SendClcw \/ ReadClcw \/ UNCHANGED channelVars
  <2>1. UNCHANGED <<map, delivered, history>> /\ Shorter
    BY <1>6 DEF LoseFrame, SendClcw, ReadClcw, channelVars, onboard, Shorter
  <2> QED BY <1>2, <2>1
<1>7. ASSUME NEW i \in DOMAIN Frames, SendAD(i) PROVE PacketInv'
  <2>1. Transmit("AD", NumberOf(i), i) /\ UNCHANGED onboard
    BY <1>7 DEF SendAD, Transmit
  <2> QED BY <1>1, <2>1, FrameSent
<1>8. CASE SendBD \/ SendUnlock \/ SendSetVr
  <2>1. PICK type, n, i : type # "AD" /\ Transmit(type, n, i) /\ UNCHANGED onboard
    BY <1>8 DEF SendBD, SendUnlock, SendSetVr, Transmit
  <2> QED BY <1>1, <2>1, FrameSent
<1> QED BY <1>3, <1>4, <1>5, <1>6, <1>7, <1>8 DEF ChannelNext, Receive

\* The property is part of the invariant
LEMMA InvariantInOrder == PacketInv => DeliveredInOrder
  BY DEF PacketInv, DeliveredInOrder, Complete, Genuine, FromPacket, Ordered

\* The distributor gets every sound packet of the frames received, or it is
\* lost to store or queue; it gets nothing else than whole packets and rests of
\* broken ones, each at most once and in the order of the ground
THEOREM PacketsInOrder == ChannelSpec => []DeliveredInOrder
<1>1. ChannelInit => ChannelInv /\ PacketInv
  BY InitChannelInv, InitPackets
<1>2. ChannelInv /\ PacketInv /\ [ChannelNext]_channelVars => (ChannelInv /\ PacketInv)'
  BY StepChannelInv, StepPackets
<1> QED BY <1>1, <1>2, InvariantInOrder, PTL DEF ChannelSpec
=============================================================================
