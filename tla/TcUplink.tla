------------------------------ MODULE TcUplink ------------------------------
(***************************************************************************)
(* The telecommand path.  A poller puts each datagram into the TC store    *)
(* and its address into the queue of the CCSDSDistributor, which forwards  *)
(* it to the PUSDistributor; that checks the packet, finds the service and *)
(* forwards the address to it; the service (PusServiceBase) handles and    *)
(* deletes the packet.  PUSDistributor and services report to the queue of *)
(* Service 1.                                                              *)
(*                                                                         *)
(* Both distributors run one after the other in one task; the poller, the  *)
(* services and Service 1 run in tasks of their own, some of them with a   *)
(* higher priority.  A step is one access to what they share: the store or *)
(* a queue.                                                                *)
(***************************************************************************)
EXTENDS Integers, Sequences, AddressQueues

CONSTANTS
  Telecommand,        \* datagrams the ground sends, each once
  WellFormed,         \* those that TcPacketCheck accepts
  Service,            \* services registered at the PUSDistributor
  ServiceOf,          \* telecommand -> its service, registered or not
  NSlots,             \* elements of the TC store
  DistributorDepth,   \* DISTRIBUTER_MAX_PACKETS
  RequestDepth,       \* depth of a service's requestQueue
  VerificationDepth,  \* depth of Service1TelecommandVerification::tmQueue
  Free, Reserved      \* slots without a packet

ASSUME UplinkAssumption ==
  /\ WellFormed \subseteq Telecommand
  /\ {NSlots, DistributorDepth, RequestDepth, VerificationDepth} \subseteq Nat \ {0}
  /\ {Free, Reserved} \cap Telecommand = {}

Slot == 0 .. NSlots - 1
NoSlot == -1

VARIABLES
  tcStore,            \* slot -> telecommand or Free
  awaited,            \* telecommands not received yet
  polled,             \* slot of the datagram the poller has just stored
  ccsdsQueue,         \* CCSDSDistributor::tcQueue
  pusQueue,           \* PUSDistributor::tcQueue
  distributor,        \* step of the distributors' task and its currentMessage
  requestQueue,       \* service -> PusServiceBase::requestQueue
  service,            \* service -> step of handleRequestQueue and its packet
  verificationQueue,  \* Service1TelecommandVerification::tmQueue
  verdicts,           \* telecommand -> the verdicts reported on it
  dropped             \* telecommands lost before the PUSDistributor had them

vars == <<tcStore, awaited, polled, ccsdsQueue, pusQueue, distributor, requestQueue,
          service, verificationQueue, verdicts, dropped>>
poller == <<awaited, polled>>
services == <<requestQueue, service>>
reporting == <<verificationQueue, verdicts>>

At(step, slot) == [step |-> step, slot |-> slot]
Idle == At("receive", NoSlot)

Init == /\ tcStore = [s \in Slot |-> Free]
        /\ awaited = Telecommand
        /\ polled = NoSlot
        /\ ccsdsQueue = << >>
        /\ pusQueue = << >>
        /\ distributor = At("ccsds", NoSlot)
        /\ requestQueue = [v \in Service |-> << >>]
        /\ service = [v \in Service |-> Idle]
        /\ verificationQueue = << >>
        /\ verdicts = [tc \in Telecommand |-> << >>]
        /\ dropped = {}

Delete(s) == tcStore' = [tcStore EXCEPT ![s] = Free]

-----------------------------------------------------------------------------
(* ESBOTcPolling::handleSuccessfullTcRead stores the datagram, or loses it *)
(* when the store is full ...                                              *)
StoreDatagram(tc) ==
  /\ polled = NoSlot
  /\ tc \in awaited
  /\ awaited' = awaited \ {tc}
  /\ IF \E s \in Slot : tcStore[s] = Free
     THEN /\ \E s \in Slot : /\ tcStore[s] = Free
                             /\ tcStore' = [tcStore EXCEPT ![s] = tc]
                             /\ polled' = s
          /\ UNCHANGED dropped
     ELSE dropped' = dropped \cup {tc} /\ UNCHANGED <<tcStore, polled>>
  /\ UNCHANGED <<ccsdsQueue, pusQueue, distributor, services, reporting>>

(* Seeded fault: what the queue refuses stays in the store. *)
SendDatagram_Leak ==
  /\ polled # NoSlot
  /\ polled' = NoSlot
  /\ IF Len(ccsdsQueue) < DistributorDepth
     THEN ccsdsQueue' = Append(ccsdsQueue, polled) /\ UNCHANGED dropped
     ELSE dropped' = dropped \cup {tcStore[polled]} /\ UNCHANGED ccsdsQueue
  /\ UNCHANGED <<tcStore, awaited, pusQueue, distributor, services, reporting>>

(* ... and sends its address on, or deletes it.                            *)
SendDatagram ==
  /\ polled # NoSlot
  /\ polled' = NoSlot
  /\ IF Len(ccsdsQueue) < DistributorDepth
     THEN ccsdsQueue' = Append(ccsdsQueue, polled) /\ UNCHANGED <<tcStore, dropped>>
     ELSE /\ Delete(polled)
          /\ dropped' = dropped \cup {tcStore[polled]}
          /\ UNCHANGED ccsdsQueue
  /\ UNCHANGED <<awaited, pusQueue, distributor, services, reporting>>

-----------------------------------------------------------------------------
(* TcDistributor::performOperation of the CCSDSDistributor: receive until  *)
(* the queue is empty; then the task goes on to the PUSDistributor.        *)
CcsdsReceive ==
  /\ distributor.step = "ccsds"
  /\ IF ccsdsQueue = << >>
     THEN distributor' = At("pus", NoSlot) /\ UNCHANGED ccsdsQueue
     ELSE /\ distributor' = At("ccsdsForward", Head(ccsdsQueue))
          /\ ccsdsQueue' = Tail(ccsdsQueue)
  /\ UNCHANGED <<tcStore, poller, pusQueue, services, reporting, dropped>>

(* handlePacket: a packet for another APID goes to the same destination,   *)
(* which has to report it.                                                 *)
CcsdsForward ==
  LET s == distributor.slot IN
  /\ distributor.step = "ccsdsForward"
  /\ distributor' = At("ccsds", NoSlot)
  /\ IF Len(pusQueue) < DistributorDepth
     THEN pusQueue' = Append(pusQueue, s) /\ UNCHANGED <<tcStore, dropped>>
     ELSE Delete(s) /\ dropped' = dropped \cup {tcStore[s]} /\ UNCHANGED pusQueue
  /\ UNCHANGED <<poller, ccsdsQueue, services, reporting>>

-----------------------------------------------------------------------------
(* Seeded fault: the full queue takes the report all the same. *)
Report_NoLimit(kind, code, tc, s) ==
  /\ verificationQueue' =
       Append(verificationQueue, [kind |-> kind, code |-> code, about |-> tcStore[s]])
  /\ verdicts' = IF kind = "ACCEPTANCE_SUCCESS" THEN verdicts
                 ELSE [verdicts EXCEPT ![tc] = Append(@, kind)]

(* VerificationReporter: the message carries the identification read from  *)
(* the packet at address s, whatever is there by now; a full queue loses   *)
(* it.  tc is the telecommand meant.                                       *)
Report(kind, code, tc, s) ==
  /\ verificationQueue' =
       IF Len(verificationQueue) < VerificationDepth
       THEN Append(verificationQueue, [kind |-> kind, code |-> code, about |-> tcStore[s]])
       ELSE verificationQueue
  /\ verdicts' = IF kind = "ACCEPTANCE_SUCCESS" THEN verdicts
                 ELSE [verdicts EXCEPT ![tc] = Append(@, kind)]

PusReceive ==
  /\ distributor.step = "pus"
  /\ IF pusQueue = << >>
     THEN distributor' = At("ccsds", NoSlot) /\ UNCHANGED pusQueue
     ELSE distributor' = At("select", Head(pusQueue)) /\ pusQueue' = Tail(pusQueue)
  /\ UNCHANGED <<tcStore, poller, ccsdsQueue, services, reporting, dropped>>

(* PUSDistributor::selectDestination: none for a packet that fails the     *)
(* check or has no registered service.                                     *)
Destination(tc) ==
  IF tc \in WellFormed /\ ServiceOf[tc] \in Service THEN {ServiceOf[tc]} ELSE {}

(* handlePacket sends the address to the destination ...                   *)
PusSelect ==
  LET s == distributor.slot
      room == {v \in Destination(tcStore[s]) : Len(requestQueue[v]) < RequestDepth}
  IN  /\ distributor.step = "select"
      /\ requestQueue' = [v \in Service |->
                            IF v \in room THEN Append(requestQueue[v], s) ELSE requestQueue[v]]
      /\ distributor' = At(IF room # {} THEN "accepted" ELSE "rejected", s)
      /\ UNCHANGED <<tcStore, poller, ccsdsQueue, pusQueue, service, reporting, dropped>>

(* ... and callbackAfterSending reports success: the packet belongs to the *)
(* service by now, which may have deleted it already.                      *)
PusAccepted ==
  LET s == distributor.slot IN
  /\ distributor.step = "accepted"
  /\ distributor' = At("pus", NoSlot)
  /\ Report("ACCEPTANCE_SUCCESS", "RETURN_OK", tcStore[s], s)
  /\ UNCHANGED <<tcStore, poller, ccsdsQueue, pusQueue, services, dropped>>

(* Or it reports the failure.  The status of the check has been replaced   *)
(* by that of the sending, which handlePacket initialises as RETURN_FAILED *)
(* and leaves so when there is no destination.                             *)
FailureCode(tc) == IF Destination(tc) = {} THEN "RETURN_FAILED" ELSE "FULL"

(* Seeded fault: the next packet is taken before this one is deleted. *)
PusRejected_NotDeleted ==
  LET s == distributor.slot IN
  /\ distributor.step = "rejected"
  /\ distributor' = At("pus", NoSlot)
  /\ Report("ACCEPTANCE_FAILURE", FailureCode(tcStore[s]), tcStore[s], s)
  /\ UNCHANGED <<tcStore, poller, ccsdsQueue, pusQueue, services, dropped>>

PusRejected ==
  LET s == distributor.slot IN
  /\ distributor.step = "rejected"
  /\ distributor' = At("pusDelete", s)
  /\ Report("ACCEPTANCE_FAILURE", FailureCode(tcStore[s]), tcStore[s], s)
  /\ UNCHANGED <<tcStore, poller, ccsdsQueue, pusQueue, services, dropped>>

PusDelete ==
  /\ distributor.step = "pusDelete"
  /\ distributor' = At("pus", NoSlot)
  /\ Delete(distributor.slot)
  /\ UNCHANGED <<poller, ccsdsQueue, pusQueue, services, reporting, dropped>>

-----------------------------------------------------------------------------
(* PusServiceBase::handleRequestQueue *)
ServiceReceive(v) ==
  /\ service[v].step = "receive"
  /\ requestQueue[v] # << >>
  /\ service' = [service EXCEPT ![v] = At("handle", Head(requestQueue[v]))]
  /\ requestQueue' = [requestQueue EXCEPT ![v] = Tail(@)]
  /\ UNCHANGED <<tcStore, poller, ccsdsQueue, pusQueue, distributor, reporting, dropped>>

(* Seeded fault: a packet whose handling failed is handled once more. *)
ServiceHandle_Retries(v, kind) ==
  LET s == service[v].slot IN
  /\ service[v].step = "handle"
  /\ service' = [service EXCEPT ![v].step = IF kind = "COMPLETION_FAILURE" THEN @ ELSE "delete"]
  /\ Report(kind, "RETURN_OK", tcStore[s], s)
  /\ UNCHANGED <<tcStore, poller, ccsdsQueue, pusQueue, distributor, requestQueue, dropped>>

(* handleRequest of the service succeeds or not. *)
ServiceHandle(v, kind) ==
  LET s == service[v].slot IN
  /\ service[v].step = "handle"
  /\ service' = [service EXCEPT ![v].step = "delete"]
  /\ Report(kind, "RETURN_OK", tcStore[s], s)
  /\ UNCHANGED <<tcStore, poller, ccsdsQueue, pusQueue, distributor, requestQueue, dropped>>

(* Seeded fault: the packet is not deleted. *)
ServiceDelete_Leak(v) ==
  /\ service[v].step = "delete"
  /\ service' = [service EXCEPT ![v] = Idle]
  /\ UNCHANGED <<tcStore, poller, ccsdsQueue, pusQueue, distributor, requestQueue, reporting,
                 dropped>>

ServiceDelete(v) ==
  /\ service[v].step = "delete"
  /\ service' = [service EXCEPT ![v] = Idle]
  /\ Delete(service[v].slot)
  /\ UNCHANGED <<poller, ccsdsQueue, pusQueue, distributor, requestQueue, reporting, dropped>>

(* Service1TelecommandVerification::performOperation takes a report and    *)
(* makes telemetry of it (TmDownlink).                                     *)
TakeReport ==
  /\ verificationQueue # << >>
  /\ verificationQueue' = Tail(verificationQueue)
  /\ UNCHANGED <<tcStore, poller, ccsdsQueue, pusQueue, distributor, services, verdicts, dropped>>

-----------------------------------------------------------------------------
DistributorStep == \/ CcsdsReceive \/ CcsdsForward
                   \/ PusReceive \/ PusSelect \/ PusAccepted \/ PusRejected \/ PusDelete
ServiceStep(v) == \/ ServiceReceive(v)
                  \/ \E kind \in {"COMPLETION_SUCCESS", "COMPLETION_FAILURE"} :
                       ServiceHandle(v, kind)
                  \/ ServiceDelete(v)

Next == \/ \E tc \in Telecommand : StoreDatagram(tc)
        \/ SendDatagram
        \/ DistributorStep
        \/ \E v \in Service : ServiceStep(v)
        \/ TakeReport

(* The tasks run periodically and wait for nothing; Service 1 may be late. *)
Fairness == /\ WF_vars(SendDatagram)
            /\ WF_vars(DistributorStep)
            /\ \A v \in Service : WF_vars(ServiceStep(v))

Spec == Init /\ [][Next]_vars
FairSpec == Spec /\ Fairness

-----------------------------------------------------------------------------
(* Every variable has its type, and no queue is over its depth. *)
SlotOrNone == Slot \cup {NoSlot}
TypeOK ==
  /\ tcStore \in [Slot -> Telecommand \cup {Free}]
  /\ awaited \subseteq Telecommand
  /\ polled \in SlotOrNone
  /\ ccsdsQueue \in Seq(Slot) /\ Len(ccsdsQueue) <= DistributorDepth
  /\ pusQueue \in Seq(Slot) /\ Len(pusQueue) <= DistributorDepth
  /\ distributor \in [step : {"ccsds", "ccsdsForward", "pus", "select", "accepted",
                              "rejected", "pusDelete"}, slot : SlotOrNone]
  /\ \A v \in Service : requestQueue[v] \in Seq(Slot) /\ Len(requestQueue[v]) <= RequestDepth
  /\ service \in [Service -> [step : {"receive", "handle", "delete"}, slot : SlotOrNone]]
  /\ Len(verificationQueue) <= VerificationDepth
  /\ dropped \subseteq Telecommand

(* Where the address of a packet can be.  After the hand-over to a service *)
(* the distributor does not hold the packet any more, though it still has  *)
(* the address.                                                            *)
HeldBy(s, place) ==
  \/ place = <<"poller">> /\ polled = s
  \/ place = <<"ccsdsQueue">> /\ In(s, ccsdsQueue)
  \/ place = <<"pusQueue">> /\ In(s, pusQueue)
  \/ place = <<"distributor">> /\ distributor.slot = s /\ distributor.step # "accepted"
  \/ \E v \in Service : \/ place = <<"service", v>> /\ service[v].slot = s
                        \/ place = <<"queue", v>> /\ In(s, requestQueue[v])

Place == {<<"poller">>, <<"ccsdsQueue">>, <<"pusQueue">>, <<"distributor">>}
           \cup ({"service", "queue"} \X Service)

(* A packet has one owner from the poller to its deletion, whichever of    *)
(* the sends on its way fails: it is never deleted twice, never handled    *)
(* after its deletion, and never forgotten in the store.                   *)
OneHolder ==
  /\ \A s \in Slot, p, q \in Place : HeldBy(s, p) /\ HeldBy(s, q) => p = q
  /\ \A s \in Slot : tcStore[s] # Free <=> \E p \in Place : HeldBy(s, p)
  /\ NoDuplicates(ccsdsQueue) /\ NoDuplicates(pusQueue)
  /\ \A v \in Service : NoDuplicates(requestQueue[v])

(* A telecommand is decided once: it fails the acceptance or it is handled *)
(* by its service, never both and never twice; and one that has left the   *)
(* store was decided, unless a full store or queue kept it from the        *)
(* PUSDistributor.                                                         *)
OneVerdict ==
  \A tc \in Telecommand :
    /\ Len(verdicts[tc]) <= 1
    /\ verdicts[tc] # << >> => tc \notin dropped
    /\ tc \notin awaited /\ (\A s \in Slot : tcStore[s] # tc)
         => verdicts[tc] # << >> \/ tc \in dropped

(* The path implements the token discipline of the stores. *)
HolderOf(s) == IF \E p \in Place : HeldBy(s, p)
               THEN CHOOSE p \in Place : HeldBy(s, p)
               ELSE <<"nobody">>

Tokens == INSTANCE TokenStore WITH
            Packet <- Telecommand, Holder <- Place, Nobody <- <<"nobody">>,
            content <- tcStore, holder <- [s \in Slot |-> HolderOf(s)]

ImplementsTokenStore == Tokens!Spec

(* Every packet leaves the store again: the store cannot fill up for ever. *)
StoreDrains == \A s \in Slot : []<>(tcStore[s] = Free)

-----------------------------------------------------------------------------
(* Service 1, "TM[1,1]: Telecommand Acceptance Report - Success": a report *)
(* of acceptance names a telecommand.  The stores need no lock for reading *)
(* where an address "is passed token-like between tasks"                   *)
(* (StorageManagerIF); here the distributor reads the packet for its       *)
(* report after it has passed the address on.                              *)
AcceptanceNamesTelecommand ==
  \A i \in 1 .. Len(verificationQueue) :
    verificationQueue[i].kind = "ACCEPTANCE_SUCCESS" => verificationQueue[i].about # Free
=============================================================================
