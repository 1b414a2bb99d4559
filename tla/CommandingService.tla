------------------------- MODULE CommandingService -------------------------
(***************************************************************************)
(* fsfw/tmtcservices/CommandingServiceBase with the reply handling of      *)
(* Service8FunctionManagement, and the objects it commands through their   *)
(* ActionHelper.  The service takes telecommands from its request queue,   *)
(* sends a command to the target object of each, and reports to the        *)
(* verification service how the command fared, from the object's replies   *)
(* or from a timeout.  Per object one telecommand is active, in an entry   *)
(* of commandMap; a few more wait in the FIFO of the entry.                *)
(*                                                                         *)
(* The service runs its three loops (replies, requests, timeouts) one      *)
(* after the other; a step is one iteration, or one start of a command.    *)
(* The objects run in tasks of their own.                                  *)
(***************************************************************************)
EXTENDS Integers, SequencesExt

CONSTANTS
  NTelecommands,          \* the ground sends telecommands 1 .. NTelecommands
  Object,                 \* the objects, by their command queue
  NumberOfParallelCommands, \* capacity of commandMap
  CommandInfoFifoDepth,   \* COMMAND_INFO_FIFO_DEPTH
  RequestQueueDepth,      \* depth of requestQueue
  CommandQueueDepth,      \* depth of commandQueue
  ObjectQueueDepth,       \* depth of an object's command queue
  TimeoutSeconds,         \* timeoutSeconds
  Targets,                \* the assignments of objects to telecommands
  StartResults,           \* what prepareCommand may return
  ActionResults,          \* what an object's executeAction may return
  Intermediates           \* replies an object gives while it executes

ASSUME CommandingAssumption ==
  /\ {NTelecommands, NumberOfParallelCommands, CommandInfoFifoDepth, RequestQueueDepth,
      CommandQueueDepth, ObjectQueueDepth, TimeoutSeconds} \subseteq Nat
  /\ StartResults \subseteq {"RETURN_OK", "EXECUTION_COMPLETE", "RETURN_FAILED"}
  /\ ActionResults \subseteq {"RETURN_OK", "EXECUTION_FINISHED", "RETURN_FAILED"}
  /\ Intermediates \subseteq {"STEP_SUCCESS", "DATA_REPLY"}
  /\ "NO_OBJECT" \notin Object
  /\ Targets \subseteq [1 .. NTelecommands -> Object \cup {"NO_OBJECT"}]

Telecommand == 1 .. NTelecommands
NoTc == 0

(* Time since uptimeOfStart, as far as it matters; Unset stands for the    *)
(* uninitialised uptimeOfStart of a new entry.                             *)
Unset == -1
Age == 0 .. TimeoutSeconds + 1

VARIABLES
  target,        \* telecommand -> the object it addresses
  sent,          \* number of telecommands sent so far
  packets,       \* telecommands whose packet is in the TC store
  requestQueue,  \* CommandingServiceBase::requestQueue
  commandQueue,  \* CommandingServiceBase::commandQueue: replies
  commandMap,    \* CommandingServiceBase::commandMap
  service,       \* where performOperation is
  objectQueue,   \* object -> telecommands whose commands wait for it
  action,        \* telecommand -> state of the action at its object
  reports        \* telecommand -> its verification reports, in order

vars == <<target, sent, packets, requestQueue, commandQueue, commandMap, service,
          objectQueue, action, reports>>
ground == <<target, sent>>

(* step: the loop performOperation is in, or startExecution; back: the     *)
(* loop to go on with after startExecution; iter: the iterator of          *)
(* checkTimeout; entry, tc: the parameters of startExecution.  Iterators   *)
(* are positions in commandMap.                                            *)
In(loop) == [step |-> loop, back |-> loop, iter |-> 0, entry |-> 0, tc |-> NoTc]
Starting(tc, entry, back, iter) ==
  [step |-> "start", back |-> back, iter |-> iter, entry |-> entry, tc |-> tc]

Init == /\ target \in Targets
        /\ sent = 0
        /\ packets = {}
        /\ requestQueue = << >>
        /\ commandQueue = << >>
        /\ commandMap = << >>
        /\ service = In("commands")
        /\ objectQueue = [o \in Object |-> << >>]
        /\ action = [tc \in Telecommand |-> "idle"]
        /\ reports = [tc \in Telecommand |-> << >>]

-----------------------------------------------------------------------------
(* PUSDistributor puts the next telecommand into the request queue. *)
SendTelecommand ==
  /\ sent < NTelecommands
  /\ Len(requestQueue) < RequestQueueDepth
  /\ sent' = sent + 1
  /\ packets' = packets \cup {sent + 1}
  /\ requestQueue' = Append(requestQueue, sent + 1)
  /\ UNCHANGED <<target, commandQueue, commandMap, service, objectQueue, action, reports>>

-----------------------------------------------------------------------------
(* VerificationReporter *)
Report(tc, kinds) == reports' = [reports EXCEPT ![tc] = @ \o kinds]

(* FixedMap::find: the entry of an object; none is 0 here. *)
Find(o) ==
  IF \E i \in DOMAIN commandMap : commandMap[i].queue = o
  THEN CHOOSE i \in DOMAIN commandMap : commandMap[i].queue = o
  ELSE 0

(* FixedMap::erase moves the last entry to the place of the erased one. *)
Erase(map, i) == Front([map EXCEPT ![i] = Last(map)])

(* Seeded fault: the entry is erased although telecommands wait in it. *)
CheckAndExecuteFifo_Erases(map, i, loop, erased, kept) ==
  /\ commandMap' = Erase(map, i)
  /\ service' = [In(loop) EXCEPT !.iter = erased]

(* Seeded fault: the head of the FIFO is not taken out. *)
CheckAndExecuteFifo_Peeks(map, i, loop, erased, kept) ==
  IF map[i].fifo = << >>
  THEN /\ commandMap' = Erase(map, i)
       /\ service' = [In(loop) EXCEPT !.iter = erased]
  ELSE /\ commandMap' = map
       /\ service' = Starting(Head(map[i].fifo), i, loop, kept)

(* checkAndExecuteFifo for entry i: erase it, or start the next command.   *)
(* erased and kept are what the iterator of checkTimeout becomes then.     *)
CheckAndExecuteFifo(map, i, loop, erased, kept) ==
  IF map[i].fifo = << >>
  THEN /\ commandMap' = Erase(map, i)
       /\ service' = [In(loop) EXCEPT !.iter = erased]
  ELSE /\ commandMap' = [map EXCEPT ![i].fifo = Tail(@)]
       /\ service' = Starting(Head(map[i].fifo), i, loop, kept)

-----------------------------------------------------------------------------
(* The report that handleCommandMessage makes of a reply: handleReply of   *)
(* Service 8 classifies it.  A data reply counts as the completion, or as  *)
(* a failure when its telemetry cannot be sent (handleDataReply).          *)
ReportOf(reply) ==
  CASE reply = "COMPLETION_SUCCESS" -> {"COMPLETION_SUCCESS"}
    [] reply = "COMPLETION_FAILED"  -> {"COMPLETION_FAILURE"}
    [] reply = "STEP_SUCCESS"       -> {"PROGRESS_SUCCESS"}
    [] reply = "STEP_FAILED"        -> {"PROGRESS_FAILURE"}
    [] reply = "DATA_REPLY"         -> {"COMPLETION_SUCCESS", "COMPLETION_FAILURE"}

(* Seeded fault: a step ends the command. *)
EndsCommand_Always(report) == TRUE

EndsCommand(report) == report # "PROGRESS_SUCCESS"

(* handleCommandQueue, one reply: it belongs to the active command of its  *)
(* sender; one without an entry is unrequested.                            *)
HandleCommandMessage ==
  LET reply == Head(commandQueue)
      i == Find(reply.sender)
  IN  /\ service.step = "commands"
      /\ commandQueue # << >>
      /\ commandQueue' = Tail(commandQueue)
      /\ IF i = 0 THEN UNCHANGED <<commandMap, service, reports>>
         ELSE \E report \in ReportOf(reply.kind) :
                /\ Report(commandMap[i].tc, <<report>>)
                /\ IF EndsCommand(report)
                   THEN CheckAndExecuteFifo(commandMap, i, "commands", 0, 0)
                   ELSE UNCHANGED <<commandMap, service>>
      /\ UNCHANGED <<ground, packets, requestQueue, objectQueue, action>>

CommandQueueEmpty ==
  /\ service.step = "commands"
  /\ commandQueue = << >>
  /\ service' = In("requests")
  /\ UNCHANGED <<ground, packets, requestQueue, commandQueue, commandMap, objectQueue,
                 action, reports>>

-----------------------------------------------------------------------------
(* Seeded fault: a rejected telecommand keeps its packet. *)
Reject_KeepsPacket(tc) == /\ Report(tc, <<"START_FAILURE">>)
                          /\ UNCHANGED packets

(* rejectPacket *)
Reject(tc) == /\ Report(tc, <<"START_FAILURE">>)
              /\ packets' = packets \ {tc}

(* Seeded fault: the FIFO takes one telecommand too many. *)
FifoFull_OffByOne(i) == Len(commandMap[i].fifo) > CommandInfoFifoDepth

FifoFull(i) == Len(commandMap[i].fifo) = CommandInfoFifoDepth

NewInfo(o) == [queue |-> o, tc |-> NoTc, age |-> Unset, fifo |-> << >>]

(* handleRequestQueue, one telecommand: no valid subservice or object,     *)
(* a command active for the object (OBJECT_BUSY when too many wait), no    *)
(* room in the map (BUSY), or startExecution.                              *)
HandleRequest ==
  LET tc == Head(requestQueue)
      o == target[tc]
      i == Find(o)
  IN  /\ service.step = "requests"
      /\ requestQueue # << >>
      /\ requestQueue' = Tail(requestQueue)
      /\ CASE o = "NO_OBJECT" -> Reject(tc) /\ UNCHANGED <<commandMap, service>>
           [] o # "NO_OBJECT" /\ i # 0 ->
                /\ IF FifoFull(i)
                   THEN Reject(tc) /\ UNCHANGED commandMap
                   ELSE /\ commandMap' = [commandMap EXCEPT ![i].fifo = Append(@, tc)]
                        /\ UNCHANGED <<packets, reports>>
                /\ UNCHANGED service
           [] o # "NO_OBJECT" /\ i = 0 ->
                IF Len(commandMap) = NumberOfParallelCommands
                THEN Reject(tc) /\ UNCHANGED <<commandMap, service>>
                ELSE /\ commandMap' = Append(commandMap, NewInfo(o))
                     /\ service' = Starting(tc, Len(commandMap) + 1, "requests", 0)
                     /\ UNCHANGED <<packets, reports>>
      /\ UNCHANGED <<ground, commandQueue, objectQueue, action>>

Older(age, passed) == IF age + passed \in Age THEN age + passed ELSE TimeoutSeconds + 1

(* The request loop ends and checkTimeout reads the clock.  It is ahead of *)
(* that of the last cycle, by less or by more than the timeout.            *)
RequestQueueEmpty ==
  /\ service.step = "requests"
  /\ requestQueue = << >>
  /\ \E passed \in 1 .. TimeoutSeconds + 1 :
       commandMap' = [i \in DOMAIN commandMap |->
                        [commandMap[i] EXCEPT !.age = Older(@, passed)]]
  /\ service' = [In("timeouts") EXCEPT !.iter = 1]
  /\ UNCHANGED <<ground, packets, requestQueue, commandQueue, objectQueue, action, reports>>

-----------------------------------------------------------------------------
(* startExecution works on a copy of the iterator: when it erases the      *)
(* entry, the iterator of checkTimeout stays where it is.                  *)
EndAtOnce(map) ==
  CheckAndExecuteFifo(map, service.entry, service.back, service.iter, service.iter)

Started(i, tc) == [commandMap EXCEPT ![i].tc = tc, ![i].age = 0]

(* startExecution: prepareCommand accepts the telecommand and its command  *)
(* is sent, completes it at once, or fails; the packet is deleted in every *)
(* case.                                                                   *)
StartExecution(result) ==
  LET i == service.entry
      tc == service.tc
      o == commandMap[i].queue
      taken == result = "RETURN_OK" /\ Len(objectQueue[o]) < ObjectQueueDepth
  IN  /\ service.step = "start"
      /\ packets' = packets \ {tc}
      /\ objectQueue' = IF taken THEN [objectQueue EXCEPT ![o] = Append(@, tc)] ELSE objectQueue
      /\ CASE taken ->
                /\ Report(tc, <<"START_SUCCESS">>)
                /\ commandMap' = Started(i, tc)
                /\ service' = [In(service.back) EXCEPT !.iter = service.iter]
           [] result = "EXECUTION_COMPLETE" ->
                /\ Report(tc, <<"START_SUCCESS", "COMPLETION_SUCCESS">>)
                /\ EndAtOnce(commandMap)
           [] ~taken /\ result # "EXECUTION_COMPLETE" ->
                /\ Report(tc, <<"START_FAILURE">>)
                /\ EndAtOnce(commandMap)
      /\ UNCHANGED <<ground, requestQueue, commandQueue, action>>

-----------------------------------------------------------------------------
(* checkTimeout, one iteration.  An iterator past the end is not the end:  *)
(* what the loop does then is undefined, and the model stops there.        *)
End == Len(commandMap) + 1

(* Seeded fault: the timeout is compared in the wrong unit. *)
TimedOut_Never(i) == commandMap[i].age > TimeoutSeconds * 1000

TimedOut(i) == commandMap[i].age > TimeoutSeconds

CheckTimeout ==
  LET i == service.iter IN
  /\ service.step = "timeouts"
  /\ i < End
  /\ IF TimedOut(i)
     THEN /\ Report(commandMap[i].tc, <<"TIMEOUT">>)
          /\ CheckAndExecuteFifo(commandMap, i, "timeouts", i, i + 1)
     ELSE /\ service' = [service EXCEPT !.iter = i + 1]
          /\ UNCHANGED <<commandMap, reports>>
  /\ UNCHANGED <<ground, packets, requestQueue, commandQueue, objectQueue, action>>

TimeoutsChecked ==
  /\ service.step = "timeouts"
  /\ service.iter = End
  /\ service' = In("commands")
  /\ UNCHANGED <<ground, packets, requestQueue, commandQueue, commandMap, objectQueue,
                 action, reports>>

-----------------------------------------------------------------------------
(* An object replies through its ActionHelper; a full command queue drops  *)
(* the reply.                                                              *)
Reply(o, tc, kinds) ==
  LET room == CommandQueueDepth - Len(commandQueue)
      delivered == SubSeq(kinds, 1, IF room < Len(kinds) THEN room ELSE Len(kinds))
  IN  commandQueue' = commandQueue \o
        [k \in DOMAIN delivered |-> [sender |-> o, for |-> tc, kind |-> delivered[k]]]

(* prepareExecution.  An action that is finished at once gives two         *)
(* replies: setCompletionReply and setStepReply both make a failure of     *)
(* EXECUTION_FINISHED.                                                     *)
ExecuteAction(o, result) ==
  LET tc == Head(objectQueue[o]) IN
  /\ objectQueue[o] # << >>
  /\ objectQueue' = [objectQueue EXCEPT ![o] = Tail(@)]
  /\ CASE result = "RETURN_OK" ->
            action' = [action EXCEPT ![tc] = "executing"] /\ UNCHANGED commandQueue
       [] result = "EXECUTION_FINISHED" ->
            /\ action' = [action EXCEPT ![tc] = "finished"]
            /\ Reply(o, tc, <<"COMPLETION_FAILED", "STEP_FAILED">>)
       [] result = "RETURN_FAILED" ->
            Reply(o, tc, <<"STEP_FAILED">>) /\ UNCHANGED action
  /\ UNCHANGED <<ground, packets, requestQueue, commandMap, service, reports>>

(* step and reportData: an intermediate reply, at most one per action in   *)
(* the model.                                                              *)
Intermediate(tc, kind) ==
  /\ action[tc] = "executing"
  /\ action' = [action EXCEPT ![tc] = "underway"]
  /\ Reply(target[tc], tc, <<kind>>)
  /\ UNCHANGED <<ground, packets, requestQueue, commandMap, service, objectQueue, reports>>

(* finish *)
Finish(tc, kind) ==
  /\ action[tc] \in {"executing", "underway"}
  /\ action' = [action EXCEPT ![tc] = "idle"]
  /\ Reply(target[tc], tc, <<kind>>)
  /\ UNCHANGED <<ground, packets, requestQueue, commandMap, service, objectQueue, reports>>

-----------------------------------------------------------------------------
PerformOperation ==
  \/ HandleCommandMessage \/ CommandQueueEmpty
  \/ HandleRequest \/ RequestQueueEmpty
  \/ \E result \in StartResults : StartExecution(result)
  \/ CheckTimeout \/ TimeoutsChecked

ObjectStep ==
  \/ \E o \in Object, result \in ActionResults : ExecuteAction(o, result)
  \/ \E tc \in Telecommand :
       \/ \E kind \in Intermediates : Intermediate(tc, kind)
       \/ \E kind \in {"COMPLETION_SUCCESS", "COMPLETION_FAILED"} : Finish(tc, kind)

Next == SendTelecommand \/ PerformOperation \/ ObjectStep

(* The service runs periodically.  Nothing is asked of the objects. *)
Spec == Init /\ [][Next]_vars
FairSpec == Spec /\ WF_vars(PerformOperation)

-----------------------------------------------------------------------------
Verdicts == {"START_FAILURE", "PROGRESS_FAILURE", "COMPLETION_SUCCESS",
             "COMPLETION_FAILURE", "TIMEOUT"}
HasVerdict(tc) == \E k \in DOMAIN reports[tc] : reports[tc][k] \in Verdicts

(* Every variable has its type and no queue, map or FIFO is over its size. *)
TypeOK ==
  /\ target \in [Telecommand -> Object \cup {"NO_OBJECT"}]
  /\ sent \in 0 .. NTelecommands
  /\ packets \subseteq Telecommand
  /\ requestQueue \in Seq(Telecommand) /\ Len(requestQueue) <= RequestQueueDepth
  /\ Len(commandQueue) <= CommandQueueDepth
  /\ \A i \in DOMAIN commandQueue :
       commandQueue[i] \in [sender : Object, for : Telecommand,
                            kind : {"COMPLETION_SUCCESS", "COMPLETION_FAILED",
                                    "STEP_SUCCESS", "STEP_FAILED", "DATA_REPLY"}]
  /\ Len(commandMap) <= NumberOfParallelCommands
  /\ \A i \in DOMAIN commandMap :
       /\ commandMap[i] \in [queue : Object, tc : Telecommand \cup {NoTc},
                             age : Age \cup {Unset}, fifo : Seq(Telecommand)]
       /\ Len(commandMap[i].fifo) <= CommandInfoFifoDepth
       /\ Find(commandMap[i].queue) = i
  /\ service \in [step : {"commands", "requests", "timeouts", "start"},
                  back : {"commands", "requests", "timeouts"},
                  iter : Nat, entry : Nat, tc : Telecommand \cup {NoTc}]
  /\ \A o \in Object : /\ objectQueue[o] \in Seq(Telecommand)
                       /\ Len(objectQueue[o]) <= ObjectQueueDepth
  /\ \A tc \in Telecommand : /\ action[tc] \in {"idle", "executing", "underway", "finished"}
                             /\ reports[tc] \in Seq(Verdicts \cup {"START_SUCCESS", "PROGRESS_SUCCESS"})

(* The ground can rely on the reports of a telecommand: either one start   *)
(* failure and nothing else, or first the start, then steps, and at most   *)
(* one verdict, which is the last report - in whatever order replies of    *)
(* several objects, timeouts and queued commands come.                     *)
OneVerdict ==
  \A tc \in Telecommand : \A k \in DOMAIN reports[tc] :
    LET r == reports[tc][k] IN
    /\ r \in Verdicts => k = Len(reports[tc])
    /\ r = "START_SUCCESS" \/ r = "START_FAILURE" <=> k = 1

(* Where a telecommand that is not decided yet can be: waiting for the     *)
(* service, waiting in a FIFO, being started, or active.                   *)
Waits(tc) == \E k \in DOMAIN requestQueue : requestQueue[k] = tc
WaitsIn(tc, i) == \E k \in DOMAIN commandMap[i].fifo : commandMap[i].fifo[k] = tc
Starts(tc) == service.step = "start" /\ service.tc = tc
Active(tc, i) == /\ commandMap[i].tc = tc
                 /\ ~(service.step = "start" /\ service.entry = i)

(* No telecommand is forgotten and none is kept for longer than needed: it *)
(* is in the service's hands until its verdict, in one entry at most, and  *)
(* its packet is in the store until its start is reported.                 *)
InHand ==
  \A tc \in 1 .. sent :
    /\ ~HasVerdict(tc) <=> \/ Waits(tc) \/ Starts(tc)
                           \/ \E i \in DOMAIN commandMap : WaitsIn(tc, i) \/ Active(tc, i)
    /\ tc \in packets <=> reports[tc] = << >>
    /\ \A i, j \in DOMAIN commandMap :
         (WaitsIn(tc, i) \/ Active(tc, i)) /\ (WaitsIn(tc, j) \/ Active(tc, j)) => i = j

(* Commands for one object start in the order of their telecommands. *)
StartsInOrder ==
  \A a, b \in Telecommand :
    a < b /\ target[a] = target[b] /\ reports[b] # << >> /\ reports[b][1] = "START_SUCCESS"
      => reports[a] # << >>

(* A reply is only ever taken for another telecommand's when the verdict   *)
(* on its own is out already (it came after a timeout, a data reply or a   *)
(* second reply).                                                          *)
RepliesAreNotMixedUp ==
  [][\A tc \in Telecommand :
       service.step = "commands" /\ reports'[tc] # reports[tc] =>
         LET for == Head(commandQueue).for IN for = tc \/ HasVerdict(for)]_vars

(* Every telecommand gets its verdict, even if its object never answers,   *)
(* unless the iterator of checkTimeout has left the map.                   *)
Lost == service.step = "timeouts" /\ service.iter > End
EveryTelecommandEnds ==
  \A tc \in Telecommand : (sent >= tc) ~> (HasVerdict(tc) \/ Lost)

-----------------------------------------------------------------------------
(* FixedMap: the "Iterator is used to access <key,value> pair and iterate  *)
(* through map entries": the iterator of checkTimeout never passes end().  *)
IteratorInMap == ~Lost
=============================================================================
