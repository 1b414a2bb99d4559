------------------------------ MODULE Subsystem ------------------------------
(***************************************************************************)
(* A Subsystem and its children in the mode tree.  A mode of the subsystem *)
(* is a sequence: a target table, which says in what modes the children    *)
(* are to be kept, and steps, whose tables command them one after another. *)
(* Children answer to whoever commanded them (ModeHelper); they fail, are  *)
(* commanded by others and change their health while a sequence runs.      *)
(*                                                                         *)
(* The queue of the subsystem is seen as one queue per child, as messages  *)
(* of different children arrive in any order.  It never runs full here: a  *)
(* lost reply would block the subsystem for good (there is no timeout).    *)
(* Submodes are left out, and children refuse commands in transition, as   *)
(* device handlers do.                                                     *)
(***************************************************************************)
EXTENDS Integers, Sequences, FiniteSets, Functions

CONSTANTS
  Child,
  ChildMode, OFF, UNKNOWN,   \* UNKNOWN: -1 of registerChild
  Sequence,                  \* modes of the subsystem
  InitialMode,
  Fallback,                  \* [Sequence -> Sequence]
  Target,                    \* Target[s]: a table, a function from some children to modes
  Steps,                     \* Steps[s]: its steps, [table, check, wait]
  InboxDepth,                \* of a child's command queue
  OutboxDepth,               \* messages of a child that the subsystem has not read
  Disturbances               \* bound on commands and changes from outside

Table == UNION {[S -> ChildMode] : S \in SUBSET Child}

\* checkObjectConnections has been passed
ASSUME SubsystemAssumption ==
  /\ OFF \in ChildMode /\ UNKNOWN \notin ChildMode
  /\ InitialMode \in Sequence /\ Fallback \in [Sequence -> Sequence]
  /\ IsFiniteSet(Child) /\ Target \in [Sequence -> Table]
  /\ \A s \in Sequence : Steps[s] \in Seq([table : Table, check : BOOLEAN, wait : BOOLEAN])
  /\ InboxDepth \in Nat \ {0} /\ OutboxDepth \in Nat \ {0} /\ Disturbances \in Nat

Health == {"HEALTHY", "FAULTY", "EXTERNAL_CONTROL"}   \* FAULTY as isFaulty has it
Report == [kind : {"REPLY_MODE_REPLY", "REPLY_MODE_INFO"}, mode : ChildMode]
            \union [kind : {"REPLY_CANT_REACH_MODE", "HEALTH_INFO"}]

VARIABLES
  mode, targetMode, isInTransition, forced,
  currentTargetTable, currentSequenceIterator,
  commandsOutstanding,
  uptimeStartTable,          \* "0", "running" or "over"
  childrenMap,               \* the children's modes as the subsystem knows them
  childrenChangedMode, childrenChangedHealth,
  health,                    \* the health table
  child,                     \* [mode, moving, by]
  inbox, outbox,             \* commands to and messages from each child
  disturbed

own == <<mode, targetMode, isInTransition, forced, currentTargetTable,
         currentSequenceIterator, uptimeStartTable>>
known == <<childrenMap, childrenChangedMode, childrenChangedHealth>>
world == <<health, child, outbox>>
vars == <<own, known, world, commandsOutstanding, inbox, disturbed>>

NoTable == [c \in {} |-> OFF]

Init ==
  /\ mode = InitialMode /\ targetMode = InitialMode
  /\ isInTransition = FALSE /\ forced = FALSE
  /\ currentTargetTable = NoTable /\ currentSequenceIterator = 1
  /\ commandsOutstanding = 0 /\ uptimeStartTable = "0"
  /\ childrenMap = [c \in Child |-> UNKNOWN]
  /\ childrenChangedMode = FALSE /\ childrenChangedHealth = FALSE
  /\ health = [c \in Child |-> "HEALTHY"]
  /\ child = [c \in Child |-> [mode |-> OFF, moving |-> FALSE, by |-> "none"]]
  /\ inbox = [c \in Child |-> <<>>] /\ outbox = [c \in Child |-> <<>>]
  /\ disturbed = 0

Disturb == disturbed < Disturbances /\ disturbed' = disturbed + 1

-----------------------------------------------------------------------------
(***************************************************************************)
(* Tables.  f says whether the commands are forced.                        *)
(***************************************************************************)
checkStateAgainstTable(table) ==
  \A c \in DOMAIN table : childrenMap[c] = table[c]

\* A faulty child is switched off whatever the table says
ModeFor(table, c) == IF health[c] = "FAULTY" THEN OFF ELSE table[c]

\* No redundant commands, and none to children under external control, unless
\* forced
ToCommand(table, f) ==
  {c \in DOMAIN table : \/ f
                        \/ /\ health[c] # "EXTERNAL_CONTROL"
                           /\ childrenMap[c] # ModeFor(table, c)}

\* A command that a child's queue does not take is not waited for
executeTable(table, f) ==
  LET sent == {c \in ToCommand(table, f) : Len(inbox[c]) < InboxDepth}
  IN  /\ inbox' = [c \in Child |-> IF c \in sent THEN Append(inbox[c], ModeFor(table, c))
                                   ELSE inbox[c]]
      /\ commandsOutstanding' = Cardinality(sent)

startTransition_IteratorKept(s, f) ==
  /\ targetMode' = s /\ isInTransition' = TRUE
  /\ currentTargetTable' = Target[s] /\ UNCHANGED currentSequenceIterator
  /\ executeTable(Steps[s][1].table, f)
  /\ UNCHANGED uptimeStartTable

\* uptimeStartTable is not reset
startTransition(s, f) ==
  /\ targetMode' = s /\ isInTransition' = TRUE
  /\ currentTargetTable' = Target[s] /\ currentSequenceIterator' = 1
  /\ IF Steps[s] = <<>>
     THEN commandsOutstanding' = 0 /\ UNCHANGED inbox
     ELSE executeTable(Steps[s][1].table, f)
  /\ UNCHANGED uptimeStartTable

\* Back to where it came from; if that is what has failed, to the fallback
transitionFailed ==
  IF mode = targetMode
  THEN mode' = Fallback[mode] /\ forced' = TRUE /\ startTransition(Fallback[mode], TRUE)
  ELSE startTransition(mode, forced) /\ UNCHANGED <<mode, forced>>

cantKeepMode ==
  mode' = Fallback[mode] /\ forced' = TRUE /\ startTransition(Fallback[mode], TRUE)

-----------------------------------------------------------------------------
(***************************************************************************)
(* checkCommandQueue.                                                      *)
(***************************************************************************)
\* A forced command sets "forced" even if it is refused
ModeCommand ==
  /\ Disturb
  /\ \E s \in Sequence, force \in BOOLEAN :
       LET f == forced \/ force
       IN  /\ forced' = f
           /\ IF isInTransition /\ s # Fallback[targetMode]
              THEN UNCHANGED <<targetMode, isInTransition, currentTargetTable, inbox,
                               currentSequenceIterator, uptimeStartTable, commandsOutstanding>>
              ELSE startTransition(s, f)
  /\ UNCHANGED <<mode, known, world>>

handleModeReply_LateIgnored(c, m) ==
  /\ CASE m.kind = "REPLY_MODE_INFO" ->
            /\ childrenMap' = [childrenMap EXCEPT ![c] = m.mode]
            /\ childrenChangedMode' = TRUE /\ UNCHANGED commandsOutstanding
       [] m.kind = "REPLY_MODE_REPLY" ->
            /\ childrenMap' = [childrenMap EXCEPT ![c] = m.mode]
            /\ commandsOutstanding' = commandsOutstanding - 1
            /\ UNCHANGED childrenChangedMode
       [] m.kind = "REPLY_CANT_REACH_MODE" ->
            /\ commandsOutstanding' = commandsOutstanding - 1
            /\ UNCHANGED <<childrenMap, childrenChangedMode>>
  /\ UNCHANGED childrenChangedHealth

handleModeReply_RefusalIgnored(c, m) ==
  /\ IF m.kind = "REPLY_CANT_REACH_MODE"
     THEN UNCHANGED <<childrenMap, childrenChangedMode>>
     ELSE childrenMap' = [childrenMap EXCEPT ![c] = m.mode] /\ childrenChangedMode' = TRUE
  /\ commandsOutstanding' = commandsOutstanding - (IF m.kind = "REPLY_MODE_REPLY" THEN 1 ELSE 0)
  /\ UNCHANGED childrenChangedHealth

\* Replies of either kind count, even those to a table that was given up
handleModeReply(c, m) ==
  /\ IF m.kind = "REPLY_CANT_REACH_MODE"
     THEN UNCHANGED <<childrenMap, childrenChangedMode>>
     ELSE childrenMap' = [childrenMap EXCEPT ![c] = m.mode] /\ childrenChangedMode' = TRUE
  /\ commandsOutstanding' = commandsOutstanding - (IF m.kind = "REPLY_MODE_INFO" THEN 0 ELSE 1)
  /\ UNCHANGED childrenChangedHealth

handleCommandMessage ==
  /\ childrenChangedHealth' = TRUE
  /\ UNCHANGED <<childrenMap, childrenChangedMode, commandsOutstanding>>

HandleMessage ==
  /\ \E c \in Child :
       /\ outbox[c] # <<>>
       /\ outbox' = [outbox EXCEPT ![c] = Tail(@)]
       /\ IF Head(outbox[c]).kind = "HEALTH_INFO" THEN handleCommandMessage
          ELSE handleModeReply(c, Head(outbox[c]))
  /\ UNCHANGED <<own, health, child, inbox, disturbed>>

-----------------------------------------------------------------------------
(***************************************************************************)
(* performChildOperation, once the queue is empty.  With it begins the     *)
(* next cycle, which resets childrenChangedMode.                           *)
(***************************************************************************)
Step == Steps[targetMode][currentSequenceIterator]
Through == currentSequenceIterator > Len(Steps[targetMode])
Unreached == ~Through /\ Step.check /\ ~checkStateAgainstTable(Step.table)

TargetReached ==
  /\ Through /\ checkStateAgainstTable(currentTargetTable)
  /\ mode' = targetMode /\ forced' = FALSE /\ isInTransition' = FALSE
  /\ UNCHANGED <<targetMode, currentTargetTable, currentSequenceIterator,
                 uptimeStartTable, commandsOutstanding, inbox>>

TargetMissed ==
  /\ Through /\ ~checkStateAgainstTable(currentTargetTable)
  /\ transitionFailed

TableCheckFailed == Unreached /\ transitionFailed

StartWaiting ==
  /\ ~Through /\ ~Unreached /\ Step.wait /\ uptimeStartTable = "0"
  /\ uptimeStartTable' = "running"
  /\ UNCHANGED <<mode, targetMode, isInTransition, forced, currentTargetTable,
                 currentSequenceIterator, commandsOutstanding, inbox>>

NextTable ==
  /\ ~Through /\ ~Unreached
  /\ Step.wait => uptimeStartTable = "over"
  /\ uptimeStartTable' = "0"
  /\ currentSequenceIterator' = currentSequenceIterator + 1
  /\ IF currentSequenceIterator < Len(Steps[targetMode])
     THEN executeTable(Steps[targetMode][currentSequenceIterator + 1].table, forced)
     ELSE UNCHANGED <<commandsOutstanding, inbox>>
  /\ UNCHANGED <<mode, targetMode, isInTransition, forced, currentTargetTable>>

InTransition ==
  /\ isInTransition /\ commandsOutstanding <= 0
  /\ TargetReached \/ TargetMissed \/ TableCheckFailed \/ StartWaiting \/ NextTable
  /\ UNCHANGED childrenChangedHealth

ChildChangedHealth ==
  /\ ~isInTransition /\ childrenChangedHealth
  /\ childrenChangedHealth' = FALSE
  /\ startTransition(mode, forced) /\ UNCHANGED <<mode, forced>>

CantKeepMode ==
  /\ ~isInTransition /\ ~childrenChangedHealth
  /\ childrenChangedMode /\ ~checkStateAgainstTable(currentTargetTable)
  /\ cantKeepMode /\ UNCHANGED childrenChangedHealth

NothingToDo ==
  /\ \/ isInTransition /\ commandsOutstanding > 0
     \/ /\ isInTransition /\ commandsOutstanding <= 0 /\ ~Through /\ ~Unreached
        /\ Step.wait /\ uptimeStartTable = "running"
     \/ /\ ~isInTransition /\ ~childrenChangedHealth
        /\ childrenChangedMode => checkStateAgainstTable(currentTargetTable)
  /\ UNCHANGED <<own, commandsOutstanding, inbox, childrenChangedHealth>>

PerformChildOperation ==
  /\ \A c \in Child : outbox[c] = <<>>
  /\ InTransition \/ ChildChangedHealth \/ CantKeepMode \/ NothingToDo
  /\ childrenChangedMode' = FALSE
  /\ UNCHANGED <<childrenMap, world, disturbed>>

TimePasses ==
  /\ uptimeStartTable = "running" /\ uptimeStartTable' = "over"
  /\ UNCHANGED <<mode, targetMode, isInTransition, forced, currentTargetTable,
                 currentSequenceIterator, known, world, commandsOutstanding, inbox, disturbed>>

-----------------------------------------------------------------------------
(***************************************************************************)
(* The children, with what their ModeHelper and HealthHelper tell the      *)
(* parent.  A child may end a transition in any mode.                      *)
(***************************************************************************)
HasRoom(c) == Len(outbox[c]) < OutboxDepth
Tell(c, m) == HasRoom(c) /\ outbox' = [outbox EXCEPT ![c] = Append(@, m)]

\* The parent gets a reply if it gave the command, and else an information
modeChanged_OnlyReplies(c, m) ==
  IF child[c].by = "subsystem" THEN Tell(c, [kind |-> "REPLY_MODE_REPLY", mode |-> m])
  ELSE UNCHANGED outbox
modeChanged(c, m) ==
  Tell(c, [kind |-> IF child[c].by = "subsystem" THEN "REPLY_MODE_REPLY"
                    ELSE "REPLY_MODE_INFO", mode |-> m])

TakeCommand(c) ==
  /\ inbox[c] # <<>> /\ inbox' = [inbox EXCEPT ![c] = Tail(@)]
  /\ \/ /\ ~child[c].moving
        /\ child' = [child EXCEPT ![c].moving = TRUE, ![c].by = "subsystem"]
        /\ UNCHANGED outbox
     \/ /\ Tell(c, [kind |-> "REPLY_CANT_REACH_MODE"])      \* or it may refuse at any time
        /\ UNCHANGED child
  /\ UNCHANGED <<own, known, health, commandsOutstanding, disturbed>>

Settle(c) ==
  /\ child[c].moving
  /\ \E m \in ChildMode :
       /\ modeChanged(c, m)
       /\ child' = [child EXCEPT ![c] = [mode |-> m, moving |-> FALSE, by |-> "none"]]
  /\ UNCHANGED <<own, known, health, commandsOutstanding, inbox, disturbed>>

Leave_InTransition(c) ==
  /\ Disturb
  /\ child' = [child EXCEPT ![c].moving = TRUE, ![c].by = "none"]
  /\ UNCHANGED health
  /\ UNCHANGED <<own, known, commandsOutstanding, inbox, outbox>>

\* By itself, or on a command of another, which takes external control: of
\* that the subsystem hears nothing it listens to
Leave(c) ==
  /\ Disturb /\ ~child[c].moving
  /\ child' = [child EXCEPT ![c].moving = TRUE]
  /\ \/ UNCHANGED health
     \/ health' = [health EXCEPT ![c] = "EXTERNAL_CONTROL"]
  /\ UNCHANGED <<own, known, commandsOutstanding, inbox, outbox>>

SetHealth(c) ==
  /\ Disturb
  /\ \E h \in Health \ {health[c]} :
       /\ health' = [health EXCEPT ![c] = h]
       /\ IF h = "EXTERNAL_CONTROL" THEN UNCHANGED outbox ELSE Tell(c, [kind |-> "HEALTH_INFO"])
  /\ UNCHANGED <<own, known, commandsOutstanding, child, inbox>>

SubsystemStep == ModeCommand \/ HandleMessage \/ PerformChildOperation
Next == SubsystemStep \/ TimePasses
        \/ \E c \in Child : TakeCommand(c) \/ Settle(c) \/ Leave(c) \/ SetHealth(c)

\* The tasks go on, clocks too, and a child's transition ends (DeviceModes)
Fairness == /\ WF_vars(HandleMessage) /\ WF_vars(PerformChildOperation)
            /\ WF_vars(TimePasses)
            /\ \A c \in Child : WF_vars(TakeCommand(c)) /\ WF_vars(Settle(c))
Spec == Init /\ [][Next]_vars /\ Fairness

-----------------------------------------------------------------------------
\* The commands not taken, the transition and the replies not read by which
\* child c still owes the subsystem a reply
Owed(c) ==
  ({"inbox"} \X DOMAIN inbox[c])
    \union (IF child[c].moving /\ child[c].by = "subsystem" THEN {<<"child", 1>>} ELSE {})
    \union ({"outbox"} \X {i \in DOMAIN outbox[c] :
                              outbox[c][i].kind \in {"REPLY_MODE_REPLY", "REPLY_CANT_REACH_MODE"}})
AllOwed == UNION {{c} \X Owed(c) : c \in Child}

TypeOK ==
  /\ mode \in Sequence /\ targetMode \in Sequence
  /\ isInTransition \in BOOLEAN /\ forced \in BOOLEAN
  /\ currentTargetTable \in {NoTable} \union Range(Target)
  /\ currentSequenceIterator \in 1 .. Len(Steps[targetMode]) + 1
  /\ commandsOutstanding \in Int /\ uptimeStartTable \in {"0", "running", "over"}
  /\ childrenMap \in [Child -> ChildMode \union {UNKNOWN}]
  /\ childrenChangedMode \in BOOLEAN /\ childrenChangedHealth \in BOOLEAN
  /\ health \in [Child -> Health]
  /\ child \in [Child -> [mode : ChildMode, moving : BOOLEAN, by : {"none", "subsystem"}]]
  /\ \A c \in Child : /\ Len(inbox[c]) <= InboxDepth /\ Range(inbox[c]) \subseteq ChildMode
                      /\ Len(outbox[c]) <= OutboxDepth /\ Range(outbox[c]) \subseteq Report
  /\ disturbed \in 0 .. Disturbances

\* What the subsystem believes of a child it has heard of is true as soon as
\* all messages are read and the child rests, whoever commanded the child
UnderstandsChildren ==
  \A c \in Child :
    outbox[c] = <<>> /\ ~child[c].moving => childrenMap[c] \in {UNKNOWN, child[c].mode}

\* The subsystem never waits for more replies than are on their way: tables
\* given up, refused commands and full queues leave no reply that nobody sends
WaitsForSomebody == commandsOutstanding <= Cardinality(AllOwed)

\* A subsystem that rests does not put up with a child in a mode other than
\* its table's: as long as one is known to deviate, it is about to act on it
LeavesNoDeviation ==
  isInTransition \/ childrenChangedMode \/ childrenChangedHealth
    \/ checkStateAgainstTable(currentTargetTable)

\* When the subsystem goes on to the next step, "all children of the current
\* table were commanded and replied": no command to one of them is still open
AllReplied == [][NextTable => \A c \in DOMAIN Step.table : Owed(c) = {}]_vars

\* A table that is being executed is done some day: the children reply, or
\* refuse, and none of that is miscounted
EveryTableEnds == commandsOutstanding > 0 ~> commandsOutstanding <= 0
=============================================================================
