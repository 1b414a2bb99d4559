-------------------------- MODULE Subsystem_proofs --------------------------
(***************************************************************************)
(* Theorems about a subsystem and its children, for any finite number of   *)
(* children, any modes, tables and sequences, and any number of things     *)
(* that happen outside: types, what the subsystem knows of its children,   *)
(* what it waits for, and that it does not rest beside a deviating child.  *)
(***************************************************************************)
EXTENDS Subsystem, FiniteSetTheorems, TLAPS

-----------------------------------------------------------------------------
(***************************************************************************)
(* Queues.                                                                 *)
(***************************************************************************)
LEMMA Shortened ==
  ASSUME NEW S, NEW q \in Seq(S), q # <<>>
  PROVE  /\ Head(q) \in S /\ Head(q) = q[1] /\ 1 \in DOMAIN q
         /\ Tail(q) \in Seq(S) /\ Len(Tail(q)) = Len(q) - 1
         /\ \A i \in DOMAIN Tail(q) : i + 1 \in DOMAIN q /\ Tail(q)[i] = q[i + 1]
         /\ \A i \in DOMAIN q : i # 1 => i - 1 \in DOMAIN Tail(q)
  OBVIOUS

LEMMA Lengthened ==
  ASSUME NEW S, NEW q \in Seq(S), NEW x \in S
  PROVE  /\ Append(q, x) \in Seq(S) /\ Len(Append(q, x)) = Len(q) + 1
         /\ DOMAIN Append(q, x) = DOMAIN q \union {Len(q) + 1}
         /\ \A i \in DOMAIN q : i # Len(q) + 1 /\ Append(q, x)[i] = q[i]
         /\ Append(q, x)[Len(q) + 1] = x
  OBVIOUS

LEMMA Element ==
  ASSUME NEW S, NEW q \in Seq(S), NEW i \in 1 .. Len(q)
  PROVE  q[i] \in S
  OBVIOUS

LEMMA Ranged ==
  ASSUME NEW S, NEW q \in Seq(S)
  PROVE  Range(q) \subseteq S
  BY DEF Range

-----------------------------------------------------------------------------
(***************************************************************************)
(* Types, by the parts of the state that change together.                  *)
(***************************************************************************)
OwnTyped ==
  /\ mode \in Sequence /\ targetMode \in Sequence
  /\ isInTransition \in BOOLEAN /\ forced \in BOOLEAN
  /\ currentTargetTable \in {NoTable} \union Range(Target)
  /\ currentSequenceIterator \in 1 .. Len(Steps[targetMode]) + 1
  /\ uptimeStartTable \in {"0", "running", "over"}

CommandsTyped ==
  /\ commandsOutstanding \in Int
  /\ inbox \in [Child -> Seq(ChildMode)]
  /\ \A c \in Child : Len(inbox[c]) <= InboxDepth

KnownTyped ==
  /\ childrenMap \in [Child -> ChildMode \union {UNKNOWN}]
  /\ childrenChangedMode \in BOOLEAN /\ childrenChangedHealth \in BOOLEAN

WorldTyped ==
  /\ health \in [Child -> Health]
  /\ child \in [Child -> [mode : ChildMode, moving : BOOLEAN, by : {"none", "subsystem"}]]
  /\ outbox \in [Child -> Seq(Report)]
  /\ \A c \in Child : Len(outbox[c]) <= OutboxDepth
  /\ disturbed \in 0 .. Disturbances

Typed == OwnTyped /\ CommandsTyped /\ KnownTyped /\ WorldTyped

LEMMA TypedTypeOK ==
  ASSUME Typed
  PROVE  TypeOK
<1>1. \A c \in Child : Range(inbox[c]) \subseteq ChildMode
  BY Ranged DEF Typed, CommandsTyped
<1>2. \A c \in Child : Range(outbox[c]) \subseteq Report
  BY Ranged DEF Typed, WorldTyped
<1> QED BY <1>1, <1>2 DEF Typed, OwnTyped, CommandsTyped, KnownTyped, WorldTyped, TypeOK

LEMMA InitTyped ==
  ASSUME Init
  PROVE  Typed
<1>1. Len(Steps[InitialMode]) \in Nat
  BY SubsystemAssumption
<1>2. OwnTyped
  <2>1. mode = InitialMode /\ targetMode = InitialMode /\ InitialMode \in Sequence
    BY SubsystemAssumption DEF Init
  <2>2. currentSequenceIterator = 1 /\ 1 \in 1 .. Len(Steps[InitialMode]) + 1
    BY <1>1 DEF Init
  <2>3. currentTargetTable \in {NoTable} \union Range(Target)
    BY Zenon DEF Init
  <2> QED BY <2>1, <2>2, <2>3 DEF Init, OwnTyped
<1>3. CommandsTyped
  BY SubsystemAssumption DEF Init, CommandsTyped
<1>4. KnownTyped
  BY DEF Init, KnownTyped
<1>5. WorldTyped
  BY SubsystemAssumption DEF Init, WorldTyped, Health
<1> QED BY <1>2, <1>3, <1>4, <1>5 DEF Typed

(***************************************************************************)
(* Tables.  Whatever is commanded, there is a command in the queue of each *)
(* child whose reply is waited for.                                        *)
(***************************************************************************)
CommandsCovered ==
  \E sent \in SUBSET Child : /\ commandsOutstanding' = Cardinality(sent)
                             /\ \A c \in sent : inbox'[c] # <<>>

LEMMA TablesOfSteps ==
  ASSUME NEW s \in Sequence
  PROVE  /\ Len(Steps[s]) \in Nat
         /\ \A i \in 1 .. Len(Steps[s]) : Steps[s][i].table \in Table
         /\ Target[s] \in Range(Target)
<1>1. Steps[s] \in Seq([table : Table, check : BOOLEAN, wait : BOOLEAN])
  BY SubsystemAssumption
<1>2. Len(Steps[s]) \in Nat
  BY <1>1
<1>3. ASSUME NEW i \in 1 .. Len(Steps[s]) PROVE Steps[s][i].table \in Table
  <2>1. Steps[s][i] \in [table : Table, check : BOOLEAN, wait : BOOLEAN]
    BY <1>1, Element
  <2> QED BY <2>1
<1>4. s \in DOMAIN Target
  BY SubsystemAssumption
<1>5. Target[s] \in Range(Target)
  BY <1>4 DEF Range
<1> QED BY <1>2, <1>3, <1>5

LEMMA FiniteChildren ==
  ASSUME NEW S \in SUBSET Child
  PROVE  IsFiniteSet(S) /\ Cardinality(S) \in Nat
  BY SubsystemAssumption, FS_Subset, FS_CardinalityType

LEMMA Executes ==
  ASSUME Typed, NEW table \in Table, NEW f \in BOOLEAN, executeTable(table, f)
  PROVE  CommandsTyped' /\ CommandsCovered
<1> DEFINE sent == {c \in ToCommand(table, f) : Len(inbox[c]) < InboxDepth}
<1>1. DOMAIN table \subseteq Child /\ \A c \in DOMAIN table : table[c] \in ChildMode
  BY DEF Table
<1>2. sent \in SUBSET Child /\ sent \subseteq DOMAIN table
  BY <1>1 DEF ToCommand
<1>3. \A c \in sent : ModeFor(table, c) \in ChildMode
  BY <1>1, <1>2, SubsystemAssumption DEF ModeFor
<1>4. /\ inbox' = [c \in Child |-> IF c \in sent THEN Append(inbox[c], ModeFor(table, c))
                                   ELSE inbox[c]]
      /\ commandsOutstanding' = Cardinality(sent)
  BY DEF executeTable
<1> HIDE DEF sent
<1>5. ASSUME NEW c \in Child
      PROVE  /\ inbox'[c] \in Seq(ChildMode) /\ Len(inbox'[c]) <= InboxDepth
             /\ c \in sent => inbox'[c] # <<>>
  <2>1. inbox[c] \in Seq(ChildMode) /\ Len(inbox[c]) <= InboxDepth
    BY DEF Typed, CommandsTyped
  <2>2. CASE c \in sent
    <3>1. inbox'[c] = Append(inbox[c], ModeFor(table, c)) /\ ModeFor(table, c) \in ChildMode
      BY <2>2, <1>3, <1>4
    <3>2. Len(inbox[c]) < InboxDepth
      BY <2>2 DEF sent
    <3>3. /\ inbox'[c] \in Seq(ChildMode) /\ Len(inbox'[c]) = Len(inbox[c]) + 1
      BY <3>1, <2>1, Lengthened
    <3>4. Len(inbox[c]) \in Nat /\ InboxDepth \in Nat
      BY <2>1, SubsystemAssumption
    <3>5. inbox'[c] # <<>>
      BY <3>3, <3>4
    <3> QED BY <3>2, <3>3, <3>4, <3>5
  <2>3. CASE c \notin sent
    BY <2>1, <2>3, <1>4
  <2> QED BY <2>2, <2>3
<1>6. commandsOutstanding' \in Int
  BY <1>2, <1>4, FiniteChildren
<1>7. inbox' \in [Child -> Seq(ChildMode)]
  BY <1>4, <1>5
<1>8. CommandsTyped'
  BY <1>5, <1>6, <1>7 DEF CommandsTyped
<1>9. CommandsCovered
  BY <1>2, <1>4, <1>5 DEF CommandsCovered
<1> QED BY <1>8, <1>9

LEMMA Starts ==
  ASSUME Typed, NEW s \in Sequence, NEW f \in BOOLEAN, startTransition(s, f)
  PROVE  /\ CommandsTyped' /\ CommandsCovered
         /\ targetMode' \in Sequence /\ isInTransition' = TRUE
         /\ currentTargetTable' \in Range(Target)
         /\ currentSequenceIterator' \in 1 .. Len(Steps[targetMode]') + 1
         /\ uptimeStartTable' \in {"0", "running", "over"}
<1>1. /\ targetMode' = s /\ isInTransition' = TRUE
      /\ currentTargetTable' = Target[s] /\ currentSequenceIterator' = 1
      /\ uptimeStartTable' = uptimeStartTable
  BY DEF startTransition
<1>2. Steps[targetMode]' = Steps[s]
  BY <1>1
<1>3. currentSequenceIterator' \in 1 .. Len(Steps[targetMode]') + 1
  BY <1>1, <1>2, TablesOfSteps
<1>4. CommandsTyped' /\ CommandsCovered
  <2>1. CASE Steps[s] = <<>>
    <3>1. commandsOutstanding' = 0 /\ inbox' = inbox
      BY <2>1 DEF startTransition
    <3>2. CommandsTyped'
      BY <3>1 DEF Typed, CommandsTyped
    <3>3. commandsOutstanding' = Cardinality({})
      BY <3>1, FS_EmptySet
    <3> QED BY <3>2, <3>3 DEF CommandsCovered
  <2>2. CASE Steps[s] # <<>>
    <3>1. 1 \in 1 .. Len(Steps[s])
      BY <2>2, SubsystemAssumption
    <3>2. Steps[s][1].table \in Table
      BY <3>1, TablesOfSteps
    <3>3. executeTable(Steps[s][1].table, f)
      BY <2>2 DEF startTransition
    <3> QED BY <3>2, <3>3, Executes
  <2> QED BY <2>1, <2>2
<1> QED BY <1>1, <1>3, <1>4, TablesOfSteps DEF Typed, OwnTyped

\* What the two reactions to a failed table come to
LEMMA Fails ==
  ASSUME Typed, transitionFailed \/ cantKeepMode
  PROVE  /\ CommandsTyped' /\ CommandsCovered
         /\ mode' \in Sequence /\ targetMode' \in Sequence
         /\ forced' \in BOOLEAN /\ isInTransition' = TRUE
         /\ currentTargetTable' \in Range(Target)
         /\ currentSequenceIterator' \in 1 .. Len(Steps[targetMode]') + 1
         /\ uptimeStartTable' \in {"0", "running", "over"}
<1>1. mode \in Sequence /\ Fallback[mode] \in Sequence /\ forced \in BOOLEAN
  BY SubsystemAssumption DEF Typed, OwnTyped
<1>2. CASE mode' = Fallback[mode] /\ forced' = TRUE /\ startTransition(Fallback[mode], TRUE)
  BY <1>1, <1>2, Starts
<1>3. CASE mode' = mode /\ forced' = forced /\ startTransition(mode, forced)
  BY <1>1, <1>3, Starts
<1> QED BY <1>2, <1>3 DEF transitionFailed, cantKeepMode

(***************************************************************************)
(* Steps of the subsystem.                                                 *)
(***************************************************************************)
LEMMA OwnTypedFrom ==
  ASSUME mode' \in Sequence, targetMode' \in Sequence,
         isInTransition' \in BOOLEAN, forced' \in BOOLEAN,
         currentTargetTable' \in {NoTable} \union Range(Target),
         currentSequenceIterator' \in 1 .. Len(Steps[targetMode]') + 1,
         uptimeStartTable' \in {"0", "running", "over"}
  PROVE  OwnTyped'
  BY DEF OwnTyped, NoTable

LEMMA OwnUnchanged ==
  ASSUME OwnTyped, UNCHANGED own
  PROVE  OwnTyped'
  BY DEF OwnTyped, own, NoTable

LEMMA CommandsUnchanged ==
  ASSUME CommandsTyped, UNCHANGED <<commandsOutstanding, inbox>>
  PROVE  CommandsTyped'
  BY DEF CommandsTyped

LEMMA ModeCommandTyped ==
  ASSUME Typed, ModeCommand
  PROVE  Typed' /\ (CommandsCovered \/ UNCHANGED <<commandsOutstanding, inbox>>)
<1>1. KnownTyped'
  BY DEF Typed, KnownTyped, ModeCommand, known
<1>2. WorldTyped'
  BY SubsystemAssumption DEF Typed, WorldTyped, ModeCommand, Disturb, world
<1>3. PICK s \in Sequence, force \in BOOLEAN :
        /\ forced' = (forced \/ force)
        /\ IF isInTransition /\ s # Fallback[targetMode]
           THEN UNCHANGED <<targetMode, isInTransition, currentTargetTable, inbox,
                            currentSequenceIterator, uptimeStartTable, commandsOutstanding>>
           ELSE startTransition(s, forced \/ force)
  BY DEF ModeCommand
<1>4. (forced \/ force) \in BOOLEAN
  BY DEF Typed, OwnTyped
<1>5. mode' \in Sequence /\ forced' \in BOOLEAN
  BY <1>3, <1>4 DEF ModeCommand, Typed, OwnTyped
<1>6. CASE isInTransition /\ s # Fallback[targetMode]
  <2>1. UNCHANGED <<targetMode, isInTransition, currentTargetTable, inbox,
                    currentSequenceIterator, uptimeStartTable, commandsOutstanding>>
    BY <1>3, <1>6
  <2>2. OwnTyped'
    BY <1>5, <2>1 DEF Typed, OwnTyped, NoTable
  <2>3. CommandsTyped'
    BY <2>1, CommandsUnchanged DEF Typed
  <2> QED BY <1>1, <1>2, <2>1, <2>2, <2>3 DEF Typed
<1>7. CASE ~(isInTransition /\ s # Fallback[targetMode])
  <2>1. startTransition(s, forced \/ force)
    BY <1>3, <1>7
  <2>2. /\ CommandsTyped' /\ CommandsCovered
        /\ targetMode' \in Sequence /\ isInTransition' = TRUE
        /\ currentTargetTable' \in Range(Target)
        /\ currentSequenceIterator' \in 1 .. Len(Steps[targetMode]') + 1
        /\ uptimeStartTable' \in {"0", "running", "over"}
    BY <1>4, <2>1, Starts
  <2>3. OwnTyped'
    BY <1>5, <2>2, OwnTypedFrom
  <2> QED BY <1>1, <1>2, <2>2, <2>3 DEF Typed
<1> QED BY <1>6, <1>7

LEMMA HandleMessageTyped ==
  ASSUME Typed, HandleMessage
  PROVE  Typed'
<1>1. OwnTyped'
  BY OwnUnchanged DEF Typed, HandleMessage
<1>2. PICK c \in Child :
        /\ outbox[c] # <<>>
        /\ outbox' = [outbox EXCEPT ![c] = Tail(@)]
        /\ IF Head(outbox[c]).kind = "HEALTH_INFO" THEN handleCommandMessage
           ELSE handleModeReply(c, Head(outbox[c]))
  BY DEF HandleMessage
<1>3. PICK q \in Seq(Report) : q = outbox[c]
  BY DEF Typed, WorldTyped
<1>4. /\ Head(q) \in Report /\ Tail(q) \in Seq(Report)
      /\ Len(Tail(q)) <= OutboxDepth
  <2>1. Len(q) <= OutboxDepth /\ Len(q) \in Nat /\ q # <<>>
    BY <1>2, <1>3 DEF Typed, WorldTyped
  <2>2. Head(q) \in Report /\ Tail(q) \in Seq(Report) /\ Len(Tail(q)) = Len(q) - 1
    BY <2>1, Shortened
  <2> QED BY <2>1, <2>2, SubsystemAssumption
<1>5. outbox' = [outbox EXCEPT ![c] = Tail(q)]
  BY <1>2, <1>3
<1>6. WorldTyped'
  BY <1>4, <1>5 DEF Typed, WorldTyped, HandleMessage
<1>7. CommandsTyped' /\ KnownTyped'
  <2>1. inbox' = inbox
    BY DEF HandleMessage
  <2>2. CASE Head(q).kind = "HEALTH_INFO"
    <3>1. handleCommandMessage
      BY <1>2, <1>3, <2>2
    <3> QED BY <2>1, <3>1 DEF Typed, CommandsTyped, KnownTyped, handleCommandMessage
  <2>3. CASE Head(q).kind # "HEALTH_INFO"
    <3>1. handleModeReply(c, Head(q))
      BY <1>2, <1>3, <2>3
    <3>2. Head(q).kind # "REPLY_CANT_REACH_MODE" => Head(q).mode \in ChildMode
      BY <1>4, <2>3 DEF Report
    <3>3. commandsOutstanding' \in Int
      BY <3>1 DEF handleModeReply, Typed, CommandsTyped
    <3>4. CommandsTyped'
      BY <2>1, <3>3 DEF Typed, CommandsTyped
    <3>5. KnownTyped'
      BY <3>1, <3>2 DEF handleModeReply, Typed, KnownTyped
    <3> QED BY <3>4, <3>5
  <2> QED BY <2>2, <2>3
<1> QED BY <1>1, <1>6, <1>7 DEF Typed

LEMMA NextTableTyped ==
  ASSUME Typed, NextTable
  PROVE  /\ OwnTyped' /\ CommandsTyped'
         /\ CommandsCovered \/ UNCHANGED <<commandsOutstanding, inbox>>
<1>1. targetMode \in Sequence /\ currentSequenceIterator \in 1 .. Len(Steps[targetMode]) + 1
  BY DEF Typed, OwnTyped
<1>2. PICK n \in Nat : n = Len(Steps[targetMode])
  BY <1>1, TablesOfSteps
<1>3. currentSequenceIterator <= n
  BY <1>1, <1>2 DEF NextTable, Through
<1>4. /\ currentSequenceIterator' = currentSequenceIterator + 1 /\ uptimeStartTable' = "0"
      /\ UNCHANGED <<mode, targetMode, isInTransition, forced, currentTargetTable>>
  BY DEF NextTable
<1>5. currentSequenceIterator' \in 1 .. Len(Steps[targetMode]') + 1
  BY <1>1, <1>2, <1>3, <1>4
<1>6. OwnTyped'
  BY <1>4, <1>5 DEF Typed, OwnTyped, NoTable
<1>7. CASE currentSequenceIterator < n
  <2>1. executeTable(Steps[targetMode][currentSequenceIterator + 1].table, forced)
    BY <1>2, <1>7 DEF NextTable
  <2>2. Steps[targetMode][currentSequenceIterator + 1].table \in Table
    BY <1>1, <1>2, <1>7, TablesOfSteps
  <2> QED BY <1>6, <2>1, <2>2, Executes DEF Typed, OwnTyped
<1>8. CASE ~(currentSequenceIterator < n)
  <2>1. UNCHANGED <<commandsOutstanding, inbox>>
    BY <1>2, <1>8 DEF NextTable
  <2> QED BY <1>6, <2>1, CommandsUnchanged DEF Typed
<1> QED BY <1>7, <1>8

LEMMA FailsTyped ==
  ASSUME Typed, transitionFailed \/ cantKeepMode
  PROVE  OwnTyped' /\ CommandsTyped' /\ CommandsCovered /\ isInTransition'
<1>1. /\ CommandsTyped' /\ CommandsCovered
      /\ mode' \in Sequence /\ targetMode' \in Sequence
      /\ forced' \in BOOLEAN /\ isInTransition' = TRUE
      /\ currentTargetTable' \in Range(Target)
      /\ currentSequenceIterator' \in 1 .. Len(Steps[targetMode]') + 1
      /\ uptimeStartTable' \in {"0", "running", "over"}
  BY Fails
<1>2. OwnTyped'
  BY <1>1, OwnTypedFrom
<1> QED BY <1>1, <1>2

LEMMA InTransitionTyped ==
  ASSUME Typed, InTransition
  PROVE  /\ OwnTyped' /\ CommandsTyped'
         /\ CommandsCovered \/ UNCHANGED <<commandsOutstanding, inbox>>
         /\ isInTransition' \/ (TargetReached /\ UNCHANGED currentTargetTable)
<1>1. CASE TargetReached
  <2>1. CommandsTyped'
    BY <1>1, CommandsUnchanged DEF Typed, TargetReached
  <2>2. OwnTyped'
    BY <1>1 DEF Typed, OwnTyped, TargetReached, NoTable
  <2> QED BY <1>1, <2>1, <2>2 DEF TargetReached
<1>2. CASE transitionFailed
  BY <1>2, FailsTyped
<1>3. CASE StartWaiting
  <2>1. CommandsTyped'
    BY <1>3, CommandsUnchanged DEF Typed, StartWaiting
  <2>2. OwnTyped'
    BY <1>3 DEF Typed, OwnTyped, StartWaiting, NoTable
  <2>3. isInTransition'
    BY <1>3 DEF InTransition, StartWaiting
  <2> QED BY <1>3, <2>1, <2>2, <2>3 DEF StartWaiting
<1>4. CASE NextTable
  <2>1. isInTransition'
    BY <1>4 DEF InTransition, NextTable
  <2> QED BY <1>4, <2>1, NextTableTyped
<1> QED BY <1>1, <1>2, <1>3, <1>4 DEF InTransition, TargetMissed, TableCheckFailed

LEMMA ChildChangedHealthTyped ==
  ASSUME Typed, ChildChangedHealth
  PROVE  OwnTyped' /\ CommandsTyped' /\ CommandsCovered /\ isInTransition'
<1>1. mode \in Sequence /\ forced \in BOOLEAN
  BY DEF Typed, OwnTyped
<1>2. startTransition(mode, forced) /\ mode' = mode /\ forced' = forced
  BY DEF ChildChangedHealth
<1>3. /\ CommandsTyped' /\ CommandsCovered
      /\ targetMode' \in Sequence /\ isInTransition' = TRUE
      /\ currentTargetTable' \in Range(Target)
      /\ currentSequenceIterator' \in 1 .. Len(Steps[targetMode]') + 1
      /\ uptimeStartTable' \in {"0", "running", "over"}
  BY <1>1, <1>2, Starts
<1>4. OwnTyped'
  BY <1>1, <1>2, <1>3, OwnTypedFrom
<1> QED BY <1>3, <1>4

LEMMA PerformTyped ==
  ASSUME Typed, PerformChildOperation
  PROVE  Typed' /\ (CommandsCovered \/ UNCHANGED <<commandsOutstanding, inbox>>)
<1>1. WorldTyped'
  BY DEF Typed, WorldTyped, PerformChildOperation, world
<1>2. /\ OwnTyped' /\ CommandsTyped' /\ childrenChangedHealth' \in BOOLEAN
      /\ CommandsCovered \/ UNCHANGED <<commandsOutstanding, inbox>>
  <2>1. CASE InTransition
    <3>1. childrenChangedHealth' \in BOOLEAN
      BY <2>1 DEF InTransition, Typed, KnownTyped
    <3> QED BY <2>1, <3>1, InTransitionTyped
  <2>2. CASE ChildChangedHealth
    <3>1. childrenChangedHealth' \in BOOLEAN
      BY <2>2 DEF ChildChangedHealth
    <3> QED BY <2>2, <3>1, ChildChangedHealthTyped
  <2>3. CASE CantKeepMode
    <3>1. childrenChangedHealth' \in BOOLEAN /\ cantKeepMode
      BY <2>3 DEF CantKeepMode, Typed, KnownTyped
    <3> QED BY <3>1, FailsTyped
  <2>4. CASE NothingToDo
    <3>1. childrenChangedHealth' \in BOOLEAN
      BY <2>4 DEF NothingToDo, Typed, KnownTyped
    <3>2. UNCHANGED own /\ UNCHANGED <<commandsOutstanding, inbox>>
      BY <2>4 DEF NothingToDo
    <3> QED BY <3>1, <3>2, OwnUnchanged, CommandsUnchanged DEF Typed
  <2> QED BY <2>1, <2>2, <2>3, <2>4 DEF PerformChildOperation
<1>3. KnownTyped'
  BY <1>2 DEF Typed, KnownTyped, PerformChildOperation
<1> QED BY <1>1, <1>2, <1>3 DEF Typed

LEMMA TimePassesTyped ==
  ASSUME Typed, TimePasses
  PROVE  Typed'
<1>1. OwnTyped'
  BY DEF Typed, OwnTyped, TimePasses, NoTable
<1>2. CommandsTyped'
  BY CommandsUnchanged DEF Typed, TimePasses
<1>3. KnownTyped' /\ WorldTyped'
  BY DEF Typed, KnownTyped, WorldTyped, TimePasses, known, world
<1> QED BY <1>1, <1>2, <1>3 DEF Typed

(***************************************************************************)
(* Steps of the children.                                                  *)
(***************************************************************************)
LEMMA ToldTyped ==
  ASSUME Typed, NEW c \in Child, NEW m \in Report, Tell(c, m)
  PROVE  /\ outbox' \in [Child -> Seq(Report)]
         /\ \A d \in Child : Len(outbox'[d]) <= OutboxDepth
         /\ outbox' = [outbox EXCEPT ![c] = Append(outbox[c], m)]
<1>1. PICK q \in Seq(Report) : q = outbox[c]
  BY DEF Typed, WorldTyped
<1>2. Len(q) < OutboxDepth /\ outbox' = [outbox EXCEPT ![c] = Append(q, m)]
  BY <1>1 DEF Tell, HasRoom
<1>3. Append(q, m) \in Seq(Report) /\ Len(Append(q, m)) = Len(q) + 1 /\ Len(q) \in Nat
  BY Lengthened
<1>4. Len(Append(q, m)) <= OutboxDepth
  BY <1>2, <1>3, SubsystemAssumption
<1> QED BY <1>1, <1>2, <1>3, <1>4 DEF Typed, WorldTyped

LEMMA Refusal == [kind |-> "REPLY_CANT_REACH_MODE"] \in Report /\ [kind |-> "HEALTH_INFO"] \in Report
<1>1. [kind |-> "REPLY_CANT_REACH_MODE"] \in [kind : {"REPLY_CANT_REACH_MODE", "HEALTH_INFO"}]
  OBVIOUS
<1>2. [kind |-> "HEALTH_INFO"] \in [kind : {"REPLY_CANT_REACH_MODE", "HEALTH_INFO"}]
  OBVIOUS
<1> QED BY <1>1, <1>2 DEF Report

LEMMA Announcement ==
  ASSUME NEW m \in ChildMode, NEW k \in {"REPLY_MODE_REPLY", "REPLY_MODE_INFO"}
  PROVE  [kind |-> k, mode |-> m] \in Report
  BY DEF Report

LEMMA TakeCommandTyped ==
  ASSUME Typed, NEW c \in Child, TakeCommand(c)
  PROVE  Typed'
<1>1. OwnTyped' /\ KnownTyped'
  BY OwnUnchanged DEF Typed, TakeCommand, KnownTyped, known
<1>2. PICK q \in Seq(ChildMode) : q = inbox[c]
  BY DEF Typed, CommandsTyped
<1>3. q # <<>> /\ inbox' = [inbox EXCEPT ![c] = Tail(q)]
  BY <1>2 DEF TakeCommand
<1>4. Tail(q) \in Seq(ChildMode) /\ Len(Tail(q)) <= InboxDepth
  <2>1. Len(q) <= InboxDepth /\ Len(q) \in Nat
    BY <1>2 DEF Typed, CommandsTyped
  <2>2. Tail(q) \in Seq(ChildMode) /\ Len(Tail(q)) = Len(q) - 1
    BY <1>3, Shortened
  <2> QED BY <2>1, <2>2, SubsystemAssumption
<1>5. CommandsTyped'
  BY <1>3, <1>4 DEF Typed, CommandsTyped, TakeCommand
<1>6. CASE Tell(c, [kind |-> "REPLY_CANT_REACH_MODE"]) /\ UNCHANGED child
  <2>1. outbox' \in [Child -> Seq(Report)] /\ \A d \in Child : Len(outbox'[d]) <= OutboxDepth
    BY <1>6, Refusal, ToldTyped
  <2>2. WorldTyped'
    BY <1>6, <2>1 DEF Typed, WorldTyped, TakeCommand
  <2> QED BY <1>1, <1>5, <2>2 DEF Typed
<1>7. CASE /\ child' = [child EXCEPT ![c].moving = TRUE, ![c].by = "subsystem"]
           /\ UNCHANGED outbox
  <2>1. WorldTyped'
    BY <1>7 DEF Typed, WorldTyped, TakeCommand
  <2> QED BY <1>1, <1>5, <2>1 DEF Typed
<1> QED BY <1>6, <1>7 DEF TakeCommand

LEMMA SettleTyped ==
  ASSUME Typed, NEW c \in Child, Settle(c)
  PROVE  Typed'
<1>1. OwnTyped' /\ KnownTyped' /\ CommandsTyped'
  BY OwnUnchanged, CommandsUnchanged DEF Typed, Settle, KnownTyped, known
<1>2. PICK m \in ChildMode :
        /\ modeChanged(c, m)
        /\ child' = [child EXCEPT ![c] = [mode |-> m, moving |-> FALSE, by |-> "none"]]
  BY DEF Settle
<1>3. PICK k \in {"REPLY_MODE_REPLY", "REPLY_MODE_INFO"} : Tell(c, [kind |-> k, mode |-> m])
  BY <1>2 DEF modeChanged
<1>4. outbox' \in [Child -> Seq(Report)] /\ \A d \in Child : Len(outbox'[d]) <= OutboxDepth
  BY <1>3, Announcement, ToldTyped
<1>5. WorldTyped'
  BY <1>2, <1>4 DEF Typed, WorldTyped, Settle
<1> QED BY <1>1, <1>5 DEF Typed

LEMMA LeaveTyped ==
  ASSUME Typed, NEW c \in Child, Leave(c)
  PROVE  Typed'
<1>1. OwnTyped' /\ KnownTyped' /\ CommandsTyped'
  BY OwnUnchanged, CommandsUnchanged DEF Typed, Leave, KnownTyped, known
<1>2. health' \in [Child -> Health]
  BY DEF Typed, WorldTyped, Leave, Health
<1>3. child' \in [Child -> [mode : ChildMode, moving : BOOLEAN, by : {"none", "subsystem"}]]
  BY DEF Typed, WorldTyped, Leave
<1>4. disturbed' \in 0 .. Disturbances
  BY SubsystemAssumption DEF Typed, WorldTyped, Leave, Disturb
<1>5. WorldTyped'
  BY <1>2, <1>3, <1>4 DEF Typed, WorldTyped, Leave
<1> QED BY <1>1, <1>5 DEF Typed

LEMMA SetHealthTyped ==
  ASSUME Typed, NEW c \in Child, SetHealth(c)
  PROVE  Typed'
<1>1. OwnTyped' /\ KnownTyped' /\ CommandsTyped'
  BY OwnUnchanged, CommandsUnchanged DEF Typed, SetHealth, KnownTyped, known
<1>2. health' \in [Child -> Health]
  BY DEF Typed, WorldTyped, SetHealth
<1>3. outbox' \in [Child -> Seq(Report)] /\ \A d \in Child : Len(outbox'[d]) <= OutboxDepth
  <2>1. CASE UNCHANGED outbox
    BY <2>1 DEF Typed, WorldTyped
  <2>2. CASE Tell(c, [kind |-> "HEALTH_INFO"])
    BY <2>2, Refusal, ToldTyped
  <2> QED BY <2>1, <2>2 DEF SetHealth
<1>4. disturbed' \in 0 .. Disturbances
  BY SubsystemAssumption DEF Typed, WorldTyped, SetHealth, Disturb
<1>5. WorldTyped'
  BY <1>2, <1>3, <1>4 DEF Typed, WorldTyped, SetHealth
<1> QED BY <1>1, <1>5 DEF Typed

LEMMA StepTyped ==
  ASSUME Typed, [Next]_vars
  PROVE  Typed'
<1>1. CASE UNCHANGED vars
  BY <1>1, OwnUnchanged, CommandsUnchanged
    DEF Typed, KnownTyped, WorldTyped, vars, known, world
<1>2. CASE SubsystemStep
  BY <1>2, ModeCommandTyped, HandleMessageTyped, PerformTyped DEF SubsystemStep
<1>3. CASE TimePasses
  BY <1>3, TimePassesTyped
<1>4. ASSUME NEW c \in Child, TakeCommand(c) \/ Settle(c) \/ Leave(c) \/ SetHealth(c)
      PROVE  Typed'
  BY <1>4, TakeCommandTyped, SettleTyped, LeaveTyped, SetHealthTyped
<1> QED BY <1>1, <1>2, <1>3, <1>4 DEF Next

\* The state of the subsystem, of its queues and of its children stays within
\* its types: the iterator within the sequence, each queue within its depth.
THEOREM TypeCorrect == Spec => []TypeOK
<1>1. Init => Typed
  BY InitTyped
<1>2. Typed /\ [Next]_vars => Typed'
  BY StepTyped
<1>3. Typed => TypeOK
  BY TypedTypeOK
<1> QED BY <1>1, <1>2, <1>3, PTL DEF Spec

-----------------------------------------------------------------------------
(***************************************************************************)
(* No deviation is left.  What is known to deviate is under way: it is     *)
(* announced by a flag until a transition begins.                          *)
(***************************************************************************)
LEMMA StepLeavesNoDeviation ==
  ASSUME Typed, LeavesNoDeviation, [Next]_vars
  PROVE  LeavesNoDeviation'
<1>1. CASE UNCHANGED vars
  BY <1>1 DEF vars, own, known, LeavesNoDeviation, checkStateAgainstTable
<1>2. CASE ModeCommand
  <2>1. UNCHANGED known
    BY <1>2 DEF ModeCommand
  <2>2. PICK s \in Sequence, f \in BOOLEAN :
          \/ UNCHANGED <<isInTransition, currentTargetTable>>
          \/ startTransition(s, f)
    <3>1. PICK s \in Sequence, force \in BOOLEAN :
            \/ UNCHANGED <<isInTransition, currentTargetTable>>
            \/ startTransition(s, forced \/ force)
      BY <1>2 DEF ModeCommand
    <3>2. (forced \/ force) \in BOOLEAN
      BY DEF Typed, OwnTyped
    <3> QED BY <3>1, <3>2
  <2>3. CASE UNCHANGED <<isInTransition, currentTargetTable>>
    BY <2>1, <2>3 DEF known, LeavesNoDeviation, checkStateAgainstTable
  <2>4. CASE startTransition(s, f)
    BY <2>4 DEF startTransition, LeavesNoDeviation
  <2> QED BY <2>2, <2>3, <2>4
<1>3. CASE HandleMessage
  <2>1. UNCHANGED <<isInTransition, currentTargetTable>>
    BY <1>3 DEF HandleMessage, own
  <2>2. \/ childrenMap' = childrenMap /\ childrenChangedMode' = childrenChangedMode
        \/ childrenChangedMode' = TRUE
    BY <1>3 DEF HandleMessage, handleCommandMessage, handleModeReply
  <2>3. childrenChangedHealth => childrenChangedHealth'
    BY <1>3 DEF HandleMessage, handleCommandMessage, handleModeReply
  <2> QED BY <2>1, <2>2, <2>3 DEF LeavesNoDeviation, checkStateAgainstTable
<1>4. CASE PerformChildOperation
  <2>1. CASE InTransition
    <3>1. isInTransition' \/ (TargetReached /\ UNCHANGED currentTargetTable)
      BY <2>1, InTransitionTyped
    <3>2. CASE isInTransition'
      BY <3>2 DEF LeavesNoDeviation
    <3>3. CASE TargetReached /\ UNCHANGED currentTargetTable
      BY <1>4, <3>3 DEF PerformChildOperation, TargetReached, LeavesNoDeviation,
                        checkStateAgainstTable
    <3> QED BY <3>1, <3>2, <3>3
  <2>2. CASE ChildChangedHealth
    BY <2>2, ChildChangedHealthTyped DEF LeavesNoDeviation
  <2>3. CASE CantKeepMode
    BY <2>3, FailsTyped DEF CantKeepMode, LeavesNoDeviation
  <2>4. CASE NothingToDo
    <3>1. UNCHANGED <<isInTransition, currentTargetTable, childrenMap, childrenChangedHealth>>
      BY <1>4, <2>4 DEF PerformChildOperation, NothingToDo, own
    <3>2. CASE isInTransition
      BY <3>1, <3>2 DEF LeavesNoDeviation
    <3>3. CASE ~isInTransition
      <4>1. checkStateAgainstTable(currentTargetTable)
        BY <2>4, <3>3 DEF NothingToDo, LeavesNoDeviation
      <4> QED BY <3>1, <4>1 DEF LeavesNoDeviation, checkStateAgainstTable
    <3> QED BY <3>2, <3>3
  <2> QED BY <1>4, <2>1, <2>2, <2>3, <2>4 DEF PerformChildOperation
<1>5. CASE TimePasses
  BY <1>5 DEF TimePasses, known, LeavesNoDeviation, checkStateAgainstTable
<1>6. ASSUME NEW c \in Child, TakeCommand(c) \/ Settle(c) \/ Leave(c) \/ SetHealth(c)
      PROVE  LeavesNoDeviation'
  <2>1. UNCHANGED own /\ UNCHANGED known
    BY <1>6 DEF TakeCommand, Settle, Leave, SetHealth
  <2> QED BY <2>1 DEF own, known, LeavesNoDeviation, checkStateAgainstTable
<1> QED BY <1>1, <1>2, <1>3, <1>4, <1>5, <1>6 DEF Next, SubsystemStep

\* A subsystem that rests does not put up with a child in a mode other than its
\* table's: performChildOperation, which resets the flags of a cycle, has then
\* begun a transition or found the table kept.
THEOREM DeviationsAreActedOn == Spec => []LeavesNoDeviation
<1>1. Init => Typed /\ LeavesNoDeviation
  BY InitTyped DEF Init, LeavesNoDeviation, checkStateAgainstTable, NoTable
<1>2. Typed /\ LeavesNoDeviation /\ [Next]_vars => Typed' /\ LeavesNoDeviation'
  BY StepTyped, StepLeavesNoDeviation
<1> QED BY <1>1, <1>2, PTL DEF Spec

-----------------------------------------------------------------------------
(***************************************************************************)
(* The children's modes.  The newest mode that a child has told, read or   *)
(* not, is its mode, even while it is on its way to another one.           *)
(***************************************************************************)
TellsMode(m) == m.kind \in {"REPLY_MODE_REPLY", "REPLY_MODE_INFO"}

NewestTold(c) ==
  \A i \in DOMAIN outbox[c] :
    TellsMode(outbox[c][i])
      => \/ outbox[c][i].mode = child[c].mode
         \/ \E j \in DOMAIN outbox[c] : j > i /\ TellsMode(outbox[c][j])

NewestKnown(c) ==
  \/ childrenMap[c] \in {UNKNOWN, child[c].mode}
  \/ \E i \in DOMAIN outbox[c] : TellsMode(outbox[c][i])

Told == \A c \in Child : NewestTold(c) /\ NewestKnown(c)

\* A message at the end of a child's outbox, by which it tells no other mode
\* than its own
LEMMA ToldAtTheEnd ==
  ASSUME Typed, Told, NEW c \in Child, NEW m \in Report,
         outbox' = [outbox EXCEPT ![c] = Append(outbox[c], m)],
         UNCHANGED childrenMap,
         \A d \in Child : child'[d].mode = child[d].mode \/ (d = c /\ TellsMode(m)),
         TellsMode(m) => m.mode = child'[c].mode
  PROVE  Told'
<1>1. PICK q \in Seq(Report) : q = outbox[c]
  BY DEF Typed, WorldTyped
<1>2. PICK r \in Seq(Report) : r = Append(q, m)
  BY Lengthened
<1>3. outbox'[c] = r /\ \A d \in Child : d # c => outbox'[d] = outbox[d]
  BY <1>1, <1>2 DEF Typed, WorldTyped
<1>4. /\ DOMAIN r = DOMAIN q \union {Len(q) + 1}
      /\ \A i \in DOMAIN q : r[i] = q[i] /\ i < Len(q) + 1
      /\ r[Len(q) + 1] = m
  BY <1>2, Lengthened
<1>5. ASSUME NEW d \in Child, d # c
      PROVE  NewestTold(d)' /\ NewestKnown(d)'
  BY <1>3, <1>5 DEF Told, NewestTold, NewestKnown
<1>6. NewestTold(c)'
  <2> SUFFICES ASSUME NEW i \in DOMAIN r, TellsMode(r[i])
               PROVE  \/ r[i].mode = child'[c].mode
                      \/ \E j \in DOMAIN r : j > i /\ TellsMode(r[j])
    BY <1>3 DEF NewestTold, TellsMode
  <2>1. CASE i = Len(q) + 1
    BY <1>4, <2>1
  <2>2. CASE i \in DOMAIN q /\ TellsMode(m)
    BY <1>4, <2>2
  <2>3. CASE i \in DOMAIN q /\ ~TellsMode(m)
    <3>1. child'[c].mode = child[c].mode /\ r[i] = q[i]
      BY <1>4, <2>3
    <3>2. \/ q[i].mode = child[c].mode
          \/ \E j \in DOMAIN q : j > i /\ TellsMode(q[j])
      BY <1>1, <2>3, <3>1 DEF Told, NewestTold
    <3> QED BY <1>4, <3>1, <3>2
  <2> QED BY <1>4, <2>1, <2>2, <2>3
<1>7. NewestKnown(c)'
  <2> SUFFICES \/ childrenMap[c] \in {UNKNOWN, child'[c].mode}
               \/ \E i \in DOMAIN r : TellsMode(r[i])
    BY <1>3 DEF NewestKnown, TellsMode
  <2>1. CASE TellsMode(m)
    BY <1>4, <2>1
  <2>2. CASE ~TellsMode(m)
    <3>1. child'[c].mode = child[c].mode
      BY <2>2
    <3>2. \/ childrenMap[c] \in {UNKNOWN, child[c].mode}
          \/ \E i \in DOMAIN q : TellsMode(q[i])
      BY <1>1 DEF Told, NewestKnown
    <3> QED BY <1>4, <3>1, <3>2
  <2> QED BY <2>1, <2>2
<1> QED BY <1>5, <1>6, <1>7 DEF Told

LEMMA HandleMessageTold ==
  ASSUME Typed, Told, HandleMessage
  PROVE  Told'
<1>1. PICK c \in Child :
        /\ outbox[c] # <<>>
        /\ outbox' = [outbox EXCEPT ![c] = Tail(@)]
        /\ IF Head(outbox[c]).kind = "HEALTH_INFO" THEN handleCommandMessage
           ELSE handleModeReply(c, Head(outbox[c]))
  BY DEF HandleMessage
<1>2. PICK q \in Seq(Report) : q = outbox[c]
  BY DEF Typed, WorldTyped
<1>3. PICK r \in Seq(Report) : r = Tail(q)
  BY <1>1, <1>2, Shortened
<1>4. outbox'[c] = r /\ \A d \in Child : d # c => outbox'[d] = outbox[d]
  BY <1>1, <1>2, <1>3 DEF Typed, WorldTyped
<1>5. /\ \A i \in DOMAIN r : i + 1 \in DOMAIN q /\ r[i] = q[i + 1]
      /\ \A i \in DOMAIN q : i # 1 => i - 1 \in DOMAIN r /\ r[i - 1] = q[i]
      /\ Head(q) = q[1] /\ 1 \in DOMAIN q /\ DOMAIN r \subseteq Nat /\ DOMAIN q \subseteq Nat \ {0}
      /\ Head(q) \in Report
  <2>1. q # <<>>
    BY <1>1, <1>2
  <2>2. /\ Head(q) \in Report /\ Head(q) = q[1] /\ 1 \in DOMAIN q
        /\ \A i \in DOMAIN r : i + 1 \in DOMAIN q /\ r[i] = q[i + 1]
        /\ \A i \in DOMAIN q : i # 1 => i - 1 \in DOMAIN r
    BY <2>1, <1>3, Shortened
  <2>3. DOMAIN r \subseteq Nat /\ DOMAIN q \subseteq Nat \ {0}
    BY <1>2, <1>3
  <2>4. ASSUME NEW i \in DOMAIN q, i # 1 PROVE r[i - 1] = q[i]
    BY <2>2, <2>3, <2>4
  <2> QED BY <2>2, <2>3, <2>4
<1>6. child' = child
  BY DEF HandleMessage
<1>7. \/ TellsMode(Head(q)) /\ childrenMap' = [childrenMap EXCEPT ![c] = Head(q).mode]
      \/ ~TellsMode(Head(q)) /\ childrenMap' = childrenMap
  <2>1. Head(q).kind \in {"REPLY_MODE_REPLY", "REPLY_MODE_INFO", "REPLY_CANT_REACH_MODE", "HEALTH_INFO"}
    BY <1>5 DEF Report
  <2>2. CASE Head(q).kind = "HEALTH_INFO"
    BY <1>1, <1>2, <2>2 DEF handleCommandMessage, TellsMode
  <2>3. CASE Head(q).kind # "HEALTH_INFO"
    BY <1>1, <1>2, <2>1, <2>3 DEF handleModeReply, TellsMode
  <2> QED BY <2>2, <2>3
<1>8. ASSUME NEW d \in Child, d # c
      PROVE  NewestTold(d)' /\ NewestKnown(d)'
  <2>1. childrenMap'[d] = childrenMap[d]
    BY <1>7, <1>8 DEF Typed, KnownTyped
  <2> QED BY <1>4, <1>6, <1>8, <2>1 DEF Told, NewestTold, NewestKnown
<1>9. NewestTold(c)'
  <2> SUFFICES ASSUME NEW i \in DOMAIN r, TellsMode(r[i])
               PROVE  \/ r[i].mode = child[c].mode
                      \/ \E j \in DOMAIN r : j > i /\ TellsMode(r[j])
    BY <1>4, <1>6 DEF NewestTold, TellsMode
  <2>1. i + 1 \in DOMAIN q /\ r[i] = q[i + 1] /\ i \in Nat
    BY <1>5
  <2>2. CASE q[i + 1].mode = child[c].mode
    BY <2>1, <2>2
  <2>3. CASE \E j \in DOMAIN q : j > i + 1 /\ TellsMode(q[j])
    <3>1. PICK j \in DOMAIN q : j > i + 1 /\ TellsMode(q[j])
      BY <2>3
    <3>2. j \in Nat /\ j # 1 /\ j - 1 > i
      BY <1>5, <2>1, <3>1
    <3>3. j - 1 \in DOMAIN r /\ r[j - 1] = q[j]
      BY <1>5, <3>2
    <3> QED BY <3>1, <3>2, <3>3
  <2> QED BY <1>2, <2>1, <2>2, <2>3 DEF Told, NewestTold
<1>10. NewestKnown(c)'
  <2> SUFFICES \/ childrenMap'[c] \in {UNKNOWN, child[c].mode}
               \/ \E i \in DOMAIN r : TellsMode(r[i])
    BY <1>4, <1>6 DEF NewestKnown, TellsMode
  <2>1. ASSUME NEW j \in DOMAIN q, j # 1, TellsMode(q[j])
        PROVE  \E i \in DOMAIN r : TellsMode(r[i])
    <3>1. j - 1 \in DOMAIN r /\ r[j - 1] = q[j]
      BY <1>5, <2>1
    <3> QED BY <2>1, <3>1
  <2>2. CASE TellsMode(Head(q))
    <3>1. childrenMap'[c] = Head(q).mode
      BY <1>7, <2>2 DEF Typed, KnownTyped
    <3>2. \/ q[1].mode = child[c].mode
          \/ \E j \in DOMAIN q : j > 1 /\ TellsMode(q[j])
      BY <1>2, <1>5, <2>2 DEF Told, NewestTold
    <3>3. ASSUME NEW j \in DOMAIN q, j > 1 PROVE j # 1
      BY <3>3
    <3> QED BY <1>5, <2>1, <3>1, <3>2, <3>3
  <2>3. CASE ~TellsMode(Head(q))
    <3>1. childrenMap'[c] = childrenMap[c]
      BY <1>7, <2>3
    <3>2. \/ childrenMap[c] \in {UNKNOWN, child[c].mode}
          \/ \E i \in DOMAIN q : TellsMode(q[i])
      BY <1>2 DEF Told, NewestKnown
    <3> QED BY <1>5, <2>1, <2>3, <3>1, <3>2
  <2> QED BY <2>2, <2>3
<1> QED BY <1>8, <1>9, <1>10 DEF Told

LEMMA StepTold ==
  ASSUME Typed, Told, [Next]_vars
  PROVE  Told'
<1>1. ASSUME UNCHANGED <<childrenMap, child, outbox>>
      PROVE  Told'
  BY <1>1 DEF Told, NewestTold, NewestKnown
<1>2. CASE UNCHANGED vars \/ ModeCommand \/ PerformChildOperation \/ TimePasses
  BY <1>1, <1>2 DEF vars, known, world, ModeCommand, PerformChildOperation, TimePasses
<1>3. CASE HandleMessage
  BY <1>3, HandleMessageTold
<1>4. ASSUME NEW c \in Child, TakeCommand(c)
      PROVE  Told'
  <2>1. UNCHANGED childrenMap
    BY <1>4 DEF TakeCommand, known
  <2>2. CASE Tell(c, [kind |-> "REPLY_CANT_REACH_MODE"]) /\ UNCHANGED child
    <3>1. PICK m \in Report : m = [kind |-> "REPLY_CANT_REACH_MODE"]
      BY Refusal
    <3>2. outbox' = [outbox EXCEPT ![c] = Append(outbox[c], m)]
      BY <2>2, <3>1, ToldTyped
    <3>3. ~TellsMode(m)
      BY <3>1 DEF TellsMode
    <3> QED BY <2>1, <2>2, <3>2, <3>3, ToldAtTheEnd
  <2>3. CASE /\ child' = [child EXCEPT ![c].moving = TRUE, ![c].by = "subsystem"]
             /\ UNCHANGED outbox
    <3>1. \A d \in Child : child'[d].mode = child[d].mode
      BY <2>3 DEF Typed, WorldTyped
    <3> QED BY <2>1, <2>3, <3>1 DEF Told, NewestTold, NewestKnown
  <2> QED BY <1>4, <2>2, <2>3 DEF TakeCommand
<1>5. ASSUME NEW c \in Child, Settle(c)
      PROVE  Told'
  <2>1. PICK n \in ChildMode :
          /\ modeChanged(c, n)
          /\ child' = [child EXCEPT ![c] = [mode |-> n, moving |-> FALSE, by |-> "none"]]
    BY <1>5 DEF Settle
  <2>2. PICK k \in {"REPLY_MODE_REPLY", "REPLY_MODE_INFO"} : Tell(c, [kind |-> k, mode |-> n])
    BY <2>1 DEF modeChanged
  <2>3. PICK m \in Report : m = [kind |-> k, mode |-> n]
    BY Announcement
  <2>4. outbox' = [outbox EXCEPT ![c] = Append(outbox[c], m)]
    BY <2>2, <2>3, ToldTyped
  <2>5. TellsMode(m) /\ m.mode = n
    BY <2>3 DEF TellsMode
  <2>6. child'[c].mode = n /\ \A d \in Child : d # c => child'[d] = child[d]
    BY <2>1 DEF Typed, WorldTyped
  <2>7. UNCHANGED childrenMap
    BY <1>5 DEF Settle, known
  <2> QED BY <2>4, <2>5, <2>6, <2>7, ToldAtTheEnd
<1>6. ASSUME NEW c \in Child, Leave(c)
      PROVE  Told'
  <2>1. UNCHANGED <<childrenMap, outbox>>
    BY <1>6 DEF Leave, known
  <2>2. \A d \in Child : child'[d].mode = child[d].mode
    BY <1>6 DEF Leave, Typed, WorldTyped
  <2> QED BY <2>1, <2>2 DEF Told, NewestTold, NewestKnown
<1>7. ASSUME NEW c \in Child, SetHealth(c)
      PROVE  Told'
  <2>1. UNCHANGED <<childrenMap, child>>
    BY <1>7 DEF SetHealth, known
  <2>2. CASE UNCHANGED outbox
    BY <1>1, <2>1, <2>2
  <2>3. CASE Tell(c, [kind |-> "HEALTH_INFO"])
    <3>1. PICK m \in Report : m = [kind |-> "HEALTH_INFO"]
      BY Refusal
    <3>2. outbox' = [outbox EXCEPT ![c] = Append(outbox[c], m)]
      BY <2>3, <3>1, ToldTyped
    <3>3. ~TellsMode(m)
      BY <3>1 DEF TellsMode
    <3> QED BY <2>1, <3>2, <3>3, ToldAtTheEnd
  <2> QED BY <1>7, <2>2, <2>3 DEF SetHealth
<1> QED BY <1>2, <1>3, <1>4, <1>5, <1>6, <1>7 DEF Next, SubsystemStep

\* What the subsystem believes of a child it has heard of is true as soon as its
\* messages are read and it rests: whoever commanded it, whether it obeyed or
\* not, and whether ModeHelper told the mode as a reply or as an information.
THEOREM KnowsItsChildren == Spec => []UnderstandsChildren
<1>1. Init => Typed /\ Told
  <2> SUFFICES ASSUME Init PROVE Typed /\ Told
    OBVIOUS
  <2>1. ASSUME NEW c \in Child
        PROVE  childrenMap[c] = UNKNOWN /\ DOMAIN outbox[c] = {}
    BY DEF Init
  <2> QED BY <2>1, InitTyped DEF Told, NewestTold, NewestKnown
<1>2. Typed /\ Told /\ [Next]_vars => Typed' /\ Told'
  BY StepTyped, StepTold
<1>3. Told => UnderstandsChildren
  BY DEF Told, NewestKnown, UnderstandsChildren
<1> QED BY <1>1, <1>2, <1>3, PTL DEF Spec

-----------------------------------------------------------------------------
(***************************************************************************)
(* Replies on their way.  Each step keeps them apart: what is owed before  *)
(* it, except the reply it consumes, is still owed in some form after it.  *)
(***************************************************************************)
Answering == {"REPLY_MODE_REPLY", "REPLY_CANT_REACH_MODE"}
Place == {"inbox", "child", "outbox"} \X (0 .. InboxDepth + OutboxDepth + 1)

LEMMA Owing ==
  /\ \A c, p : <<c, p>> \in AllOwed <=> c \in Child /\ p \in Owed(c)
  /\ \A t \in AllOwed : \E c \in Child : \E p \in Owed(c) : t = <<c, p>>
  BY DEF AllOwed

LEMMA OwedIs ==
  ASSUME NEW c \in Child, NEW k, NEW i
  PROVE  <<k, i>> \in Owed(c)
           <=> \/ k = "inbox" /\ i \in DOMAIN inbox[c]
               \/ k = "child" /\ i = 1 /\ child[c].moving /\ child[c].by = "subsystem"
               \/ k = "outbox" /\ i \in DOMAIN outbox[c] /\ outbox[c][i].kind \in Answering
  BY DEF Owed, Answering

LEMMA OwedPairs ==
  ASSUME NEW c \in Child, NEW p \in Owed(c)
  PROVE  p = <<p[1], p[2]>>
  BY DEF Owed

LEMMA FinitelyMany == Typed => IsFiniteSet(AllOwed) /\ Cardinality(AllOwed) \in Nat
<1> SUFFICES ASSUME Typed PROVE IsFiniteSet(AllOwed) /\ Cardinality(AllOwed) \in Nat
  OBVIOUS
<1>1. IsFiniteSet(Place)
  <2>1. IsFiniteSet({"inbox", "child", "outbox"})
    <3>1. IsFiniteSet({"inbox"}) /\ IsFiniteSet({"child"}) /\ IsFiniteSet({"outbox"})
      BY FS_Singleton
    <3>2. IsFiniteSet({"inbox"} \union {"child"})
      BY <3>1, FS_Union
    <3>3. IsFiniteSet(({"inbox"} \union {"child"}) \union {"outbox"})
      BY <3>1, <3>2, FS_Union
    <3>4. ({"inbox"} \union {"child"}) \union {"outbox"} = {"inbox", "child", "outbox"}
      OBVIOUS
    <3> QED BY <3>3, <3>4
  <2>2. IsFiniteSet(0 .. InboxDepth + OutboxDepth + 1)
    BY SubsystemAssumption, FS_Interval
  <2> QED BY <2>1, <2>2, FS_Product DEF Place
<1>2. IsFiniteSet(Child \X Place)
  BY <1>1, SubsystemAssumption, FS_Product
<1>3. ASSUME NEW c \in Child, NEW p \in Owed(c)
      PROVE  p \in Place
  <2>1. PICK a \in Seq(ChildMode) : a = inbox[c] /\ Len(a) <= InboxDepth
    BY DEF Typed, CommandsTyped
  <2>2. PICK b \in Seq(Report) : b = outbox[c] /\ Len(b) <= OutboxDepth
    BY DEF Typed, WorldTyped
  <2>3. DOMAIN inbox[c] \subseteq 0 .. InboxDepth + OutboxDepth + 1
    BY <2>1, SubsystemAssumption
  <2>4. DOMAIN outbox[c] \subseteq 0 .. InboxDepth + OutboxDepth + 1
    BY <2>2, SubsystemAssumption
  <2>5. 1 \in 0 .. InboxDepth + OutboxDepth + 1
    BY SubsystemAssumption
  <2>6. p = <<p[1], p[2]>>
    BY OwedPairs
  <2>7. \/ p[1] = "inbox" /\ p[2] \in DOMAIN inbox[c]
        \/ p[1] = "child" /\ p[2] = 1
        \/ p[1] = "outbox" /\ p[2] \in DOMAIN outbox[c]
    BY <2>6, OwedIs
  <2> QED BY <2>3, <2>4, <2>5, <2>6, <2>7 DEF Place
<1>4. AllOwed \in SUBSET (Child \X Place)
  BY <1>3 DEF AllOwed
<1>5. IsFiniteSet(AllOwed)
  BY <1>2, <1>4, FS_Subset
<1> QED BY <1>5, FS_CardinalityType

\* Finite sets compare by injections
LEMMA Compared ==
  ASSUME NEW S, NEW T, IsFiniteSet(T), NEW f \in [S -> T],
         \A x, y \in S : f[x] = f[y] => x = y
  PROVE  IsFiniteSet(S) /\ Cardinality(S) <= Cardinality(T)
<1>1. f \in Injection(S, T)
  BY DEF Injection, IsInjective
<1> QED BY <1>1, FS_Injection

\* The same after a step
LEMMA FinitelyManyNext == Typed' => IsFiniteSet(AllOwed') /\ Cardinality(AllOwed') \in Nat
<1>1. (Typed => IsFiniteSet(AllOwed) /\ Cardinality(AllOwed) \in Nat)'
  BY FinitelyMany, PTL
<1> QED BY <1>1

LEMMA OwingNext ==
  /\ \A c, p : <<c, p>> \in AllOwed' <=> c \in Child /\ p \in Owed(c)'
  /\ \A t \in AllOwed' : \E c \in Child : \E p \in Owed(c)' : t = <<c, p>>
  BY DEF AllOwed

LEMMA OwedIsNext ==
  ASSUME NEW c \in Child, NEW k, NEW i
  PROVE  <<k, i>> \in Owed(c)'
           <=> \/ k = "inbox" /\ i \in DOMAIN inbox'[c]
               \/ k = "child" /\ i = 1 /\ child'[c].moving /\ child'[c].by = "subsystem"
               \/ k = "outbox" /\ i \in DOMAIN outbox'[c] /\ outbox'[c][i].kind \in Answering
  BY DEF Owed, Answering

\* A step of one child, or of the subsystem with one child, after which what
\* the child owed, but for "gone", is owed in the form that g tells
LEMMA OneChildMoves ==
  ASSUME Typed, Typed', NEW c \in Child,
         \A d \in Child : d # c => Owed(d)' = Owed(d),
         NEW gone, NEW g, \A p \in Owed(c) \ gone : g[p] \in Owed(c)',
         \A p, q \in Owed(c) \ gone : g[p] = g[q] => p = q
  PROVE  Cardinality(AllOwed \ ({c} \X gone)) <= Cardinality(AllOwed')
<1> DEFINE S == AllOwed \ ({c} \X gone)
           f == [t \in S |-> IF t[1] = c THEN <<c, g[t[2]]>> ELSE t]
<1>1. ASSUME NEW t \in S
      PROVE  \E d \in Child : \E p \in Owed(d) : t = <<d, p>> /\ (d = c => p \notin gone)
  <2>1. PICK d \in Child : \E p \in Owed(d) : t = <<d, p>>
    BY Owing
  <2>2. PICK p \in Owed(d) : t = <<d, p>>
    BY <2>1
  <2>3. d = c => p \notin gone
    BY <2>2
  <2> QED BY <2>2, <2>3
<1>2. ASSUME NEW t \in S
      PROVE  f[t] \in AllOwed'
  <2>0. PICK d \in Child : \E p \in Owed(d) : t = <<d, p>> /\ (d = c => p \notin gone)
    BY <1>1
  <2>1. PICK p \in Owed(d) : t = <<d, p>> /\ (d = c => p \notin gone)
    BY <2>0
  <2>2. CASE d = c
    <3>1. f[t] = <<c, g[p]>> /\ g[p] \in Owed(c)'
      BY <2>1, <2>2
    <3> QED BY <3>1, OwingNext
  <2>3. CASE d # c
    <3>1. f[t] = <<d, p>> /\ p \in Owed(d)'
      BY <2>1, <2>3
    <3> QED BY <3>1, OwingNext
  <2> QED BY <2>2, <2>3
<1>3. ASSUME NEW t \in S, NEW u \in S, f[t] = f[u]
      PROVE  t = u
  <2>01. PICK d \in Child : \E p \in Owed(d) : t = <<d, p>> /\ (d = c => p \notin gone)
    BY <1>1
  <2>02. PICK e \in Child : \E q \in Owed(e) : u = <<e, q>> /\ (e = c => q \notin gone)
    BY <1>1
  <2>1. PICK p \in Owed(d) : t = <<d, p>> /\ (d = c => p \notin gone)
    BY <2>01
  <2>2. PICK q \in Owed(e) : u = <<e, q>> /\ (e = c => q \notin gone)
    BY <2>02
  <2>3. f[t] = <<d, IF d = c THEN g[p] ELSE p>> /\ f[u] = <<e, IF e = c THEN g[q] ELSE q>>
    BY <2>1, <2>2
  <2>4. d = e /\ (IF d = c THEN g[p] ELSE p) = (IF e = c THEN g[q] ELSE q)
    BY <1>3, <2>3
  <2>5. p = q
    BY <2>1, <2>2, <2>4
  <2> QED BY <2>1, <2>2, <2>4, <2>5
<1>4. f \in [S -> AllOwed']
  BY <1>2
<1>5. \A t, u \in S : f[t] = f[u] => t = u
  BY <1>3
<1>6. IsFiniteSet(AllOwed')
  BY FinitelyManyNext
<1> HIDE DEF f, S
<1>7. Cardinality(S) <= Cardinality(AllOwed')
  BY <1>4, <1>5, <1>6, Compared
<1> QED BY <1>7 DEF S

\* When nothing is gone, no more is waited for than before
LEMMA StillCovered ==
  ASSUME Typed, Typed', WaitsForSomebody, NEW c \in Child,
         \A d \in Child : d # c => Owed(d)' = Owed(d),
         NEW g, \A p \in Owed(c) : g[p] \in Owed(c)',
         \A p, q \in Owed(c) : g[p] = g[q] => p = q,
         commandsOutstanding' = commandsOutstanding
  PROVE  WaitsForSomebody'
<1>1. Cardinality(AllOwed \ ({c} \X {})) <= Cardinality(AllOwed')
  BY OneChildMoves
<1>2. AllOwed \ ({c} \X {}) = AllOwed
  OBVIOUS
<1>3. PICK m \in Nat : m = Cardinality(AllOwed)
  BY FinitelyMany
<1>4. PICK n \in Nat : n = Cardinality(AllOwed')
  BY FinitelyManyNext
<1>5. PICK k \in Int : k = commandsOutstanding
  BY DEF Typed, CommandsTyped
<1>6. k <= m /\ m <= n
  BY <1>1, <1>2, <1>3, <1>4, <1>5 DEF WaitsForSomebody
<1>7. k <= n
  BY <1>6
<1> QED BY <1>4, <1>5, <1>7 DEF WaitsForSomebody

LEMMA CoveredByCommands ==
  ASSUME Typed', CommandsCovered
  PROVE  WaitsForSomebody'
<1>1. PICK sent \in SUBSET Child : /\ commandsOutstanding' = Cardinality(sent)
                                   /\ \A c \in sent : inbox'[c] # <<>>
  BY DEF CommandsCovered
<1> DEFINE f == [c \in sent |-> <<c, <<"inbox", 1>>>>]
<1>2. ASSUME NEW c \in sent
      PROVE  f[c] \in AllOwed'
  <2>1. PICK q \in Seq(ChildMode) : q = inbox'[c]
    BY <1>1 DEF Typed, CommandsTyped
  <2>2. 1 \in DOMAIN inbox'[c]
    BY <1>1, <2>1, Shortened
  <2>3. <<"inbox", 1>> \in Owed(c)'
    BY <1>1, <2>2, OwedIsNext
  <2> QED BY <1>1, <2>3, OwingNext
<1>3. f \in [sent -> AllOwed']
  BY <1>2
<1>4. \A c, d \in sent : f[c] = f[d] => c = d
  OBVIOUS
<1>5. IsFiniteSet(AllOwed')
  BY FinitelyManyNext
<1> HIDE DEF f
<1>6. Cardinality(sent) <= Cardinality(AllOwed')
  BY <1>3, <1>4, <1>5, Compared
<1> QED BY <1>1, <1>6 DEF WaitsForSomebody

\* What the other children owe depends on nothing of c
LEMMA OthersOwe ==
  ASSUME Typed, NEW c \in Child,
         \A d \in Child : d # c => /\ inbox'[d] = inbox[d] /\ outbox'[d] = outbox[d]
                                   /\ child'[d] = child[d]
  PROVE  \A d \in Child : d # c => Owed(d)' = Owed(d)
  BY DEF Owed

LEMMA TokenOf ==
  ASSUME NEW c \in Child, NEW p \in Owed(c)
  PROVE  /\ p = <<p[1], p[2]>>
         /\ \/ p[1] = "inbox" /\ p[2] \in DOMAIN inbox[c]
            \/ p[1] = "child" /\ p[2] = 1 /\ child[c].moving /\ child[c].by = "subsystem"
            \/ p[1] = "outbox" /\ p[2] \in DOMAIN outbox[c] /\ outbox[c][p[2]].kind \in Answering
<1>1. p = <<p[1], p[2]>>
  BY OwedPairs
<1> QED BY <1>1, OwedIs

LEMMA HandleMessageWaits ==
  ASSUME Typed, Typed', WaitsForSomebody, HandleMessage
  PROVE  WaitsForSomebody'
<1>1. PICK c \in Child :
        /\ outbox[c] # <<>>
        /\ outbox' = [outbox EXCEPT ![c] = Tail(@)]
        /\ IF Head(outbox[c]).kind = "HEALTH_INFO" THEN handleCommandMessage
           ELSE handleModeReply(c, Head(outbox[c]))
  BY DEF HandleMessage
<1>2. PICK q \in Seq(Report) : q = outbox[c]
  BY DEF Typed, WorldTyped
<1>3. PICK r \in Seq(Report) : r = Tail(q)
  BY <1>1, <1>2, Shortened
<1>4. outbox'[c] = r /\ \A d \in Child : d # c => outbox'[d] = outbox[d]
  BY <1>1, <1>2, <1>3 DEF Typed, WorldTyped
<1>5. child' = child /\ inbox' = inbox
  BY DEF HandleMessage
<1>6. \A d \in Child : d # c => Owed(d)' = Owed(d)
  BY <1>4, <1>5, OthersOwe
<1>7. /\ Head(q) \in Report /\ Head(q) = q[1] /\ 1 \in DOMAIN q
      /\ DOMAIN q \subseteq Nat
      /\ \A i \in DOMAIN r : r[i] = q[i + 1]
      /\ \A i \in DOMAIN q : i # 1 => i - 1 \in DOMAIN r
  BY <1>1, <1>2, <1>3, Shortened
<1> DEFINE gone == IF q[1].kind \in Answering THEN {<<"outbox", 1>>} ELSE {}
           g == [p \in Owed(c) |-> IF p[1] = "outbox" THEN <<"outbox", p[2] - 1>> ELSE p]
<1>8. ASSUME NEW p \in Owed(c) \ gone
      PROVE  g[p] \in Owed(c)'
  <2>1. CASE p[1] = "outbox"
    <3>1. p = <<"outbox", p[2]>> /\ p[2] \in DOMAIN q /\ q[p[2]].kind \in Answering
      BY <1>2, <2>1, TokenOf
    <3>2. p[2] # 1
      BY <3>1
    <3>3. p[2] - 1 \in DOMAIN r /\ r[p[2] - 1] = q[p[2]]
      BY <1>7, <3>1, <3>2
    <3>4. <<"outbox", p[2] - 1>> \in Owed(c)'
      BY <1>4, <3>1, <3>3, OwedIsNext
    <3> QED BY <2>1, <3>4
  <2>2. CASE p[1] # "outbox"
    <3>1. <<p[1], p[2]>> \in Owed(c)'
      BY <1>5, <2>2, TokenOf, OwedIsNext
    <3> QED BY <2>2, <3>1, TokenOf
  <2> QED BY <2>1, <2>2
<1>9. ASSUME NEW p \in Owed(c) \ gone, NEW s \in Owed(c) \ gone, g[p] = g[s]
      PROVE  p = s
  <2>1. /\ p = <<p[1], p[2]>> /\ (p[1] = "outbox" => p[2] \in Nat)
        /\ s = <<s[1], s[2]>> /\ (s[1] = "outbox" => s[2] \in Nat)
    BY <1>2, <1>7, TokenOf
  <2>2. p[1] = "outbox" <=> s[1] = "outbox"
    BY <1>9
  <2>3. CASE p[1] = "outbox"
    <3>1. p[2] - 1 = s[2] - 1
      BY <1>9, <2>2, <2>3
    <3> QED BY <2>1, <2>2, <2>3, <3>1
  <2>4. CASE p[1] # "outbox"
    BY <1>9, <2>2, <2>4
  <2> QED BY <2>3, <2>4
<1> HIDE DEF g
<1>10. Cardinality(AllOwed \ ({c} \X gone)) <= Cardinality(AllOwed')
  <2> HIDE DEF gone
  <2> QED BY <1>6, <1>8, <1>9, OneChildMoves
<1>11. PICK m \in Nat : m = Cardinality(AllOwed)
  BY FinitelyMany
<1>12. PICK n \in Nat : n = Cardinality(AllOwed')
  BY FinitelyManyNext
<1>13. PICK k \in Int : k = commandsOutstanding
  BY DEF Typed, CommandsTyped
<1>14. k <= m
  BY <1>11, <1>13 DEF WaitsForSomebody
<1>15. CASE q[1].kind \in Answering
  <2>1. commandsOutstanding' = k - 1
    BY <1>1, <1>2, <1>7, <1>13, <1>15 DEF handleModeReply, Answering
  <2>2. {c} \X gone = {<<c, <<"outbox", 1>>>>}
    BY <1>15
  <2>3. <<c, <<"outbox", 1>>>> \in AllOwed
    BY <1>2, <1>7, <1>15, OwedIs, Owing
  <2>4. Cardinality(AllOwed \ {<<c, <<"outbox", 1>>>>}) = m - 1
    BY <1>11, <2>3, FinitelyMany, FS_RemoveElement
  <2>5. m - 1 <= n
    BY <1>10, <1>12, <2>2, <2>4
  <2> QED BY <1>12, <1>14, <2>1, <2>5 DEF WaitsForSomebody
<1>16. CASE q[1].kind \notin Answering
  <2>1. commandsOutstanding' = k
    BY <1>1, <1>2, <1>7, <1>13, <1>16
      DEF handleModeReply, handleCommandMessage, Answering, Report
  <2>2. AllOwed \ ({c} \X gone) = AllOwed
    BY <1>16
  <2>3. m <= n
    BY <1>10, <1>11, <1>12, <2>2
  <2> QED BY <1>12, <1>14, <2>1, <2>3 DEF WaitsForSomebody
<1> QED BY <1>15, <1>16

\* A command that a child takes turns into its transition or into a refusal
LEMMA TakeCommandWaits ==
  ASSUME Typed, Typed', WaitsForSomebody, NEW c \in Child, TakeCommand(c)
  PROVE  WaitsForSomebody'
<1>1. PICK q \in Seq(ChildMode) : q = inbox[c]
  BY DEF Typed, CommandsTyped
<1>2. PICK r \in Seq(ChildMode) : r = Tail(q)
  BY <1>1, Shortened DEF TakeCommand
<1>3. inbox'[c] = r /\ \A d \in Child : d # c => inbox'[d] = inbox[d]
  BY <1>1, <1>2 DEF TakeCommand, Typed, CommandsTyped
<1>4. /\ DOMAIN q \subseteq Nat
      /\ \A i \in DOMAIN q : i # 1 => i - 1 \in DOMAIN r
  BY <1>1, <1>2, Shortened DEF TakeCommand
<1>5. PICK b \in Seq(Report) : b = outbox[c]
  BY DEF Typed, WorldTyped
<1>6. PICK last \in Nat : last = Len(b) + 1
  OBVIOUS
<1>7. last \notin DOMAIN b
  BY <1>6
<1>8. PICK end \in {<<"child", 1>>, <<"outbox", last>>} :
        /\ end \notin Owed(c) /\ end \in Owed(c)'
        /\ \A p \in Owed(c) : p[1] # "inbox" => p \in Owed(c)'
        /\ \A d \in Child : d # c => outbox'[d] = outbox[d] /\ child'[d] = child[d]
  <2>1. CASE /\ ~child[c].moving
             /\ child' = [child EXCEPT ![c].moving = TRUE, ![c].by = "subsystem"]
             /\ UNCHANGED outbox
    <3>1. child'[c].moving /\ child'[c].by = "subsystem"
          /\ \A d \in Child : d # c => child'[d] = child[d]
      BY <2>1 DEF Typed, WorldTyped
    <3>2. <<"child", 1>> \notin Owed(c)
      BY <2>1, OwedIs
    <3>3. <<"child", 1>> \in Owed(c)'
      BY <3>1, OwedIsNext
    <3>4. ASSUME NEW p \in Owed(c), p[1] # "inbox" PROVE p \in Owed(c)'
      <4>1. <<p[1], p[2]>> \in Owed(c)'
        BY <2>1, <3>4, TokenOf, OwedIsNext
      <4> QED BY <4>1, TokenOf
    <3> QED BY <2>1, <3>1, <3>2, <3>3, <3>4
  <2>2. CASE Tell(c, [kind |-> "REPLY_CANT_REACH_MODE"]) /\ UNCHANGED child
    <3>1. PICK m \in Report : m = [kind |-> "REPLY_CANT_REACH_MODE"]
      BY Refusal
    <3>2. outbox' = [outbox EXCEPT ![c] = Append(b, m)]
      BY <1>5, <2>2, <3>1, ToldTyped
    <3>3. /\ outbox'[c] = Append(b, m)
          /\ \A d \in Child : d # c => outbox'[d] = outbox[d]
      BY <3>2 DEF Typed, WorldTyped
    <3>4. /\ DOMAIN Append(b, m) = DOMAIN b \union {last}
          /\ \A i \in DOMAIN b : Append(b, m)[i] = b[i]
          /\ Append(b, m)[last] = m
      BY <1>6, Lengthened
    <3>5. <<"outbox", last>> \notin Owed(c)
      BY <1>5, <1>7, OwedIs
    <3>6. <<"outbox", last>> \in Owed(c)'
      BY <3>1, <3>3, <3>4, OwedIsNext DEF Answering
    <3>7. ASSUME NEW p \in Owed(c), p[1] # "inbox" PROVE p \in Owed(c)'
      <4>2. \/ p[1] = "child" /\ p[2] = 1 /\ child[c].moving /\ child[c].by = "subsystem"
            \/ p[1] = "outbox" /\ p[2] \in DOMAIN b /\ b[p[2]].kind \in Answering
        BY <1>5, <3>7, TokenOf
      <4>3. \/ p[1] = "child" /\ p[2] = 1 /\ child'[c].moving /\ child'[c].by = "subsystem"
            \/ /\ p[1] = "outbox" /\ p[2] \in DOMAIN outbox'[c]
               /\ outbox'[c][p[2]].kind \in Answering
        BY <2>2, <3>3, <3>4, <4>2
      <4>1. <<p[1], p[2]>> \in Owed(c)'
        BY <4>3, OwedIsNext
      <4> QED BY <4>1, TokenOf
    <3> QED BY <2>2, <3>3, <3>5, <3>6, <3>7
  <2> QED BY <2>1, <2>2 DEF TakeCommand
<1> DEFINE g == [p \in Owed(c) |-> IF p[1] = "inbox"
                                   THEN IF p[2] = 1 THEN end ELSE <<"inbox", p[2] - 1>>
                                   ELSE p]
<1>9. ASSUME NEW p \in Owed(c)
      PROVE  g[p] \in Owed(c)'
  <2>1. CASE p[1] = "inbox" /\ p[2] # 1
    <3>1. p[2] - 1 \in DOMAIN inbox'[c]
      BY <1>1, <1>3, <1>4, <2>1, TokenOf
    <3>2. <<"inbox", p[2] - 1>> \in Owed(c)'
      BY <3>1, OwedIsNext
    <3> QED BY <2>1, <3>2
  <2>2. CASE ~(p[1] = "inbox" /\ p[2] # 1)
    BY <1>8, <2>2
  <2> QED BY <2>1, <2>2
<1>10. ASSUME NEW p \in Owed(c), NEW s \in Owed(c), g[p] = g[s]
       PROVE  p = s
  <2>1. /\ p = <<p[1], p[2]>> /\ (p[1] = "inbox" => p[2] \in Nat)
        /\ s = <<s[1], s[2]>> /\ (s[1] = "inbox" => s[2] \in Nat)
    BY <1>1, <1>4, TokenOf
  <2>2. end[1] # "inbox"
    OBVIOUS
  <2>3. CASE p[1] = "inbox" /\ s[1] = "inbox"
    BY <1>10, <2>1, <2>2, <2>3
  <2>4. CASE p[1] # "inbox" /\ s[1] # "inbox"
    BY <1>10, <2>4
  <2>5. CASE p[1] = "inbox" /\ s[1] # "inbox"
    BY <1>8, <1>10, <2>5
  <2>6. CASE p[1] # "inbox" /\ s[1] = "inbox"
    BY <1>8, <1>10, <2>6
  <2> QED BY <2>3, <2>4, <2>5, <2>6
<1>11. \A d \in Child : d # c => Owed(d)' = Owed(d)
  BY <1>3, <1>8, OthersOwe
<1>12. commandsOutstanding' = commandsOutstanding
  BY DEF TakeCommand
<1> HIDE DEF g
<1> QED BY <1>9, <1>10, <1>11, <1>12, StillCovered

\* A transition for the subsystem turns into a reply, whatever mode it ends in
LEMMA SettleWaits ==
  ASSUME Typed, Typed', WaitsForSomebody, NEW c \in Child, Settle(c)
  PROVE  WaitsForSomebody'
<1>1. PICK n \in ChildMode :
        /\ modeChanged(c, n)
        /\ child' = [child EXCEPT ![c] = [mode |-> n, moving |-> FALSE, by |-> "none"]]
  BY DEF Settle
<1>2. PICK k \in {"REPLY_MODE_REPLY", "REPLY_MODE_INFO"} :
        /\ Tell(c, [kind |-> k, mode |-> n])
        /\ child[c].by = "subsystem" => k = "REPLY_MODE_REPLY"
  BY <1>1 DEF modeChanged
<1>3. PICK m \in Report : m = [kind |-> k, mode |-> n]
  BY Announcement
<1>4. PICK b \in Seq(Report) : b = outbox[c]
  BY DEF Typed, WorldTyped
<1>5. PICK last \in Nat : last = Len(b) + 1
  OBVIOUS
<1>6. last \notin DOMAIN b
  BY <1>5
<1>7. outbox' = [outbox EXCEPT ![c] = Append(b, m)]
  BY <1>2, <1>3, <1>4, ToldTyped
<1>8. outbox'[c] = Append(b, m) /\ \A d \in Child : d # c => outbox'[d] = outbox[d]
  BY <1>7 DEF Typed, WorldTyped
<1>9. /\ DOMAIN Append(b, m) = DOMAIN b \union {last}
      /\ \A i \in DOMAIN b : Append(b, m)[i] = b[i]
      /\ Append(b, m)[last] = m
  BY <1>5, Lengthened
<1>10. inbox' = inbox /\ commandsOutstanding' = commandsOutstanding
       /\ \A d \in Child : d # c => child'[d] = child[d]
  BY <1>1 DEF Settle, Typed, WorldTyped
<1>11. \A d \in Child : d # c => Owed(d)' = Owed(d)
  BY <1>8, <1>10, OthersOwe
<1> DEFINE g == [p \in Owed(c) |-> IF p[1] = "child" THEN <<"outbox", last>> ELSE p]
<1>12. ASSUME NEW p \in Owed(c)
       PROVE  g[p] \in Owed(c)'
  <2>1. CASE p[1] = "child"
    <3>1. m.kind \in Answering
      BY <1>2, <1>3, <2>1, TokenOf DEF Answering
    <3>2. <<"outbox", last>> \in Owed(c)'
      BY <1>8, <1>9, <3>1, OwedIsNext
    <3> QED BY <2>1, <3>2
  <2>2. CASE p[1] = "inbox"
    <3>1. <<p[1], p[2]>> \in Owed(c)'
      BY <1>10, <2>2, TokenOf, OwedIsNext
    <3> QED BY <2>2, <3>1, TokenOf
  <2>3. CASE p[1] = "outbox"
    <3>1. p[2] \in DOMAIN b /\ b[p[2]].kind \in Answering
      BY <1>4, <2>3, TokenOf
    <3>2. p[2] \in DOMAIN outbox'[c] /\ outbox'[c][p[2]].kind \in Answering
      BY <1>8, <1>9, <3>1
    <3>3. <<p[1], p[2]>> \in Owed(c)'
      BY <2>3, <3>2, OwedIsNext
    <3> QED BY <2>3, <3>3, TokenOf
  <2> QED BY <2>1, <2>2, <2>3, TokenOf
<1>13. ASSUME NEW p \in Owed(c), NEW s \in Owed(c), g[p] = g[s]
       PROVE  p = s
  <2>1. ASSUME NEW t \in Owed(c), t[1] = "child" PROVE t = <<"child", 1>>
    BY <2>1, TokenOf
  <2>2. <<"outbox", last>> \notin Owed(c)
    BY <1>4, <1>6, OwedIs
  <2>3. CASE p[1] = "child" /\ s[1] = "child"
    BY <2>1, <2>3
  <2>4. CASE p[1] = "child" /\ s[1] # "child"
    BY <1>13, <2>2, <2>4
  <2>5. CASE p[1] # "child" /\ s[1] = "child"
    BY <1>13, <2>2, <2>5
  <2>6. CASE p[1] # "child" /\ s[1] # "child"
    BY <1>13, <2>6
  <2> QED BY <2>3, <2>4, <2>5, <2>6
<1> HIDE DEF g
<1> QED BY <1>10, <1>11, <1>12, <1>13, StillCovered

\* Nothing that is owed is lost when a child moves by itself or gets another health
LEMMA KeptWaits ==
  ASSUME Typed, Typed', WaitsForSomebody, NEW c \in Child,
         \A d \in Child : d # c => Owed(d)' = Owed(d),
         Owed(c) \subseteq Owed(c)',
         commandsOutstanding' = commandsOutstanding
  PROVE  WaitsForSomebody'
<1> DEFINE g == [p \in Owed(c) |-> p]
<1>1. /\ \A p \in Owed(c) : g[p] \in Owed(c)'
      /\ \A p, q \in Owed(c) : g[p] = g[q] => p = q
  OBVIOUS
<1> HIDE DEF g
<1> QED BY <1>1, StillCovered

LEMMA LeaveWaits ==
  ASSUME Typed, Typed', WaitsForSomebody, NEW c \in Child, Leave(c)
  PROVE  WaitsForSomebody'
<1>1. /\ inbox' = inbox /\ outbox' = outbox /\ commandsOutstanding' = commandsOutstanding
      /\ ~child[c].moving /\ child' = [child EXCEPT ![c].moving = TRUE]
  BY DEF Leave
<1>2. \A d \in Child : d # c => child'[d] = child[d]
  BY <1>1 DEF Typed, WorldTyped
<1>3. \A d \in Child : d # c => Owed(d)' = Owed(d)
  BY <1>1, <1>2, OthersOwe
<1>4. ASSUME NEW p \in Owed(c) PROVE p \in Owed(c)'
  <2>1. <<p[1], p[2]>> \in Owed(c)'
    BY <1>1, TokenOf, OwedIsNext
  <2> QED BY <2>1, TokenOf
<1> QED BY <1>1, <1>3, <1>4, KeptWaits

LEMMA SetHealthWaits ==
  ASSUME Typed, Typed', WaitsForSomebody, NEW c \in Child, SetHealth(c)
  PROVE  WaitsForSomebody'
<1>1. inbox' = inbox /\ child' = child /\ commandsOutstanding' = commandsOutstanding
  BY DEF SetHealth
<1>2. PICK b \in Seq(Report) : b = outbox[c]
  BY DEF Typed, WorldTyped
<1>3. PICK r \in Seq(Report) :
        /\ outbox'[c] = r /\ \A d \in Child : d # c => outbox'[d] = outbox[d]
        /\ \A i \in DOMAIN b : i \in DOMAIN r /\ r[i] = b[i]
  <2>1. CASE UNCHANGED outbox
    BY <1>2, <2>1
  <2>2. CASE Tell(c, [kind |-> "HEALTH_INFO"])
    <3>1. PICK m \in Report : m = [kind |-> "HEALTH_INFO"]
      BY Refusal
    <3>2. outbox' = [outbox EXCEPT ![c] = Append(b, m)]
      BY <1>2, <2>2, <3>1, ToldTyped
    <3>3. outbox'[c] = Append(b, m) /\ \A d \in Child : d # c => outbox'[d] = outbox[d]
      BY <3>2 DEF Typed, WorldTyped
    <3>4. /\ Append(b, m) \in Seq(Report)
          /\ \A i \in DOMAIN b : i \in DOMAIN Append(b, m) /\ Append(b, m)[i] = b[i]
      BY Lengthened
    <3> QED BY <3>3, <3>4
  <2> QED BY <2>1, <2>2 DEF SetHealth
<1>4. \A d \in Child : d # c => Owed(d)' = Owed(d)
  BY <1>1, <1>3, OthersOwe
<1>5. ASSUME NEW p \in Owed(c) PROVE p \in Owed(c)'
  <2>1. <<p[1], p[2]>> \in Owed(c)'
    BY <1>1, <1>2, <1>3, TokenOf, OwedIsNext
  <2> QED BY <2>1, TokenOf
<1> QED BY <1>1, <1>4, <1>5, KeptWaits

LEMMA StepWaits ==
  ASSUME Typed, WaitsForSomebody, [Next]_vars
  PROVE  WaitsForSomebody'
<1>1. Typed'
  BY StepTyped
<1>2. ASSUME UNCHANGED <<commandsOutstanding, inbox, child, outbox>>
      PROVE  WaitsForSomebody'
  <2>1. AllOwed' = AllOwed
    BY <1>2 DEF AllOwed, Owed
  <2> QED BY <1>2, <2>1 DEF WaitsForSomebody
<1>3. CASE UNCHANGED vars \/ TimePasses
  BY <1>2, <1>3 DEF vars, world, TimePasses
<1>4. CASE ModeCommand
  <2>1. UNCHANGED <<child, outbox>>
    BY <1>4 DEF ModeCommand, world
  <2> QED BY <1>1, <1>2, <1>4, <2>1, ModeCommandTyped, CoveredByCommands
<1>5. CASE PerformChildOperation
  <2>1. UNCHANGED <<child, outbox>>
    BY <1>5 DEF PerformChildOperation, world
  <2> QED BY <1>1, <1>2, <1>5, <2>1, PerformTyped, CoveredByCommands
<1>6. CASE HandleMessage
  BY <1>1, <1>6, HandleMessageWaits
<1>7. ASSUME NEW c \in Child, TakeCommand(c) \/ Settle(c) \/ Leave(c) \/ SetHealth(c)
      PROVE  WaitsForSomebody'
  BY <1>1, <1>7, TakeCommandWaits, SettleWaits, LeaveWaits, SetHealthWaits
<1> QED BY <1>3, <1>4, <1>5, <1>6, <1>7 DEF Next, SubsystemStep

\* The subsystem never waits for more replies than are on their way: neither a
\* table that is given up, nor a refusal, nor a full queue, nor a child that
\* fails or is taken over makes it wait for a reply that nobody will send.
THEOREM NoWaitForNobody == Spec => []WaitsForSomebody
<1>1. Init => Typed /\ WaitsForSomebody
  <2> SUFFICES ASSUME Init PROVE WaitsForSomebody
    BY InitTyped
  <2>1. Cardinality(AllOwed) \in Nat
    BY InitTyped, FinitelyMany
  <2> QED BY <2>1 DEF Init, WaitsForSomebody
<1>2. Typed /\ WaitsForSomebody /\ [Next]_vars => Typed' /\ WaitsForSomebody'
  BY StepTyped, StepWaits
<1> QED BY <1>1, <1>2, PTL DEF Spec
=============================================================================
