---------------------- MODULE CommandingService_proofs ----------------------
(***************************************************************************)
(* Proofs about CommandingService: for any number of telecommands and      *)
(* objects, depths of queues, map and FIFOs, timeouts and replies.         *)
(***************************************************************************)
EXTENDS CommandingService, SequenceTheorems, TLAPS

Info == [queue : Object, tc : Telecommand \cup {NoTc}, age : Age \cup {Unset},
         fifo : Seq(Telecommand)]
ReplyKind == {"COMPLETION_SUCCESS", "COMPLETION_FAILED", "STEP_SUCCESS", "STEP_FAILED",
              "DATA_REPLY"}
Message == [sender : Object, for : Telecommand, kind : ReplyKind]
Loop == {"commands", "requests", "timeouts"}
Service == [step : Loop \cup {"start"}, back : Loop, iter : Nat, entry : Nat,
            tc : Telecommand \cup {NoTc}]
ReportKind == Verdicts \cup {"START_SUCCESS", "PROGRESS_SUCCESS"}

-----------------------------------------------------------------------------
(***************************************************************************)
(* The inductive invariant.                                                *)
(***************************************************************************)
Typed ==
  /\ target \in [Telecommand -> Object \cup {"NO_OBJECT"}]
  /\ sent \in 0 .. NTelecommands
  /\ packets \subseteq Telecommand
  /\ requestQueue \in Seq(Telecommand) /\ Len(requestQueue) <= RequestQueueDepth
  /\ commandQueue \in Seq(Message) /\ Len(commandQueue) <= CommandQueueDepth
  /\ commandMap \in Seq(Info) /\ Len(commandMap) <= NumberOfParallelCommands
  /\ \A i \in DOMAIN commandMap : Len(commandMap[i].fifo) <= CommandInfoFifoDepth
  /\ service \in Service
  /\ objectQueue \in [Object -> Seq(Telecommand)]
  /\ \A o \in Object : Len(objectQueue[o]) <= ObjectQueueDepth
  /\ action \in [Telecommand -> {"idle", "executing", "underway", "finished"}]
  /\ reports \in [Telecommand -> Seq(ReportKind)]

\* The telecommand that entry i is there for: the active one, or the one that
\* is being started
Current(i) == IF service.step = "start" /\ service.entry = i THEN service.tc
              ELSE commandMap[i].tc

\* Each object has one entry at most, and all that is in it is for the object
OneEntry == \A i, j \in DOMAIN commandMap : commandMap[i].queue = commandMap[j].queue => i = j
ForItsObject ==
  \A i \in DOMAIN commandMap :
    /\ Current(i) \in Telecommand /\ target[Current(i)] = commandMap[i].queue
    /\ \A k \in DOMAIN commandMap[i].fifo : target[commandMap[i].fifo[k]] = commandMap[i].queue
Position ==
  /\ service.step = "start" => service.entry \in DOMAIN commandMap
  /\ service.step = "timeouts" \/ (service.step = "start" /\ service.back = "timeouts")
       => service.iter >= 1
Entries == OneEntry /\ ForItsObject /\ Position

\* Where a telecommand is, and what has been reported of it
Placed ==
  \A tc \in Telecommand :
    /\ reports[tc] = << >> <=> \/ tc > sent \/ Waits(tc) \/ Starts(tc)
                               \/ \E i \in DOMAIN commandMap : WaitsIn(tc, i)
    /\ reports[tc] # << >> /\ ~HasVerdict(tc) <=> \E i \in DOMAIN commandMap : Active(tc, i)
    /\ tc \in packets <=> tc <= sent /\ reports[tc] = << >>

\* Telecommands that have left the request queue come before those in it, and
\* so do the ones in a FIFO, after the one that is being started
Taken(tc) == tc <= sent - Len(requestQueue)
Ordered ==
  /\ Len(requestQueue) <= sent
  /\ \A k \in DOMAIN requestQueue : requestQueue[k] = sent - Len(requestQueue) + k
  /\ service.step = "start" =>
       /\ Taken(service.tc)
       /\ \A k \in DOMAIN commandMap[service.entry].fifo :
            service.tc < commandMap[service.entry].fifo[k]
  /\ \A i \in DOMAIN commandMap : \A k \in DOMAIN commandMap[i].fifo :
       /\ Taken(commandMap[i].fifo[k])
       /\ \A l \in 1 .. k - 1 : commandMap[i].fifo[l] < commandMap[i].fifo[k]

\* What the objects work on was started, and their replies say who they are
Told(o, tc) == target[tc] = o /\ reports[tc] # << >>
Objects ==
  /\ \A o \in Object : \A k \in DOMAIN objectQueue[o] : Told(o, objectQueue[o][k])
  /\ \A tc \in Telecommand :
       action[tc] \in {"executing", "underway"} => target[tc] \in Object /\ reports[tc] # << >>
  /\ \A k \in DOMAIN commandQueue : Told(commandQueue[k].sender, commandQueue[k].for)

IInv == Typed /\ Entries /\ Placed /\ Ordered /\ Objects /\ OneVerdict /\ StartsInOrder

-----------------------------------------------------------------------------
\* The parts of the map have their types
LEMMA MapTyped ==
  ASSUME IInv
  PROVE  /\ DOMAIN commandMap = 1 .. Len(commandMap) /\ Len(commandMap) \in Nat
         /\ \A i \in DOMAIN commandMap :
              /\ i \in Nat \ {0} /\ commandMap[i] \in Info
              /\ commandMap[i].queue \in Object /\ commandMap[i].fifo \in Seq(Telecommand)
              /\ \A k \in DOMAIN commandMap[i].fifo : commandMap[i].fifo[k] \in Telecommand
<1>1. commandMap \in Seq(Info)
  BY DEF IInv, Typed
<1>2. DOMAIN commandMap = 1 .. Len(commandMap) /\ Len(commandMap) \in Nat
  BY <1>1, LenProperties
<1>3. ASSUME NEW i \in DOMAIN commandMap
      PROVE  /\ i \in Nat \ {0} /\ commandMap[i] \in Info
             /\ commandMap[i].queue \in Object /\ commandMap[i].fifo \in Seq(Telecommand)
             /\ \A k \in DOMAIN commandMap[i].fifo : commandMap[i].fifo[k] \in Telecommand
  <2>1. i \in Nat \ {0} /\ commandMap[i] \in Info
    BY <1>1, <1>2, ElementOfSeq
  <2>2. commandMap[i].queue \in Object /\ commandMap[i].fifo \in Seq(Telecommand)
    BY <2>1 DEF Info
  <2> QED BY <2>1, <2>2, ElementOfSeq, LenProperties
<1> QED BY <1>2, <1>3

\* FixedMap::find finds the entry of an object
LEMMA FindEntry ==
  ASSUME IInv
  PROVE  /\ \A o : \/ Find(o) = 0 /\ \A i \in DOMAIN commandMap : commandMap[i].queue # o
                   \/ /\ Find(o) # 0 /\ Find(o) \in DOMAIN commandMap
                      /\ commandMap[Find(o)].queue = o
         /\ \A i \in DOMAIN commandMap : Find(commandMap[i].queue) = i
<1>1. \A i \in DOMAIN commandMap : i # 0
  BY MapTyped
<1>2. ASSUME NEW o
      PROVE  \/ Find(o) = 0 /\ \A i \in DOMAIN commandMap : commandMap[i].queue # o
             \/ /\ Find(o) # 0 /\ Find(o) \in DOMAIN commandMap
                /\ commandMap[Find(o)].queue = o
  BY <1>1 DEF Find
<1>3. ASSUME NEW i \in DOMAIN commandMap PROVE Find(commandMap[i].queue) = i
  BY <1>2 DEF IInv, Entries, OneEntry
<1> QED BY <1>2, <1>3

-----------------------------------------------------------------------------
\* What a report makes of the reports of a telecommand
LEMMA Reporting ==
  ASSUME IInv, NEW t \in Telecommand, NEW kinds \in Seq(ReportKind), Report(t, kinds)
  PROVE  /\ reports' \in [Telecommand -> Seq(ReportKind)]
         /\ reports'[t] = reports[t] \o kinds
         /\ \A x \in Telecommand : x # t => reports'[x] = reports[x] /\ HasVerdict(x)' = HasVerdict(x)
<1>1. reports \in [Telecommand -> Seq(ReportKind)]
  BY DEF IInv, Typed
<1>2. reports[t] \o kinds \in Seq(ReportKind)
  BY <1>1, ConcatProperties
<1>3. /\ reports' \in [Telecommand -> Seq(ReportKind)]
      /\ reports'[t] = reports[t] \o kinds
      /\ \A x \in Telecommand : x # t => reports'[x] = reports[x]
  BY <1>1, <1>2 DEF Report
<1> QED BY <1>3 DEF HasVerdict

FirstReports == {<<"START_SUCCESS">>, <<"START_FAILURE">>, <<"START_SUCCESS", "COMPLETION_SUCCESS">>}

\* The first reports of a telecommand that has none
LEMMA FirstReport ==
  ASSUME IInv, NEW t \in Telecommand, NEW kinds \in FirstReports, Report(t, kinds),
         reports[t] = << >>, UNCHANGED target,
         kinds # <<"START_FAILURE">> =>
           \A a \in Telecommand : a < t /\ target[a] = target[t] => reports[a] # << >>
  PROVE  /\ reports' \in [Telecommand -> Seq(ReportKind)]
         /\ reports'[t] # << >> /\ (HasVerdict(t)' <=> kinds # <<"START_SUCCESS">>)
         /\ \A x \in Telecommand : x # t => reports'[x] = reports[x] /\ HasVerdict(x)' = HasVerdict(x)
         /\ OneVerdict' /\ StartsInOrder'
<1>1. /\ {"START_SUCCESS", "START_FAILURE", "COMPLETION_SUCCESS"} \subseteq ReportKind
      /\ kinds \in Seq(ReportKind)
  <2>1. {"START_SUCCESS", "START_FAILURE", "COMPLETION_SUCCESS"} \subseteq ReportKind
    BY DEF ReportKind, Verdicts
  <2>2. \A S : \A x, y \in S : <<x>> \in Seq(S) /\ <<x, y>> \in Seq(S)
    OBVIOUS
  <2> QED BY <2>1, <2>2 DEF FirstReports
<1>2. /\ reports' \in [Telecommand -> Seq(ReportKind)]
      /\ reports'[t] = kinds
      /\ \A x \in Telecommand : x # t => reports'[x] = reports[x] /\ HasVerdict(x)' = HasVerdict(x)
  BY <1>1, Reporting, ConcatEmptySeq
<1>3. /\ kinds # << >> /\ (HasVerdict(t)' <=> kinds # <<"START_SUCCESS">>)
      /\ kinds[1] = "START_SUCCESS" <=> kinds # <<"START_FAILURE">>
      /\ \A k \in DOMAIN kinds :
           /\ kinds[k] \in Verdicts => k = Len(kinds)
           /\ kinds[k] = "START_SUCCESS" \/ kinds[k] = "START_FAILURE" <=> k = 1
  <2>1. CASE kinds = <<"START_SUCCESS">>
    BY <1>2, <2>1 DEF HasVerdict, Verdicts
  <2>2. CASE kinds = <<"START_FAILURE">>
    BY <1>2, <2>2 DEF HasVerdict, Verdicts
  <2>3. CASE kinds = <<"START_SUCCESS", "COMPLETION_SUCCESS">>
    BY <1>2, <2>3 DEF HasVerdict, Verdicts
  <2> QED BY <2>1, <2>2, <2>3 DEF FirstReports
<1>4. OneVerdict'
  BY <1>2, <1>3 DEF IInv, OneVerdict
<1>5. StartsInOrder'
  <2> SUFFICES ASSUME NEW a \in Telecommand, NEW b \in Telecommand,
                      a < b, target[a] = target[b], reports'[b] # << >>,
                      reports'[b][1] = "START_SUCCESS"
               PROVE  reports'[a] # << >>
    BY DEF StartsInOrder
  <2>1. CASE b = t
    <3>1. a # b
      BY DEF Telecommand
    <3> QED BY <1>2, <1>3, <2>1, <3>1
  <2>2. CASE b # t
    BY <1>2, <1>3, <2>2 DEF IInv, StartsInOrder
  <2> QED BY <2>1, <2>2
<1> QED BY <1>2, <1>3, <1>4, <1>5

\* A later report of a telecommand that has no verdict yet
LEMMA LaterReport ==
  ASSUME IInv, NEW t \in Telecommand, NEW kind \in ReportKind \ {"START_SUCCESS", "START_FAILURE"},
         Report(t, <<kind>>), reports[t] # << >>, ~HasVerdict(t), UNCHANGED target
  PROVE  /\ reports' \in [Telecommand -> Seq(ReportKind)]
         /\ reports'[t] # << >> /\ (HasVerdict(t)' <=> kind \in Verdicts)
         /\ \A x \in Telecommand : x # t => reports'[x] = reports[x] /\ HasVerdict(x)' = HasVerdict(x)
         /\ OneVerdict' /\ StartsInOrder'
<1>1. /\ reports' \in [Telecommand -> Seq(ReportKind)]
      /\ reports'[t] = reports[t] \o <<kind>>
      /\ \A x \in Telecommand : x # t => reports'[x] = reports[x] /\ HasVerdict(x)' = HasVerdict(x)
  <2>1. <<kind>> \in Seq(ReportKind)
    OBVIOUS
  <2> QED BY <2>1, Reporting
<1>2. PICK r \in Seq(ReportKind), s \in Seq(ReportKind) : r = reports[t] /\ s = reports'[t]
  BY <1>1 DEF IInv, Typed
<1>3. /\ Len(r) \in Nat \ {0} /\ DOMAIN r = 1 .. Len(r)
      /\ Len(s) = Len(r) + 1 /\ DOMAIN s = 1 .. Len(s)
      /\ \A k \in 1 .. Len(r) : s[k] = r[k]
      /\ s[Len(s)] = kind /\ s # << >>
  BY <1>1, <1>2
<1>4. \A k \in 1 .. Len(s) : k \in 1 .. Len(r) \/ k = Len(s)
  BY <1>3
<1>5. 1 \in 1 .. Len(r) /\ Len(s) # 1 /\ Len(s) \in 1 .. Len(s)
  BY <1>3
<1>6. \A k \in 1 .. Len(r) : /\ r[k] \notin Verdicts
                             /\ r[k] = "START_SUCCESS" \/ r[k] = "START_FAILURE" <=> k = 1
  BY <1>2, <1>3 DEF HasVerdict, IInv, OneVerdict
<1>7. HasVerdict(t)' <=> kind \in Verdicts
  BY <1>2, <1>3, <1>4, <1>5, <1>6 DEF HasVerdict
<1>8. \A k \in DOMAIN s : /\ s[k] \in Verdicts => k = Len(s)
                          /\ s[k] = "START_SUCCESS" \/ s[k] = "START_FAILURE" <=> k = 1
  BY <1>3, <1>4, <1>5, <1>6
<1>9. OneVerdict'
  <2>1. ASSUME NEW x \in Telecommand, NEW k \in DOMAIN reports'[x]
        PROVE  /\ reports'[x][k] \in Verdicts => k = Len(reports'[x])
               /\ reports'[x][k] = "START_SUCCESS" \/ reports'[x][k] = "START_FAILURE" <=> k = 1
    <3>1. CASE x = t
      BY <1>2, <1>8, <3>1
    <3>2. CASE x # t
      BY <1>1, <3>2 DEF IInv, OneVerdict
    <3> QED BY <3>1, <3>2
  <2> QED BY <2>1 DEF OneVerdict
<1>10. StartsInOrder'
  <2>1. \A x \in Telecommand : /\ reports'[x] # << >> <=> reports[x] # << >>
                               /\ reports[x] # << >> => reports'[x][1] = reports[x][1]
    <3> TAKE x \in Telecommand
    <3>1. CASE x = t
      BY <1>2, <1>3, <1>5, <3>1
    <3>2. CASE x # t
      BY <1>1, <3>2
    <3> QED BY <3>1, <3>2
  <2> QED BY <2>1 DEF IInv, StartsInOrder
<1> QED BY <1>1, <1>2, <1>3, <1>7, <1>9, <1>10

-----------------------------------------------------------------------------
\* A map from which an entry was erased has the other ones, each of them once
LEMMA Erased ==
  ASSUME NEW map \in Seq(Info), NEW p \in 1 .. Len(map),
         \A i, j \in 1 .. Len(map) : map[i].queue = map[j].queue => i = j
  PROVE  LET next == Erase(map, p) IN
         /\ next \in Seq(Info) /\ Len(next) = Len(map) - 1
         /\ \A i \in 1 .. Len(next) : \E q \in 1 .. Len(map) : q # p /\ next[i] = map[q]
         /\ \A q \in 1 .. Len(map) : q # p => \E i \in 1 .. Len(next) : next[i] = map[q]
         /\ \A i, j \in 1 .. Len(next) : next[i].queue = next[j].queue => i = j
<1> DEFINE moved == [map EXCEPT ![p] = Last(map)]
           next == Erase(map, p)
<1>1. Len(map) \in Nat \ {0} /\ \A i \in 1 .. Len(map) : map[i] \in Info
  OBVIOUS
<1>2. Last(map) = map[Len(map)] /\ Last(map) \in Info
  BY <1>1 DEF Last
<1>3. /\ moved \in Seq(Info) /\ Len(moved) = Len(map)
      /\ \A i \in 1 .. Len(map) : moved[i] = IF i = p THEN map[Len(map)] ELSE map[i]
  BY <1>2, ExceptSeq
<1> HIDE DEF moved
<1>4. next = SubSeq(moved, 1, Len(moved) - 1)
  BY DEF Erase, Front, moved
<1>5. /\ next \in Seq(Info) /\ Len(next) = Len(map) - 1
      /\ \A i \in 1 .. Len(next) : next[i] = IF i = p THEN map[Len(map)] ELSE map[i]
  BY <1>1, <1>3, <1>4
<1> HIDE DEF next
<1>6. ASSUME NEW i \in 1 .. Len(next)
      PROVE  \E q \in 1 .. Len(map) : q # p /\ next[i] = map[q]
  <2>1. CASE i = p
    BY <1>1, <1>5, <2>1
  <2>2. CASE i # p
    BY <1>1, <1>5, <2>2
  <2> QED BY <2>1, <2>2
<1>7. ASSUME NEW q \in 1 .. Len(map), q # p
      PROVE  \E i \in 1 .. Len(next) : next[i] = map[q]
  <2>1. CASE q = Len(map)
    BY <1>1, <1>5, <1>7, <2>1
  <2>2. CASE q # Len(map)
    BY <1>1, <1>5, <1>7, <2>2
  <2> QED BY <2>1, <2>2
<1>8. ASSUME NEW i \in 1 .. Len(next), NEW j \in 1 .. Len(next), next[i].queue = next[j].queue
      PROVE  i = j
  <2> DEFINE q(k) == IF k = p THEN Len(map) ELSE k
  <2>1. /\ q(i) \in 1 .. Len(map) /\ q(j) \in 1 .. Len(map)
        /\ q(i) = q(j) => i = j
    BY <1>1, <1>5
  <2>2. next[i] = map[q(i)] /\ next[j] = map[q(j)]
    BY <1>5
  <2> HIDE DEF q
  <2> QED BY <1>8, <2>1, <2>2
<1> QED BY <1>5, <1>6, <1>7, <1>8 DEF next

\* The FIFO of an entry without its head
LEMMA Shifted ==
  ASSUME NEW f \in Seq(Telecommand), f # << >>
  PROVE  /\ Head(f) \in Telecommand /\ Head(f) = f[1] /\ 1 \in DOMAIN f
         /\ Tail(f) \in Seq(Telecommand) /\ Len(Tail(f)) = Len(f) - 1
         /\ DOMAIN f = 1 .. Len(f) /\ DOMAIN Tail(f) = 1 .. Len(f) - 1 /\ Len(f) \in Nat \ {0}
         /\ \A k \in DOMAIN Tail(f) : k + 1 \in DOMAIN f /\ Tail(f)[k] = f[k + 1]
         /\ \A k \in DOMAIN f : k = 1 \/ (k - 1 \in DOMAIN Tail(f) /\ Tail(f)[k - 1] = f[k])
OBVIOUS

\* The telecommand of an entry is nowhere else
LEMMA NotElsewhere ==
  ASSUME IInv, NEW i \in DOMAIN commandMap, NEW t \in Telecommand, t = Current(i)
  PROVE  /\ t <= sent /\ ~Waits(t) /\ \A j \in DOMAIN commandMap : ~WaitsIn(t, j)
         /\ \A j \in DOMAIN commandMap : j # i => commandMap[j].queue # target[t]
         /\ service.step = "start" /\ service.entry = i => Starts(t)
         /\ ~(service.step = "start" /\ service.entry = i) => Active(t, i)
<1>1. target[t] = commandMap[i].queue
  BY DEF IInv, Entries, ForItsObject
<1>2. \A j \in DOMAIN commandMap : j # i => commandMap[j].queue # target[t]
  BY <1>1 DEF IInv, Entries, OneEntry
<1>3. CASE service.step = "start" /\ service.entry = i
  <2>1. t = service.tc /\ Starts(t) /\ Taken(t)
    BY <1>3 DEF Current, Starts, IInv, Ordered
  <2>2. sent \in Nat /\ Len(requestQueue) \in Nat /\ t \in Nat
    BY DEF IInv, Typed, Telecommand
  <2>3. t <= sent /\ ~Waits(t)
    <3>1. t <= sent
      BY <2>1, <2>2 DEF Taken
    <3>2. ASSUME NEW k \in DOMAIN requestQueue PROVE requestQueue[k] # t
      <4>1. requestQueue[k] = sent - Len(requestQueue) + k /\ k \in Nat /\ k >= 1
        BY DEF IInv, Ordered, Typed
      <4> QED BY <2>1, <2>2, <4>1 DEF Taken
    <3> QED BY <3>1, <3>2 DEF Waits
  <2>4. ASSUME NEW j \in DOMAIN commandMap, WaitsIn(t, j) PROVE FALSE
    <3>1. PICK k \in DOMAIN commandMap[j].fifo : commandMap[j].fifo[k] = t
      BY <2>4 DEF WaitsIn
    <3>2. j = i
      BY <1>2, <3>1 DEF IInv, Entries, ForItsObject
    <3> QED BY <1>3, <2>1, <2>2, <3>1, <3>2 DEF IInv, Ordered
  <2> QED BY <1>2, <1>3, <2>1, <2>3, <2>4
<1>4. CASE ~(service.step = "start" /\ service.entry = i)
  <2>1. Active(t, i)
    BY <1>4 DEF Current, Active
  <2>2. reports[t] # << >>
    BY <2>1 DEF IInv, Placed
  <2>3. ~(t > sent) /\ ~Waits(t) /\ \A j \in DOMAIN commandMap : ~WaitsIn(t, j)
    BY <2>2 DEF IInv, Placed
  <2>4. t <= sent
    BY <2>3 DEF IInv, Typed, Telecommand
  <2> QED BY <1>2, <1>4, <2>1, <2>3, <2>4
<1> QED BY <1>3, <1>4

-----------------------------------------------------------------------------
\* Telecommand t gets its verdict, and no other one a report
Decided(t) ==
  /\ reports' \in [Telecommand -> Seq(ReportKind)]
  /\ reports'[t] # << >> /\ HasVerdict(t)'
  /\ \A x \in Telecommand : x # t => reports'[x] = reports[x] /\ HasVerdict(x)' = HasVerdict(x)
  /\ packets' = packets \ {t}
  /\ UNCHANGED <<target, sent, requestQueue>>

\* What the other parts of the invariant say about map and service
MapTypedNext == /\ commandMap' \in Seq(Info) /\ Len(commandMap') <= NumberOfParallelCommands
                /\ \A i \in DOMAIN commandMap' : Len(commandMap'[i].fifo) <= CommandInfoFifoDepth
                /\ service' \in Service

\* checkAndExecuteFifo erases the entry of a command that has ended
LEMMA EndedErases ==
  ASSUME IInv, NEW i \in DOMAIN commandMap, NEW t \in Telecommand, t = Current(i),
         service.step = "start" => service.entry = i,
         NEW loop \in Loop, NEW iter \in Nat, loop = "timeouts" => iter >= 1,
         commandMap[i].fifo = << >>, commandMap' = Erase(commandMap, i),
         service' = [In(loop) EXCEPT !.iter = iter], Decided(t)
  PROVE  MapTypedNext /\ Entries' /\ Placed' /\ Ordered'
<1>1. /\ commandMap \in Seq(Info) /\ i \in 1 .. Len(commandMap)
      /\ \A j, k \in 1 .. Len(commandMap) : commandMap[j].queue = commandMap[k].queue => j = k
  BY MapTyped DEF IInv, Typed, Entries, OneEntry
<1>2. /\ commandMap' \in Seq(Info) /\ Len(commandMap') = Len(commandMap) - 1
      /\ \A j \in 1 .. Len(commandMap') : \E q \in 1 .. Len(commandMap) :
           q # i /\ commandMap'[j] = commandMap[q]
      /\ \A q \in 1 .. Len(commandMap) : q # i =>
           \E j \in 1 .. Len(commandMap') : commandMap'[j] = commandMap[q]
      /\ \A j, k \in 1 .. Len(commandMap') :
           commandMap'[j].queue = commandMap'[k].queue => j = k
  <2> DEFINE next == Erase(commandMap, i)
  <2>1. /\ next \in Seq(Info) /\ Len(next) = Len(commandMap) - 1
        /\ \A j \in 1 .. Len(next) : \E q \in 1 .. Len(commandMap) :
             q # i /\ next[j] = commandMap[q]
        /\ \A q \in 1 .. Len(commandMap) : q # i =>
             \E j \in 1 .. Len(next) : next[j] = commandMap[q]
        /\ \A j, k \in 1 .. Len(next) : next[j].queue = next[k].queue => j = k
    BY <1>1, Erased
  <2>2. commandMap' = next
    OBVIOUS
  <2> HIDE DEF next
  <2>3. commandMap' \in Seq(Info) /\ Len(commandMap') = Len(commandMap) - 1
    BY <2>1, <2>2
  <2>4. \A j \in 1 .. Len(commandMap') : \E q \in 1 .. Len(commandMap) :
          q # i /\ commandMap'[j] = commandMap[q]
    BY <2>1, <2>2
  <2>5. \A q \in 1 .. Len(commandMap) : q # i =>
          \E j \in 1 .. Len(commandMap') : commandMap'[j] = commandMap[q]
    BY <2>1, <2>2
  <2>6. \A j, k \in 1 .. Len(commandMap') :
          commandMap'[j].queue = commandMap'[k].queue => j = k
    BY <2>1, <2>2
  <2> QED BY <2>3, <2>4, <2>5, <2>6
<1>3. DOMAIN commandMap' = 1 .. Len(commandMap') /\ DOMAIN commandMap = 1 .. Len(commandMap)
  BY <1>1, <1>2, LenProperties
<1>4. /\ service' \in Service /\ service'.step = loop /\ service'.step # "start"
      /\ service'.iter = iter
  BY DEF In, Service, Loop, NoTc
\* the other entries are there before and after
<1>5. \A j \in DOMAIN commandMap' : \E q \in DOMAIN commandMap :
        q # i /\ commandMap'[j] = commandMap[q]
  BY <1>2, <1>3
<1>6. \A q \in DOMAIN commandMap : q # i =>
        \E j \in DOMAIN commandMap' : commandMap'[j] = commandMap[q]
  BY <1>2, <1>3
<1>7. \A q \in DOMAIN commandMap : q # i => Current(q) = commandMap[q].tc
  BY DEF Current
<1>8. MapTypedNext
  <2>1. Len(commandMap') <= NumberOfParallelCommands
    BY <1>1, <1>2, CommandingAssumption DEF IInv, Typed
  <2>2. \A j \in DOMAIN commandMap' : Len(commandMap'[j].fifo) <= CommandInfoFifoDepth
    BY <1>5 DEF IInv, Typed
  <2> QED BY <1>2, <1>4, <2>1, <2>2 DEF MapTypedNext
<1>9. Entries'
  <2>1. OneEntry'
    BY <1>2, <1>3 DEF OneEntry
  <2>2. ASSUME NEW j \in DOMAIN commandMap'
        PROVE  /\ Current(j)' \in Telecommand /\ target[Current(j)'] = commandMap'[j].queue
               /\ \A k \in DOMAIN commandMap'[j].fifo :
                    target[commandMap'[j].fifo[k]] = commandMap'[j].queue
    <3>1. PICK q \in DOMAIN commandMap : q # i /\ commandMap'[j] = commandMap[q]
      BY <1>5
    <3>2. Current(j)' = Current(q)
      BY <1>4, <1>7, <3>1 DEF Current
    <3> QED BY <3>1, <3>2 DEF IInv, Entries, ForItsObject
  <2>3. ForItsObject'
    BY <2>2 DEF ForItsObject, Decided
  <2>4. Position'
    BY <1>4 DEF Position, Loop
  <2> QED BY <2>1, <2>3, <2>4 DEF Entries
<1>10. ASSUME NEW x \in Telecommand
       PROVE  /\ reports'[x] = << >> <=> \/ x > sent \/ Waits(x)' \/ Starts(x)'
                                         \/ \E j \in DOMAIN commandMap' : WaitsIn(x, j)'
              /\ reports'[x] # << >> /\ ~HasVerdict(x)'
                   <=> \E j \in DOMAIN commandMap' : Active(x, j)'
              /\ x \in packets' <=> x <= sent /\ reports'[x] = << >>
  <2>1. ~Starts(x)' /\ (Waits(x)' <=> Waits(x))
    BY <1>4 DEF Starts, Waits, Decided
  <2>2. (\E j \in DOMAIN commandMap' : WaitsIn(x, j)')
        <=> \E q \in DOMAIN commandMap : WaitsIn(x, q)
    <3>1. ~WaitsIn(x, i)
      BY DEF WaitsIn
    <3>2. \A q \in DOMAIN commandMap, j \in DOMAIN commandMap' :
            commandMap'[j] = commandMap[q] => (WaitsIn(x, j)' <=> WaitsIn(x, q))
      BY DEF WaitsIn
    <3> QED BY <1>5, <1>6, <3>1, <3>2
  <2>3. (\E j \in DOMAIN commandMap' : Active(x, j)')
        <=> \E q \in DOMAIN commandMap : q # i /\ Active(x, q)
    <3>1. \A q \in DOMAIN commandMap, j \in DOMAIN commandMap' :
            q # i /\ commandMap'[j] = commandMap[q] => (Active(x, j)' <=> Active(x, q))
      BY <1>4 DEF Active
    <3> QED BY <1>5, <1>6, <3>1
  <2>4. CASE x = t
    <3>1. \A q \in DOMAIN commandMap : q # i => ~Active(x, q)
      BY <1>7, <2>4 DEF Active, IInv, Entries, OneEntry, ForItsObject
    <3>2. x <= sent /\ ~Waits(x) /\ \A q \in DOMAIN commandMap : ~WaitsIn(x, q)
      BY <2>4, NotElsewhere
    <3>3. ~(x > sent)
      BY <3>2 DEF IInv, Typed, Telecommand
    <3> QED BY <2>1, <2>2, <2>3, <2>4, <3>1, <3>2, <3>3 DEF Decided
  <2>5. CASE x # t
    <3>1. ~Active(x, i) /\ ~Starts(x)
      BY <2>5 DEF Active, Starts, Current
    <3> QED BY <2>1, <2>2, <2>3, <2>5, <3>1 DEF Decided, IInv, Placed
  <2> QED BY <2>4, <2>5
<1>11. Placed'
  BY <1>10 DEF Placed, Decided
<1>12. Ordered'
  <2>1. ASSUME NEW j \in DOMAIN commandMap'
        PROVE  \A k \in DOMAIN commandMap'[j].fifo :
                 /\ Taken(commandMap'[j].fifo[k])
                 /\ \A l \in 1 .. k - 1 : commandMap'[j].fifo[l] < commandMap'[j].fifo[k]
    BY <1>5 DEF IInv, Ordered
  <2> QED BY <1>4, <2>1 DEF Ordered, IInv, Decided, Taken
<1> QED BY <1>8, <1>9, <1>11, <1>12

\* or starts the next command that waits in it
LEMMA EndedStarts ==
  ASSUME IInv, NEW i \in DOMAIN commandMap, NEW t \in Telecommand, t = Current(i),
         service.step = "start" => service.entry = i,
         NEW loop \in Loop, NEW iter \in Nat, loop = "timeouts" => iter >= 1,
         commandMap[i].fifo # << >>, commandMap' = [commandMap EXCEPT ![i].fifo = Tail(@)],
         service' = Starting(Head(commandMap[i].fifo), i, loop, iter), Decided(t)
  PROVE  MapTypedNext /\ Entries' /\ Placed' /\ Ordered'
<1> DEFINE f == commandMap[i].fifo
           h == Head(f)
<1>1. /\ commandMap \in Seq(Info) /\ DOMAIN commandMap = 1 .. Len(commandMap)
      /\ i \in 1 .. Len(commandMap) /\ commandMap[i] \in Info /\ f \in Seq(Telecommand)
      /\ i \in Nat
  BY MapTyped DEF IInv, Typed
<1>2. /\ h \in Telecommand /\ h = f[1] /\ 1 \in DOMAIN f
      /\ Tail(f) \in Seq(Telecommand) /\ Len(Tail(f)) = Len(f) - 1
      /\ DOMAIN f = 1 .. Len(f) /\ DOMAIN Tail(f) = 1 .. Len(f) - 1 /\ Len(f) \in Nat \ {0}
      /\ \A k \in DOMAIN Tail(f) : k + 1 \in DOMAIN f /\ Tail(f)[k] = f[k + 1]
      /\ \A k \in DOMAIN f : k = 1 \/ (k - 1 \in DOMAIN Tail(f) /\ Tail(f)[k - 1] = f[k])
  BY <1>1, Shifted
<1> HIDE DEF f, h
<1>3. PICK new \in Info : /\ new = [commandMap[i] EXCEPT !.fifo = Tail(f)]
                          /\ new.fifo = Tail(f) /\ new.queue = commandMap[i].queue
                          /\ new.tc = commandMap[i].tc
  <2>1. ASSUME NEW e \in Info, NEW g \in Seq(Telecommand)
        PROVE  /\ [e EXCEPT !.fifo = g] \in Info /\ [e EXCEPT !.fifo = g].fifo = g
               /\ [e EXCEPT !.fifo = g].queue = e.queue /\ [e EXCEPT !.fifo = g].tc = e.tc
    BY DEF Info
  <2>2. PICK e \in Info : e = commandMap[i]
    BY <1>1
  <2>3. PICK g \in Seq(Telecommand) : g = Tail(f)
    BY <1>2
  <2>4. /\ [e EXCEPT !.fifo = g] \in Info /\ [e EXCEPT !.fifo = g].fifo = g
        /\ [e EXCEPT !.fifo = g].queue = e.queue /\ [e EXCEPT !.fifo = g].tc = e.tc
    BY <2>1
  <2> QED BY <2>2, <2>3, <2>4
<1>4. commandMap' = [commandMap EXCEPT ![i] = new]
  BY <1>1, <1>3 DEF f
<1>5. /\ commandMap' \in Seq(Info) /\ Len(commandMap') = Len(commandMap)
      /\ DOMAIN commandMap' = DOMAIN commandMap /\ commandMap'[i] = new
      /\ \A j \in DOMAIN commandMap : j # i => commandMap'[j] = commandMap[j]
      /\ \A j \in DOMAIN commandMap : commandMap'[j].queue = commandMap[j].queue
  <2>1. /\ commandMap' \in Seq(Info) /\ Len(commandMap') = Len(commandMap)
        /\ \A j \in 1 .. Len(commandMap) : commandMap'[j] = IF j = i THEN new ELSE commandMap[j]
    <3> DEFINE next == [commandMap EXCEPT ![i] = new]
    <3>1. /\ next \in Seq(Info) /\ Len(next) = Len(commandMap)
          /\ \A j \in 1 .. Len(commandMap) : next[j] = IF j = i THEN new ELSE commandMap[j]
      BY <1>1, ExceptSeq
    <3>2. commandMap' = next
      BY <1>4
    <3> HIDE DEF next
    <3> QED BY <3>1, <3>2
  <2>2. DOMAIN commandMap' = DOMAIN commandMap
    BY <1>1, <2>1, LenProperties
  <2> QED BY <1>1, <1>3, <2>1, <2>2
<1>6. /\ service' \in Service /\ service'.step = "start" /\ service'.entry = i
      /\ service'.tc = h /\ service'.back = loop /\ service'.iter = iter
  BY <1>1, <1>2 DEF Starting, Service, Loop, h, f
<1>7. /\ \A k \in DOMAIN f : target[f[k]] = commandMap[i].queue /\ Taken(f[k])
      /\ \A k \in DOMAIN f : \A l \in 1 .. k - 1 : f[l] < f[k]
      /\ \A k \in DOMAIN f : f[k] \in Telecommand
  BY MapTyped DEF f, IInv, Entries, ForItsObject, Ordered
<1>8. \A k \in DOMAIN Tail(f) : h < Tail(f)[k]
  BY <1>2, <1>7
<1>9. \A j \in DOMAIN commandMap :
        j # i => Current(j) = commandMap[j].tc /\ Current(j)' = commandMap[j].tc
  BY <1>5, <1>6 DEF Current
<1>10. Current(i)' = h
  BY <1>6 DEF Current
<1>11. UNCHANGED <<target, sent, requestQueue>>
  BY DEF Decided
<1>12. MapTypedNext
  <2>1. \A j \in DOMAIN commandMap' : Len(commandMap'[j].fifo) <= CommandInfoFifoDepth
    <3> TAKE j \in DOMAIN commandMap'
    <3>1. CASE j = i
      <4>1. Len(f) <= CommandInfoFifoDepth
        BY DEF IInv, Typed, f
      <4>2. Len(commandMap'[j].fifo) = Len(f) - 1
        BY <1>2, <1>3, <1>5, <3>1
      <4>3. Len(f) \in Nat /\ CommandInfoFifoDepth \in Nat
        BY <1>2, CommandingAssumption
      <4> QED BY <4>1, <4>2, <4>3
    <3>2. CASE j # i
      BY <1>5, <3>2 DEF IInv, Typed
    <3> QED BY <3>1, <3>2
  <2> QED BY <1>5, <1>6, <2>1 DEF MapTypedNext, IInv, Typed
<1>13. Entries'
  <2>1. OneEntry'
    BY <1>5 DEF OneEntry, IInv, Entries
  <2>2. ASSUME NEW j \in DOMAIN commandMap'
        PROVE  /\ Current(j)' \in Telecommand /\ target[Current(j)'] = commandMap'[j].queue
               /\ \A k \in DOMAIN commandMap'[j].fifo :
                    target[commandMap'[j].fifo[k]] = commandMap'[j].queue
    <3>1. CASE j = i
      <4>1. target[h] = commandMap[i].queue
        BY <1>2, <1>7
      <4>2. \A k \in DOMAIN Tail(f) : target[Tail(f)[k]] = commandMap[i].queue
        BY <1>2, <1>7
      <4>3. commandMap'[j].fifo = Tail(f) /\ commandMap'[j].queue = commandMap[i].queue
        BY <1>3, <1>5, <3>1
      <4> QED BY <1>2, <1>10, <3>1, <4>1, <4>2, <4>3
    <3>2. CASE j # i
      BY <1>5, <1>9, <3>2 DEF IInv, Entries, ForItsObject
    <3> QED BY <3>1, <3>2
  <2>3. ForItsObject'
    BY <1>11, <2>2 DEF ForItsObject
  <2>4. Position'
    BY <1>5, <1>6 DEF Position, Loop
  <2> QED BY <2>1, <2>3, <2>4 DEF Entries
<1>14. reports[h] = << >> /\ h # t
  <2>1. WaitsIn(h, i)
    BY <1>2 DEF WaitsIn, f
  <2> QED BY <1>2, <2>1, NotElsewhere DEF IInv, Placed
<1>15. ASSUME NEW x \in Telecommand
       PROVE  /\ reports'[x] = << >> <=> \/ x > sent \/ Waits(x)' \/ Starts(x)'
                                         \/ \E j \in DOMAIN commandMap' : WaitsIn(x, j)'
              /\ reports'[x] # << >> /\ ~HasVerdict(x)'
                   <=> \E j \in DOMAIN commandMap' : Active(x, j)'
              /\ x \in packets' <=> x <= sent /\ reports'[x] = << >>
  <2>1. (Starts(x)' <=> x = h) /\ (Waits(x)' <=> Waits(x))
    BY <1>6, <1>11 DEF Starts, Waits
  <2>2. \A j \in DOMAIN commandMap : j # i =>
          /\ WaitsIn(x, j)' <=> WaitsIn(x, j)
          /\ Active(x, j)' <=> Active(x, j)
    BY <1>5, <1>6 DEF WaitsIn, Active
  <2>3. x # h => (WaitsIn(x, i)' <=> WaitsIn(x, i))
    <3>1. WaitsIn(x, i)' <=> \E k \in DOMAIN Tail(f) : Tail(f)[k] = x
      <4>1. commandMap'[i].fifo = Tail(f)
        BY <1>3, <1>5
      <4> QED BY <4>1 DEF WaitsIn
    <3>2. WaitsIn(x, i) <=> \E k \in DOMAIN f : f[k] = x
      BY DEF WaitsIn, f
    <3> QED BY <1>2, <3>1, <3>2
  <2>4. ~Active(x, i)'
    BY <1>6 DEF Active
  <2>5. CASE x = h
    <3>1. reports'[x] = << >> /\ (x \in packets' <=> x <= sent)
      BY <1>14, <2>5 DEF Decided, IInv, Placed
    <3>2. \A j \in DOMAIN commandMap : ~Active(x, j)
      BY <1>14, <2>5 DEF IInv, Placed
    <3> QED BY <1>5, <2>1, <2>2, <2>4, <2>5, <3>1, <3>2
  <2>6. CASE x = t
    <3>1. \A q \in DOMAIN commandMap : q # i => ~Active(x, q)
      BY <1>9, <2>6 DEF Active, IInv, Entries, OneEntry, ForItsObject
    <3>2. x <= sent /\ ~Waits(x) /\ \A q \in DOMAIN commandMap : ~WaitsIn(x, q)
      BY <2>6, NotElsewhere
    <3>3. ~(x > sent)
      BY <3>2 DEF IInv, Typed, Telecommand
    <3>4. x # h /\ reports'[x] # << >> /\ HasVerdict(x)' /\ x \notin packets'
      BY <1>14, <2>6 DEF Decided
    <3> QED BY <1>5, <2>1, <2>2, <2>3, <2>4, <3>1, <3>2, <3>3, <3>4
  <2>7. CASE x # t /\ x # h
    <3>1. ~Active(x, i) /\ ~Starts(x)
      BY <2>7 DEF Active, Starts, Current
    <3>2. (\E j \in DOMAIN commandMap' : WaitsIn(x, j)')
             <=> \E j \in DOMAIN commandMap : WaitsIn(x, j)
      BY <1>5, <2>2, <2>3, <2>7
    <3>3. (\E j \in DOMAIN commandMap' : Active(x, j)')
             <=> \E j \in DOMAIN commandMap : Active(x, j)
      BY <1>5, <2>2, <2>4, <3>1
    <3>4. /\ reports'[x] = reports[x] /\ HasVerdict(x)' = HasVerdict(x)
          /\ x \in packets' <=> x \in packets
      BY <2>7 DEF Decided
    <3> QED BY <2>1, <2>7, <3>1, <3>2, <3>3, <3>4 DEF IInv, Placed
  <2> QED BY <2>5, <2>6, <2>7
<1>16. Placed'
  BY <1>11, <1>15 DEF Placed
<1>17. Ordered'
  <2>1. ASSUME NEW j \in DOMAIN commandMap'
        PROVE  \A k \in DOMAIN commandMap'[j].fifo :
                 /\ Taken(commandMap'[j].fifo[k])
                 /\ \A l \in 1 .. k - 1 : commandMap'[j].fifo[l] < commandMap'[j].fifo[k]
    <3>1. CASE j = i
      <4>1. \A k \in DOMAIN Tail(f) : Taken(Tail(f)[k])
        BY <1>2, <1>7
      <4>2. ASSUME NEW k \in DOMAIN Tail(f), NEW l \in 1 .. k - 1 PROVE Tail(f)[l] < Tail(f)[k]
        <5>1. l \in DOMAIN Tail(f) /\ l + 1 \in 1 .. (k + 1) - 1
          BY <1>2
        <5> QED BY <1>2, <1>7, <5>1
      <4> QED BY <1>3, <1>5, <3>1, <4>1, <4>2
    <3>2. CASE j # i
      BY <1>5, <3>2 DEF IInv, Ordered
    <3> QED BY <3>1, <3>2
  <2>2. Taken(h)
    BY <1>2, <1>7
  <2>3. \A k \in DOMAIN commandMap'[i].fifo : h < commandMap'[i].fifo[k]
    BY <1>3, <1>5, <1>8
  <2>4. /\ Len(requestQueue) <= sent
        /\ \A k \in DOMAIN requestQueue : requestQueue[k] = sent - Len(requestQueue) + k
    BY DEF IInv, Ordered
  <2>5. \A x : Taken(x)' <=> Taken(x)
    BY <1>11 DEF Taken
  <2>6. service'.step = "start" =>
          /\ Taken(service'.tc)
          /\ \A k \in DOMAIN commandMap'[service'.entry].fifo :
               service'.tc < commandMap'[service'.entry].fifo[k]
    BY <1>6, <2>2, <2>3
  <2> QED BY <1>11, <2>1, <2>4, <2>5, <2>6 DEF Ordered
<1> QED BY <1>12, <1>13, <1>16, <1>17

\* checkAndExecuteFifo after a command that has ended
LEMMA Ended ==
  ASSUME IInv, NEW i \in DOMAIN commandMap, NEW t \in Telecommand, t = Current(i),
         service.step = "start" => service.entry = i,
         NEW loop \in Loop, NEW erased \in Nat, NEW kept \in Nat,
         loop = "timeouts" => erased >= 1 /\ kept >= 1,
         CheckAndExecuteFifo(commandMap, i, loop, erased, kept), Decided(t)
  PROVE  MapTypedNext /\ Entries' /\ Placed' /\ Ordered'
<1>1. CASE commandMap[i].fifo = << >>
  <2>1. commandMap' = Erase(commandMap, i) /\ service' = [In(loop) EXCEPT !.iter = erased]
    BY <1>1 DEF CheckAndExecuteFifo
  <2> QED BY <1>1, <2>1, EndedErases
<1>2. CASE commandMap[i].fifo # << >>
  <2>1. /\ commandMap' = [commandMap EXCEPT ![i].fifo = Tail(@)]
        /\ service' = Starting(Head(commandMap[i].fifo), i, loop, kept)
    BY <1>2 DEF CheckAndExecuteFifo
  <2> QED BY <1>2, <2>1, EndedStarts
<1> QED BY <1>1, <1>2

\* Telecommands stay where they are if no entry gets or loses one, and none of
\* them its first report or its verdict
LEMMA Unmoved ==
  ASSUME IInv, UNCHANGED <<target, sent, requestQueue, packets>>,
         DOMAIN commandMap' = DOMAIN commandMap,
         \A i \in DOMAIN commandMap : /\ commandMap'[i].queue = commandMap[i].queue
                                      /\ commandMap'[i].tc = commandMap[i].tc
                                      /\ commandMap'[i].fifo = commandMap[i].fifo,
         service' = service \/ (service.step # "start" /\ service'.step # "start"),
         service'.step = "timeouts" => service'.iter >= 1,
         \A x \in Telecommand : /\ reports'[x] = << >> <=> reports[x] = << >>
                                /\ HasVerdict(x)' <=> HasVerdict(x)
  PROVE  Entries' /\ Placed' /\ Ordered'
<1>1. \A i \in DOMAIN commandMap : Current(i)' = Current(i)
  BY DEF Current
<1>2. (service'.step = "start" <=> service.step = "start")
      /\ (service.step = "start" => service' = service)
  OBVIOUS
<1>3. Entries'
  <2>1. OneEntry'
    BY DEF OneEntry, IInv, Entries
  <2>2. ForItsObject'
    BY <1>1 DEF ForItsObject, IInv, Entries
  <2>3. Position'
    BY <1>2 DEF Position, IInv, Entries
  <2> QED BY <2>1, <2>2, <2>3 DEF Entries
<1>4. \A x \in Telecommand : /\ Waits(x)' <=> Waits(x)
                             /\ Starts(x)' <=> Starts(x)
                             /\ \A i \in DOMAIN commandMap : /\ WaitsIn(x, i)' <=> WaitsIn(x, i)
                                                             /\ Active(x, i)' <=> Active(x, i)
  BY <1>2 DEF Waits, Starts, WaitsIn, Active
<1>5. Placed'
  BY <1>4 DEF Placed, IInv
<1>6. Ordered'
  <2>1. \A tc : Taken(tc)' <=> Taken(tc)
    BY DEF Taken
  <2> QED BY <1>2, <2>1 DEF Ordered, IInv, Entries, Position
<1> QED BY <1>3, <1>5, <1>6

\* What the objects work on stays started
LEMMA ObjectsKept ==
  ASSUME IInv, UNCHANGED <<target, objectQueue, action>>,
         \/ commandQueue' = commandQueue
         \/ commandQueue # << >> /\ commandQueue' = Tail(commandQueue),
         \A x \in Telecommand : reports[x] # << >> => reports'[x] # << >>
  PROVE  /\ commandQueue' \in Seq(Message) /\ Len(commandQueue') <= CommandQueueDepth
         /\ Objects'
<1>1. /\ commandQueue \in Seq(Message) /\ Len(commandQueue) <= CommandQueueDepth
      /\ objectQueue \in [Object -> Seq(Telecommand)] /\ CommandQueueDepth \in Nat
  BY CommandingAssumption DEF IInv, Typed
<1>2. /\ commandQueue' \in Seq(Message) /\ Len(commandQueue') <= CommandQueueDepth
      /\ \A k \in DOMAIN commandQueue' : \E l \in DOMAIN commandQueue :
           commandQueue'[k] = commandQueue[l]
  <2>1. CASE commandQueue' = commandQueue
    BY <1>1, <2>1
  <2>2. CASE commandQueue # << >> /\ commandQueue' = Tail(commandQueue)
    BY <1>1, <2>2
  <2> QED BY <2>1, <2>2
<1>4. \A k \in DOMAIN commandQueue : commandQueue[k].for \in Telecommand
  <2>1. \A k \in DOMAIN commandQueue : commandQueue[k] \in Message
    BY <1>1, ElementOfSeq, LenProperties
  <2> QED BY <2>1 DEF Message
<1>5. \A o \in Object : \A k \in DOMAIN objectQueue[o] : objectQueue[o][k] \in Telecommand
  BY <1>1, ElementOfSeq, LenProperties
<1>6. \A k \in DOMAIN commandQueue' :
        target'[commandQueue'[k].for] = commandQueue'[k].sender
          /\ reports'[commandQueue'[k].for] # << >>
  <2> TAKE k \in DOMAIN commandQueue'
  <2>1. PICK l \in DOMAIN commandQueue : commandQueue'[k] = commandQueue[l]
    BY <1>2
  <2>2. PICK x \in Telecommand : x = commandQueue[l].for
    BY <1>4
  <2>3. target[x] = commandQueue[l].sender /\ reports[x] # << >>
    BY <2>2 DEF IInv, Objects, Told
  <2> QED BY <2>1, <2>2, <2>3
<1>7. \A o \in Object : \A k \in DOMAIN objectQueue'[o] :
        target'[objectQueue'[o][k]] = o /\ reports'[objectQueue'[o][k]] # << >>
  BY <1>5 DEF IInv, Objects, Told
<1>8. \A x \in Telecommand :
        action'[x] \in {"executing", "underway"} => target'[x] \in Object /\ reports'[x] # << >>
  BY DEF IInv, Objects
<1>9. Objects'
  BY <1>6, <1>7, <1>8 DEF Objects, Told
<1> QED BY <1>2, <1>9

-----------------------------------------------------------------------------
(***************************************************************************)
(* The service.                                                            *)
(***************************************************************************)
\* The entry of a reply, or of a timeout, has an active command
LEMMA ActiveEntry ==
  ASSUME IInv, service.step # "start", NEW i \in DOMAIN commandMap
  PROVE  /\ commandMap[i].tc \in Telecommand /\ commandMap[i].tc = Current(i)
         /\ reports[commandMap[i].tc] # << >> /\ ~HasVerdict(commandMap[i].tc)
         /\ commandMap[i].tc \notin packets
<1>1. commandMap[i].tc = Current(i) /\ Current(i) \in Telecommand
  BY DEF Current, IInv, Entries, ForItsObject
<1>2. Active(commandMap[i].tc, i)
  BY DEF Active
<1> QED BY <1>1, <1>2 DEF IInv, Placed

\* Its telecommand gets a verdict
LEMMA ActiveEnds ==
  ASSUME IInv, service.step # "start", NEW i \in DOMAIN commandMap,
         NEW kind \in Verdicts \ {"START_FAILURE"}, Report(commandMap[i].tc, <<kind>>),
         NEW loop \in Loop, NEW erased \in Nat, NEW kept \in Nat,
         loop = "timeouts" => erased >= 1 /\ kept >= 1,
         CheckAndExecuteFifo(commandMap, i, loop, erased, kept),
         UNCHANGED <<target, sent, requestQueue, packets, objectQueue, action>>,
         commandQueue' = commandQueue \/ (commandQueue # << >> /\ commandQueue' = Tail(commandQueue))
  PROVE  IInv'
<1>1. PICK t \in Telecommand : /\ t = commandMap[i].tc /\ t = Current(i)
                               /\ reports[t] # << >> /\ ~HasVerdict(t) /\ t \notin packets
  BY ActiveEntry
<1>2. kind \in ReportKind \ {"START_SUCCESS", "START_FAILURE"} /\ Report(t, <<kind>>)
  BY <1>1 DEF ReportKind, Verdicts
<1>3. /\ reports' \in [Telecommand -> Seq(ReportKind)]
      /\ reports'[t] # << >> /\ HasVerdict(t)'
      /\ \A x \in Telecommand : x # t => reports'[x] = reports[x] /\ HasVerdict(x)' = HasVerdict(x)
      /\ OneVerdict' /\ StartsInOrder'
  BY <1>1, <1>2, LaterReport
<1>4. Decided(t)
  BY <1>1, <1>3 DEF Decided
<1>5. MapTypedNext /\ Entries' /\ Placed' /\ Ordered'
  BY <1>1, <1>4, Ended
<1>6. /\ commandQueue' \in Seq(Message) /\ Len(commandQueue') <= CommandQueueDepth
      /\ Objects'
  BY <1>3, ObjectsKept
<1>7. Typed'
  BY <1>3, <1>5, <1>6 DEF MapTypedNext, IInv, Typed
<1> QED BY <1>3, <1>5, <1>6, <1>7 DEF IInv

LEMMA HandleCommandMessageStep ==
  ASSUME IInv, HandleCommandMessage
  PROVE  IInv'
<1> DEFINE reply == Head(commandQueue)
           i == Find(reply.sender)
<1>1. /\ service.step = "commands" /\ service.step # "start"
      /\ commandQueue # << >> /\ commandQueue' = Tail(commandQueue)
      /\ UNCHANGED <<target, sent, packets, requestQueue, objectQueue, action>>
  BY DEF HandleCommandMessage, ground
<1>2. CASE i = 0
  <2>1. UNCHANGED <<commandMap, service, reports>>
    BY <1>2 DEF HandleCommandMessage
  <2>2. \A x \in Telecommand : HasVerdict(x)' <=> HasVerdict(x)
    BY <2>1 DEF HasVerdict
  <2>3. Entries' /\ Placed' /\ Ordered'
    BY <1>1, <2>1, <2>2, Unmoved
  <2>4. /\ commandQueue' \in Seq(Message) /\ Len(commandQueue') <= CommandQueueDepth
        /\ Objects'
    BY <1>1, <2>1, ObjectsKept
  <2>5. Typed' /\ OneVerdict' /\ StartsInOrder'
    BY <1>1, <2>1, <2>4 DEF IInv, Typed, OneVerdict, StartsInOrder
  <2> QED BY <2>3, <2>4, <2>5 DEF IInv
<1>3. CASE i # 0
  <2>1. i \in DOMAIN commandMap
    BY <1>3, FindEntry
  <2>2. reply \in Message
    BY <1>1, HeadTailProperties DEF IInv, Typed
  <2>3. PICK report \in ReportOf(reply.kind) :
          /\ Report(commandMap[i].tc, <<report>>)
          /\ IF EndsCommand(report) THEN CheckAndExecuteFifo(commandMap, i, "commands", 0, 0)
             ELSE UNCHANGED <<commandMap, service>>
    BY <1>3 DEF HandleCommandMessage
  <2>4. report \in (Verdicts \ {"START_FAILURE"}) \cup {"PROGRESS_SUCCESS"}
    BY <2>2, <2>3 DEF Message, ReportKind, ReplyKind, ReportOf, Verdicts
  <2> HIDE DEF i, reply
  <2>5. CASE report # "PROGRESS_SUCCESS"
    <3>1. CheckAndExecuteFifo(commandMap, i, "commands", 0, 0)
      BY <2>3, <2>5 DEF EndsCommand
    <3> QED BY <1>1, <2>1, <2>3, <2>4, <2>5, <3>1, ActiveEnds DEF Loop
  <2>6. CASE report = "PROGRESS_SUCCESS"
    <3>1. UNCHANGED <<commandMap, service>>
      BY <2>3, <2>6 DEF EndsCommand
    <3>2. PICK t \in Telecommand : /\ t = commandMap[i].tc
                                   /\ reports[t] # << >> /\ ~HasVerdict(t)
      BY <1>1, <2>1, ActiveEntry
    <3>3. /\ report \in ReportKind \ {"START_SUCCESS", "START_FAILURE"} /\ report \notin Verdicts
          /\ Report(t, <<report>>)
      BY <2>3, <2>6, <3>2 DEF ReportKind, Verdicts
    <3>4. /\ reports' \in [Telecommand -> Seq(ReportKind)]
          /\ reports'[t] # << >> /\ ~HasVerdict(t)'
          /\ \A x \in Telecommand : x # t => reports'[x] = reports[x] /\ HasVerdict(x)' = HasVerdict(x)
          /\ OneVerdict' /\ StartsInOrder'
      BY <1>1, <3>2, <3>3, LaterReport
    <3>5. \A x \in Telecommand : /\ reports'[x] = << >> <=> reports[x] = << >>
                                 /\ HasVerdict(x)' <=> HasVerdict(x)
      BY <3>2, <3>4
    <3>6. Entries' /\ Placed' /\ Ordered'
      BY <1>1, <3>1, <3>5, Unmoved
    <3>7. /\ commandQueue' \in Seq(Message) /\ Len(commandQueue') <= CommandQueueDepth
          /\ Objects'
      BY <1>1, <3>5, ObjectsKept
    <3>8. Typed'
      BY <1>1, <3>1, <3>4, <3>7 DEF IInv, Typed
    <3> QED BY <3>4, <3>6, <3>7, <3>8 DEF IInv
  <2> QED BY <2>5, <2>6
<1> QED BY <1>2, <1>3

\* Only the loop changes
LEMMA LoopEnds ==
  ASSUME IInv, service.step # "start", NEW loop \in Loop, NEW iter \in Nat,
         loop = "timeouts" => iter >= 1, service' = [In(loop) EXCEPT !.iter = iter],
         UNCHANGED <<target, sent, packets, requestQueue, commandQueue, commandMap, objectQueue,
                     action, reports>>
  PROVE  IInv'
<1>1. service' \in Service /\ service'.step = loop /\ service'.step # "start" /\ service'.iter = iter
  BY DEF In, Service, Loop, NoTc
<1>2. \A x \in Telecommand : HasVerdict(x)' <=> HasVerdict(x)
  BY DEF HasVerdict
<1>3. Entries' /\ Placed' /\ Ordered'
  BY <1>1, <1>2, Unmoved
<1>4. Typed' /\ OneVerdict' /\ StartsInOrder'
  BY <1>1 DEF IInv, Typed, OneVerdict, StartsInOrder
<1>5. Objects'
  BY ObjectsKept
<1> QED BY <1>3, <1>4, <1>5 DEF IInv

LEMMA CommandQueueEmptyStep ==
  ASSUME IInv, CommandQueueEmpty
  PROVE  IInv'
<1>1. service' = [In("requests") EXCEPT !.iter = 0] /\ service.step # "start"
  BY DEF CommandQueueEmpty, In
<1> QED BY <1>1, LoopEnds DEF CommandQueueEmpty, ground, Loop

LEMMA TimeoutsCheckedStep ==
  ASSUME IInv, TimeoutsChecked
  PROVE  IInv'
<1>1. service' = [In("commands") EXCEPT !.iter = 0] /\ service.step # "start"
  BY DEF TimeoutsChecked, In
<1> QED BY <1>1, LoopEnds DEF TimeoutsChecked, ground, Loop

\* Time passes: the commands get older
LEMMA RequestQueueEmptyStep ==
  ASSUME IInv, RequestQueueEmpty
  PROVE  IInv'
<1>1. /\ service.step = "requests" /\ service' = [In("timeouts") EXCEPT !.iter = 1]
      /\ UNCHANGED <<target, sent, packets, requestQueue, commandQueue, objectQueue, action, reports>>
  BY DEF RequestQueueEmpty, ground
<1>2. PICK passed \in 1 .. TimeoutSeconds + 1 :
        commandMap' = [i \in DOMAIN commandMap |-> [commandMap[i] EXCEPT !.age = Older(@, passed)]]
  BY DEF RequestQueueEmpty
<1>3. service' \in Service /\ service'.step = "timeouts" /\ service'.iter = 1
  BY <1>1 DEF In, Service, Loop, NoTc
<1>4. \A a \in Age \cup {Unset} : Older(a, passed) \in Age
  BY CommandingAssumption DEF Older, Age, Unset
<1>5. \A e \in Info : /\ [e EXCEPT !.age = Older(@, passed)] \in Info
                      /\ [e EXCEPT !.age = Older(@, passed)].queue = e.queue
                      /\ [e EXCEPT !.age = Older(@, passed)].tc = e.tc
                      /\ [e EXCEPT !.age = Older(@, passed)].fifo = e.fifo
  BY <1>4 DEF Info
<1>6. /\ DOMAIN commandMap' = DOMAIN commandMap
      /\ \A i \in DOMAIN commandMap : /\ commandMap'[i] \in Info
                                      /\ commandMap'[i].queue = commandMap[i].queue
                                      /\ commandMap'[i].tc = commandMap[i].tc
                                      /\ commandMap'[i].fifo = commandMap[i].fifo
  <2>1. DOMAIN commandMap' = DOMAIN commandMap
    BY <1>2
  <2>2. ASSUME NEW i \in DOMAIN commandMap
        PROVE  /\ commandMap'[i] \in Info
               /\ commandMap'[i].queue = commandMap[i].queue
               /\ commandMap'[i].tc = commandMap[i].tc
               /\ commandMap'[i].fifo = commandMap[i].fifo
    <3>1. PICK e \in Info : e = commandMap[i]
      BY MapTyped
    <3>2. commandMap'[i] = [e EXCEPT !.age = Older(@, passed)]
      BY <1>2, <3>1
    <3> QED BY <1>5, <3>1, <3>2
  <2> QED BY <2>1, <2>2
<1>7. commandMap' \in Seq(Info) /\ Len(commandMap') = Len(commandMap)
  <2>1. DOMAIN commandMap = 1 .. Len(commandMap) /\ Len(commandMap) \in Nat
    BY MapTyped
  <2>2. commandMap' = [i \in 1 .. Len(commandMap) |-> commandMap'[i]]
    BY <1>2, <2>1
  <2>3. commandMap' \in Seq(Info)
    BY <1>6, <2>1, <2>2
  <2> QED BY <1>6, <2>1, <2>3, LenProperties
<1>8. \A x \in Telecommand : HasVerdict(x)' <=> HasVerdict(x)
  BY <1>1 DEF HasVerdict
<1>9. Entries' /\ Placed' /\ Ordered'
  BY <1>1, <1>3, <1>6, <1>8, Unmoved
<1>10. Typed'
  BY <1>1, <1>3, <1>6, <1>7 DEF IInv, Typed
<1>11. OneVerdict' /\ StartsInOrder'
  BY <1>1 DEF IInv, OneVerdict, StartsInOrder
<1>12. Objects'
  BY <1>1, ObjectsKept
<1> QED BY <1>9, <1>10, <1>11, <1>12 DEF IInv

LEMMA CheckTimeoutStep ==
  ASSUME IInv, CheckTimeout
  PROVE  IInv'
<1> DEFINE i == service.iter
<1>1. /\ service.step = "timeouts" /\ service.step # "start" /\ i < End
      /\ UNCHANGED <<target, sent, packets, requestQueue, commandQueue, objectQueue, action>>
  BY DEF CheckTimeout, ground
<1>2. service \in Service /\ i \in Nat /\ i + 1 \in Nat /\ i >= 1 /\ i + 1 >= 1
  BY <1>1 DEF IInv, Typed, Service, Entries, Position
<1>3. i \in DOMAIN commandMap
  BY <1>1, <1>2, MapTyped DEF End
<1>4. CASE TimedOut(i)
  <2>1. /\ Report(commandMap[i].tc, <<"TIMEOUT">>)
        /\ CheckAndExecuteFifo(commandMap, i, "timeouts", i, i + 1)
    BY <1>4 DEF CheckTimeout
  <2>2. "TIMEOUT" \in Verdicts \ {"START_FAILURE"} /\ "timeouts" \in Loop
    BY DEF Verdicts, Loop
  <2> HIDE DEF i
  <2> QED BY <1>1, <1>2, <1>3, <2>1, <2>2, ActiveEnds
<1>5. CASE ~TimedOut(i)
  <2>1. /\ service' = [service EXCEPT !.iter = i + 1]
        /\ UNCHANGED <<commandMap, reports>>
    BY <1>5 DEF CheckTimeout
  <2>2. service' \in Service /\ service'.step = "timeouts" /\ service'.iter >= 1
    BY <1>1, <1>2, <2>1 DEF Service
  <2>3. \A x \in Telecommand : HasVerdict(x)' <=> HasVerdict(x)
    BY <2>1 DEF HasVerdict
  <2>4. Entries' /\ Placed' /\ Ordered'
    BY <1>1, <2>1, <2>2, <2>3, Unmoved
  <2>5. Typed' /\ OneVerdict' /\ StartsInOrder'
    BY <1>1, <2>1, <2>2 DEF IInv, Typed, OneVerdict, StartsInOrder
  <2>6. Objects'
    BY <1>1, <2>1, ObjectsKept
  <2> QED BY <2>4, <2>5, <2>6 DEF IInv
<1> QED BY <1>4, <1>5

LEMMA SendTelecommandStep ==
  ASSUME IInv, SendTelecommand
  PROVE  IInv'
<1> DEFINE new == sent + 1
<1>1. /\ sent < NTelecommands /\ Len(requestQueue) < RequestQueueDepth
      /\ sent' = new /\ packets' = packets \cup {new} /\ requestQueue' = Append(requestQueue, new)
      /\ UNCHANGED <<target, commandQueue, commandMap, service, objectQueue, action, reports>>
  BY DEF SendTelecommand
<1>2. /\ sent \in Nat /\ new \in Telecommand /\ new \in 0 .. NTelecommands /\ new \in Nat /\ new > sent
      /\ requestQueue \in Seq(Telecommand) /\ Len(requestQueue) \in Nat
      /\ RequestQueueDepth \in Nat /\ NTelecommands \in Nat
  BY <1>1, CommandingAssumption DEF IInv, Typed, Telecommand
<1>3. /\ requestQueue' \in Seq(Telecommand) /\ Len(requestQueue') = Len(requestQueue) + 1
      /\ DOMAIN requestQueue' = 1 .. Len(requestQueue) + 1
      /\ DOMAIN requestQueue = 1 .. Len(requestQueue)
      /\ \A k \in DOMAIN requestQueue : k \in DOMAIN requestQueue' /\ requestQueue'[k] = requestQueue[k]
      /\ Len(requestQueue') \in DOMAIN requestQueue' /\ requestQueue'[Len(requestQueue')] = new
      /\ \A k \in DOMAIN requestQueue' : k \in DOMAIN requestQueue \/ k = Len(requestQueue')
  BY <1>1, <1>2
<1>4. \A x \in Telecommand : x <= sent \/ x = new \/ x > new
  BY <1>2 DEF Telecommand
<1>5. \A x \in Telecommand : HasVerdict(x)' <=> HasVerdict(x)
  BY <1>1 DEF HasVerdict
<1>6. Typed'
  <2>1. Len(requestQueue') <= RequestQueueDepth
    BY <1>1, <1>2, <1>3
  <2>2. sent' \in 0 .. NTelecommands /\ packets' \subseteq Telecommand
    BY <1>1, <1>2 DEF IInv, Typed
  <2> QED BY <1>1, <1>3, <2>1, <2>2 DEF IInv, Typed
<1>7. Entries'
  <2>1. \A i \in DOMAIN commandMap : Current(i)' = Current(i)
    BY <1>1 DEF Current
  <2> QED BY <1>1, <2>1 DEF IInv, Entries, OneEntry, ForItsObject, Position
<1>8. Placed'
  <2>1. ASSUME NEW x \in Telecommand
        PROVE  /\ Starts(x)' <=> Starts(x)
               /\ \A i \in DOMAIN commandMap : /\ WaitsIn(x, i)' <=> WaitsIn(x, i)
                                               /\ Active(x, i)' <=> Active(x, i)
               /\ Waits(x)' <=> (x = new \/ Waits(x))
    <3>1. Waits(x)' <=> (x = new \/ Waits(x))
      BY <1>3 DEF Waits
    <3> QED BY <1>1, <3>1 DEF Starts, WaitsIn, Active
  <2>2. ASSUME NEW x \in Telecommand
        PROVE  /\ x > sent' => x > sent
               /\ x > sent => x > sent' \/ x = new
               /\ x = new => x > sent /\ x <= sent' /\ ~(x <= sent)
               /\ x # new => (x <= sent' <=> x <= sent)
    BY <1>1, <1>2 DEF Telecommand
  <2>3. reports[new] = << >>
    BY <1>2 DEF IInv, Placed
  <2>4. ASSUME NEW x \in Telecommand
        PROVE  /\ reports'[x] = << >> <=> \/ x > sent' \/ Waits(x)' \/ Starts(x)'
                                          \/ \E j \in DOMAIN commandMap' : WaitsIn(x, j)'
               /\ reports'[x] # << >> /\ ~HasVerdict(x)'
                    <=> \E j \in DOMAIN commandMap' : Active(x, j)'
               /\ x \in packets' <=> x <= sent' /\ reports'[x] = << >>
    <3>1. reports'[x] = << >> <=> \/ x > sent' \/ Waits(x)' \/ Starts(x)'
                                  \/ \E j \in DOMAIN commandMap' : WaitsIn(x, j)'
      BY <1>1, <2>1, <2>2, <2>3 DEF IInv, Placed
    <3>2. reports'[x] # << >> /\ ~HasVerdict(x)' <=> \E j \in DOMAIN commandMap' : Active(x, j)'
      BY <1>1, <1>5, <2>1 DEF IInv, Placed
    <3>3. x \in packets' <=> x <= sent' /\ reports'[x] = << >>
      BY <1>1, <2>2, <2>3 DEF IInv, Placed
    <3> QED BY <3>1, <3>2, <3>3
  <2> QED BY <2>4 DEF Placed
<1>9. Ordered'
  <2>1. ASSUME NEW tc PROVE Taken(tc)' <=> Taken(tc)
    <3>1. sent' - Len(requestQueue') = sent - Len(requestQueue)
      BY <1>1, <1>2, <1>3
    <3> QED BY <3>1 DEF Taken
  <2>2. Len(requestQueue') <= sent'
    BY <1>1, <1>2, <1>3 DEF IInv, Ordered
  <2>3. \A k \in DOMAIN requestQueue' : requestQueue'[k] = sent' - Len(requestQueue') + k
    <3> TAKE k \in DOMAIN requestQueue'
    <3>1. CASE k \in DOMAIN requestQueue
      <4>1. requestQueue'[k] = sent - Len(requestQueue) + k
        BY <1>3, <3>1 DEF IInv, Ordered
      <4> QED BY <1>1, <1>2, <1>3, <4>1
    <3>2. CASE k = Len(requestQueue')
      BY <1>1, <1>2, <1>3, <3>2
    <3> QED BY <1>3, <3>1, <3>2
  <2> QED BY <1>1, <2>1, <2>2, <2>3 DEF Ordered, IInv, Entries, Position
<1>10. Objects' /\ OneVerdict' /\ StartsInOrder'
  BY <1>1 DEF IInv, Objects, Told, OneVerdict, StartsInOrder
<1> QED BY <1>6, <1>7, <1>8, <1>9, <1>10 DEF IInv

\* What taking the first telecommand out of the request queue means
HeadTaken(tc) ==
  /\ tc \in Telecommand /\ tc <= sent /\ ~(tc > sent) /\ reports[tc] = << >>
  /\ \A i \in DOMAIN commandMap : ~WaitsIn(tc, i) /\ ~Active(tc, i)
  /\ requestQueue' \in Seq(Telecommand) /\ Len(requestQueue') <= RequestQueueDepth
  /\ Len(requestQueue') <= sent
  /\ \A k \in DOMAIN requestQueue' : requestQueue'[k] = sent - Len(requestQueue') + k
  /\ \A x \in Telecommand : /\ Waits(x)' <=> x # tc /\ Waits(x)
                            /\ Taken(x) => x < tc /\ Taken(x)'
  /\ tc <= sent' - Len(requestQueue')

LEMMA TakesHead ==
  ASSUME IInv, service.step # "start", requestQueue # << >>, requestQueue' = Tail(requestQueue),
         UNCHANGED sent, NEW tc, tc = Head(requestQueue)
  PROVE  HeadTaken(tc)
<1>1. /\ requestQueue \in Seq(Telecommand) /\ sent \in Nat /\ RequestQueueDepth \in Nat
      /\ Len(requestQueue) <= RequestQueueDepth /\ Len(requestQueue) <= sent
  BY CommandingAssumption DEF IInv, Typed, Ordered
<1>2. /\ tc \in Telecommand /\ tc = requestQueue[1] /\ 1 \in DOMAIN requestQueue
      /\ requestQueue' \in Seq(Telecommand) /\ Len(requestQueue') = Len(requestQueue) - 1
      /\ DOMAIN requestQueue = 1 .. Len(requestQueue)
      /\ DOMAIN requestQueue' = 1 .. Len(requestQueue) - 1 /\ Len(requestQueue) \in Nat \ {0}
      /\ \A k \in DOMAIN requestQueue' : k + 1 \in DOMAIN requestQueue
                                         /\ requestQueue'[k] = requestQueue[k + 1]
      /\ \A k \in DOMAIN requestQueue :
           k = 1 \/ (k - 1 \in DOMAIN requestQueue' /\ requestQueue'[k - 1] = requestQueue[k])
  BY <1>1, Shifted
<1>3. \A k \in DOMAIN requestQueue : requestQueue[k] = sent - Len(requestQueue) + k
  BY DEF IInv, Ordered
<1>4. tc = sent - Len(requestQueue) + 1
  BY <1>2, <1>3
<1>5. tc <= sent /\ ~(tc > sent)
  BY <1>1, <1>2, <1>4
<1>6. Waits(tc)
  BY <1>2 DEF Waits
<1>7. reports[tc] = << >>
  BY <1>2, <1>6 DEF IInv, Placed
<1>8. ASSUME NEW x \in Telecommand
      PROVE  /\ Waits(x)' <=> x # tc /\ Waits(x)
             /\ Taken(x) => x < tc /\ Taken(x)'
  <2>1. Taken(x) => x < tc /\ Taken(x)'
    BY <1>1, <1>2, <1>4 DEF Taken, Telecommand
  <2>2. \A k \in DOMAIN requestQueue' : requestQueue'[k] # tc
    BY <1>1, <1>2, <1>3, <1>4
  <2>3. Waits(x)' <=> x # tc /\ Waits(x)
    <3>1. \A k \in DOMAIN requestQueue' :
            \E l \in DOMAIN requestQueue : requestQueue[l] = requestQueue'[k]
      BY <1>2
    <3>2. \A l \in DOMAIN requestQueue :
            \/ requestQueue[l] = tc
            \/ \E k \in DOMAIN requestQueue' : requestQueue'[k] = requestQueue[l]
      BY <1>2
    <3> QED BY <2>2, <3>1, <3>2 DEF Waits
  <2> QED BY <2>1, <2>3
<1>9. tc <= sent' - Len(requestQueue')
  BY <1>1, <1>2, <1>4
<1>10. ASSUME NEW i \in DOMAIN commandMap PROVE ~WaitsIn(tc, i) /\ ~Active(tc, i)
  <2>1. \A k \in DOMAIN commandMap[i].fifo : Taken(commandMap[i].fifo[k])
                                             /\ commandMap[i].fifo[k] \in Telecommand
    BY MapTyped DEF IInv, Ordered
  <2>2. ~(tc < tc)
    BY <1>2 DEF Telecommand
  <2>3. ~WaitsIn(tc, i)
    BY <1>8, <2>1, <2>2 DEF WaitsIn
  <2>4. ~Active(tc, i)
    BY <1>2, <1>7 DEF IInv, Placed
  <2> QED BY <2>3, <2>4
<1>11. /\ Len(requestQueue') <= RequestQueueDepth /\ Len(requestQueue') <= sent
       /\ \A k \in DOMAIN requestQueue' : requestQueue'[k] = sent - Len(requestQueue') + k
  BY <1>1, <1>2, <1>3
<1> QED BY <1>2, <1>5, <1>7, <1>8, <1>9, <1>10, <1>11 DEF HeadTaken

\* It is rejected
LEMMA Rejected ==
  ASSUME IInv, service.step # "start", NEW tc, HeadTaken(tc), Reject(tc),
         UNCHANGED <<target, sent, commandQueue, commandMap, service, objectQueue, action>>
  PROVE  IInv'
<1>1. <<"START_FAILURE">> \in FirstReports /\ <<"START_FAILURE">> # <<"START_SUCCESS">>
  <2>1. <<"START_FAILURE">>[1] # <<"START_SUCCESS">>[1]
    OBVIOUS
  <2> QED BY <2>1 DEF FirstReports
<1>2. /\ tc \in Telecommand /\ Report(tc, <<"START_FAILURE">>) /\ packets' = packets \ {tc}
      /\ reports[tc] = << >>
  BY DEF Reject, HeadTaken
<1>3. /\ reports' \in [Telecommand -> Seq(ReportKind)]
      /\ reports'[tc] # << >> /\ HasVerdict(tc)'
      /\ \A x \in Telecommand : x # tc => reports'[x] = reports[x] /\ HasVerdict(x)' = HasVerdict(x)
      /\ OneVerdict' /\ StartsInOrder'
  BY <1>1, <1>2, FirstReport
<1>4. Objects'
  <2>1. \A x \in Telecommand : reports[x] # << >> => reports'[x] # << >>
    BY <1>3
  <2> QED BY <2>1, ObjectsKept
<1>5. Typed'
  BY <1>2, <1>3 DEF IInv, Typed, HeadTaken
<1>6. Entries'
  <2>1. \A i \in DOMAIN commandMap : Current(i)' = Current(i)
    BY DEF Current
  <2> QED BY <2>1 DEF IInv, Entries, OneEntry, ForItsObject, Position
<1>7. Placed'
  <2>1. ASSUME NEW x \in Telecommand
        PROVE  /\ Starts(x)' <=> FALSE
               /\ ~Starts(x)
               /\ \A i \in DOMAIN commandMap : /\ WaitsIn(x, i)' <=> WaitsIn(x, i)
                                               /\ Active(x, i)' <=> Active(x, i)
               /\ Waits(x)' <=> (x # tc /\ Waits(x))
    BY DEF Starts, WaitsIn, Active, HeadTaken
  <2>2. ASSUME NEW x \in Telecommand
        PROVE  /\ reports'[x] = << >> <=> \/ x > sent \/ Waits(x)' \/ Starts(x)'
                                          \/ \E j \in DOMAIN commandMap : WaitsIn(x, j)'
               /\ reports'[x] # << >> /\ ~HasVerdict(x)'
                    <=> \E j \in DOMAIN commandMap : Active(x, j)'
               /\ x \in packets' <=> x <= sent /\ reports'[x] = << >>
    <3>1. CASE x = tc
      BY <1>2, <1>3, <2>1, <3>1 DEF HeadTaken
    <3>2. CASE x # tc
      BY <1>2, <1>3, <2>1, <3>2 DEF IInv, Placed
    <3> QED BY <3>1, <3>2
  <2> QED BY <2>2 DEF Placed
<1>8. Ordered'
  <2>1. \A i \in DOMAIN commandMap : \A k \in DOMAIN commandMap[i].fifo :
          Taken(commandMap[i].fifo[k])'
    BY MapTyped DEF IInv, Ordered, HeadTaken
  <2>2. service'.step # "start"
    OBVIOUS
  <2> QED BY <2>1, <2>2 DEF Ordered, IInv, HeadTaken, Taken
<1> QED BY <1>3, <1>4, <1>5, <1>6, <1>7, <1>8 DEF IInv

\* It joins the FIFO of entry i
LEMMA Joins ==
  ASSUME IInv, service.step # "start", NEW tc, HeadTaken(tc), NEW i \in DOMAIN commandMap,
         target[tc] = commandMap[i].queue, ~FifoFull(i),
         commandMap' = [commandMap EXCEPT ![i].fifo = Append(@, tc)],
         UNCHANGED <<target, sent, packets, commandQueue, service, objectQueue, action, reports>>
  PROVE  IInv'
<1> DEFINE f == commandMap[i].fifo
           g == Append(f, tc)
<1>1. /\ commandMap \in Seq(Info) /\ DOMAIN commandMap = 1 .. Len(commandMap)
      /\ i \in 1 .. Len(commandMap) /\ commandMap[i] \in Info /\ f \in Seq(Telecommand)
      /\ tc \in Telecommand
  BY MapTyped DEF IInv, Typed, HeadTaken
<1>2. /\ g \in Seq(Telecommand) /\ Len(g) = Len(f) + 1 /\ Len(f) \in Nat
      /\ DOMAIN f = 1 .. Len(f) /\ DOMAIN g = 1 .. Len(f) + 1
      /\ \A k \in DOMAIN f : k \in DOMAIN g /\ g[k] = f[k]
      /\ Len(f) + 1 \in DOMAIN g /\ g[Len(f) + 1] = tc
      /\ \A k \in DOMAIN g : k \in DOMAIN f \/ k = Len(f) + 1
  BY <1>1
<1> HIDE DEF f, g
<1>3. PICK new \in Info : /\ new = [commandMap[i] EXCEPT !.fifo = g]
                          /\ new.fifo = g /\ new.queue = commandMap[i].queue
                          /\ new.tc = commandMap[i].tc
  <2>1. ASSUME NEW e \in Info, NEW h \in Seq(Telecommand)
        PROVE  /\ [e EXCEPT !.fifo = h] \in Info /\ [e EXCEPT !.fifo = h].fifo = h
               /\ [e EXCEPT !.fifo = h].queue = e.queue /\ [e EXCEPT !.fifo = h].tc = e.tc
    BY DEF Info
  <2>2. PICK e \in Info : e = commandMap[i]
    BY <1>1
  <2>3. PICK h \in Seq(Telecommand) : h = g
    BY <1>2
  <2>4. /\ [e EXCEPT !.fifo = h] \in Info /\ [e EXCEPT !.fifo = h].fifo = h
        /\ [e EXCEPT !.fifo = h].queue = e.queue /\ [e EXCEPT !.fifo = h].tc = e.tc
    BY <2>1
  <2> QED BY <2>2, <2>3, <2>4
<1>4. commandMap' = [commandMap EXCEPT ![i] = new]
  BY <1>1, <1>3 DEF f, g
<1>5. /\ commandMap' \in Seq(Info) /\ Len(commandMap') = Len(commandMap)
      /\ DOMAIN commandMap' = DOMAIN commandMap /\ commandMap'[i] = new
      /\ \A j \in DOMAIN commandMap : j # i => commandMap'[j] = commandMap[j]
      /\ \A j \in DOMAIN commandMap : /\ commandMap'[j].queue = commandMap[j].queue
                                      /\ commandMap'[j].tc = commandMap[j].tc
  <2>1. /\ commandMap' \in Seq(Info) /\ Len(commandMap') = Len(commandMap)
        /\ \A j \in 1 .. Len(commandMap) : commandMap'[j] = IF j = i THEN new ELSE commandMap[j]
    <3> DEFINE next == [commandMap EXCEPT ![i] = new]
    <3>1. /\ next \in Seq(Info) /\ Len(next) = Len(commandMap)
          /\ \A j \in 1 .. Len(commandMap) : next[j] = IF j = i THEN new ELSE commandMap[j]
      BY <1>1, ExceptSeq
    <3>2. commandMap' = next
      BY <1>4
    <3> HIDE DEF next
    <3> QED BY <3>1, <3>2
  <2>2. DOMAIN commandMap' = DOMAIN commandMap
    BY <1>1, <2>1, LenProperties
  <2> QED BY <1>1, <1>3, <2>1, <2>2
<1>6. /\ \A k \in DOMAIN f : target[f[k]] = commandMap[i].queue /\ Taken(f[k])
      /\ \A k \in DOMAIN f : \A l \in 1 .. k - 1 : f[l] < f[k]
      /\ \A k \in DOMAIN f : f[k] \in Telecommand
  BY MapTyped DEF f, IInv, Entries, ForItsObject, Ordered
<1>7. \A x \in Telecommand : HasVerdict(x)' <=> HasVerdict(x)
  BY DEF HasVerdict
<1>8. Typed'
  <2>1. \A j \in DOMAIN commandMap' : Len(commandMap'[j].fifo) <= CommandInfoFifoDepth
    <3> TAKE j \in DOMAIN commandMap'
    <3>1. CASE j = i
      <4>1. Len(f) <= CommandInfoFifoDepth /\ Len(f) # CommandInfoFifoDepth
        BY DEF IInv, Typed, f, FifoFull
      <4>2. Len(commandMap'[j].fifo) = Len(f) + 1
        BY <1>2, <1>3, <1>5, <3>1
      <4>3. Len(f) \in Nat /\ CommandInfoFifoDepth \in Nat
        BY <1>2, CommandingAssumption
      <4> QED BY <4>1, <4>2, <4>3
    <3>2. CASE j # i
      BY <1>5, <3>2 DEF IInv, Typed
    <3> QED BY <3>1, <3>2
  <2> QED BY <1>5, <2>1 DEF IInv, Typed, HeadTaken
<1>9. Entries'
  <2>1. \A j \in DOMAIN commandMap : Current(j)' = Current(j)
    BY <1>5 DEF Current
  <2>2. ASSUME NEW j \in DOMAIN commandMap'
        PROVE  \A k \in DOMAIN commandMap'[j].fifo :
                 target[commandMap'[j].fifo[k]] = commandMap'[j].queue
    <3>1. CASE j = i
      <4>1. \A k \in DOMAIN g : target[g[k]] = commandMap[i].queue
        BY <1>2, <1>6
      <4>2. commandMap'[j].fifo = g /\ commandMap'[j].queue = commandMap[i].queue
        BY <1>3, <1>5, <3>1
      <4> QED BY <4>1, <4>2
    <3>2. CASE j # i
      BY <1>5, <3>2 DEF IInv, Entries, ForItsObject
    <3> QED BY <3>1, <3>2
  <2>3. ForItsObject'
    BY <1>5, <2>1, <2>2 DEF IInv, Entries, ForItsObject
  <2>4. OneEntry' /\ Position'
    BY <1>5 DEF IInv, Entries, OneEntry, Position
  <2> QED BY <2>3, <2>4 DEF Entries
<1>10. Placed'
  <2>1. ASSUME NEW x \in Telecommand
        PROVE  /\ ~Starts(x) /\ ~Starts(x)'
               /\ \A j \in DOMAIN commandMap : /\ j # i => (WaitsIn(x, j)' <=> WaitsIn(x, j))
                                               /\ Active(x, j)' <=> Active(x, j)
               /\ WaitsIn(x, i)' <=> (x = tc \/ WaitsIn(x, i))
               /\ Waits(x)' <=> (x # tc /\ Waits(x))
    <3>1. WaitsIn(x, i)' <=> \E k \in DOMAIN g : g[k] = x
      <4>1. commandMap'[i].fifo = g
        BY <1>3, <1>5
      <4> QED BY <4>1 DEF WaitsIn
    <3>2. WaitsIn(x, i) <=> \E k \in DOMAIN f : f[k] = x
      BY DEF WaitsIn, f
    <3>3. WaitsIn(x, i)' <=> (x = tc \/ WaitsIn(x, i))
      BY <1>2, <3>1, <3>2
    <3>4. \A j \in DOMAIN commandMap : /\ j # i => (WaitsIn(x, j)' <=> WaitsIn(x, j))
                                       /\ Active(x, j)' <=> Active(x, j)
      BY <1>5 DEF WaitsIn, Active
    <3>5. Waits(x)' <=> (x # tc /\ Waits(x))
      BY DEF HeadTaken
    <3> QED BY <3>3, <3>4, <3>5 DEF Starts
  <2>2. ASSUME NEW x \in Telecommand
        PROVE  /\ reports'[x] = << >> <=> \/ x > sent \/ Waits(x)' \/ Starts(x)'
                                          \/ \E j \in DOMAIN commandMap' : WaitsIn(x, j)'
               /\ reports'[x] # << >> /\ ~HasVerdict(x)'
                    <=> \E j \in DOMAIN commandMap' : Active(x, j)'
               /\ x \in packets' <=> x <= sent /\ reports'[x] = << >>
    <3>1. reports'[x] # << >> /\ ~HasVerdict(x)' <=> \E j \in DOMAIN commandMap' : Active(x, j)'
      BY <1>5, <1>7, <2>1 DEF IInv, Placed
    <3>2. x \in packets' <=> x <= sent /\ reports'[x] = << >>
      BY DEF IInv, Placed
    <3>3. CASE x = tc
      BY <1>5, <2>1, <3>1, <3>2, <3>3 DEF HeadTaken
    <3>4. CASE x # tc
      <4>1. (\E j \in DOMAIN commandMap' : WaitsIn(x, j)') <=> \E j \in DOMAIN commandMap : WaitsIn(x, j)
        BY <1>5, <2>1, <3>4
      <4> QED BY <2>1, <3>1, <3>2, <3>4, <4>1 DEF IInv, Placed
    <3> QED BY <3>3, <3>4
  <2> QED BY <2>2 DEF Placed
<1>11. Ordered'
  <2>1. ASSUME NEW x \in Telecommand, Taken(x) PROVE Taken(x)' /\ x < tc
    BY <2>1 DEF HeadTaken
  <2>2. ASSUME NEW j \in DOMAIN commandMap'
        PROVE  \A k \in DOMAIN commandMap'[j].fifo :
                 /\ commandMap'[j].fifo[k] <= sent' - Len(requestQueue')
                 /\ \A l \in 1 .. k - 1 : commandMap'[j].fifo[l] < commandMap'[j].fifo[k]
    <3>1. CASE j = i
      <4>1. \A k \in DOMAIN g : g[k] <= sent' - Len(requestQueue')
        BY <1>2, <1>6, <2>1 DEF Taken, HeadTaken
      <4>2. ASSUME NEW k \in DOMAIN g, NEW l \in 1 .. k - 1 PROVE g[l] < g[k]
        <5>1. l \in DOMAIN f
          BY <1>2
        <5>2. CASE k \in DOMAIN f
          BY <1>2, <1>6, <5>1, <5>2
        <5>3. CASE k = Len(f) + 1
          BY <1>2, <1>6, <2>1, <5>1, <5>3
        <5> QED BY <1>2, <5>2, <5>3
      <4>3. \A k \in DOMAIN g : k \in DOMAIN f \/ g[k] = tc
        BY <1>2
      <4> QED BY <1>3, <1>5, <3>1, <4>1, <4>2, <4>3, <1>6, <2>1 DEF Taken, f
    <3>2. CASE j # i
      BY <1>5, <3>2, <2>1, MapTyped DEF IInv, Ordered, Taken
    <3> QED BY <3>1, <3>2
  <2>3. service'.step # "start"
    OBVIOUS
  <2> QED BY <2>2, <2>3 DEF Ordered, HeadTaken, Taken
<1>12. Objects'
  BY ObjectsKept
<1>13. OneVerdict' /\ StartsInOrder'
  BY DEF IInv, OneVerdict, StartsInOrder
<1> QED BY <1>8, <1>9, <1>10, <1>11, <1>12, <1>13 DEF IInv

\* A new entry is made for it, and it is started
LEMMA Opens ==
  ASSUME IInv, service.step # "start", NEW tc, HeadTaken(tc), NEW o \in Object,
         target[tc] = o, \A i \in DOMAIN commandMap : commandMap[i].queue # o,
         Len(commandMap) + 1 <= NumberOfParallelCommands,
         commandMap' = Append(commandMap, NewInfo(o)),
         service' = Starting(tc, Len(commandMap) + 1, "requests", 0),
         UNCHANGED <<target, sent, packets, commandQueue, objectQueue, action, reports>>
  PROVE  IInv'
<1>1. /\ commandMap \in Seq(Info) /\ DOMAIN commandMap = 1 .. Len(commandMap)
      /\ Len(commandMap) \in Nat /\ NumberOfParallelCommands \in Nat
      /\ Len(commandMap) <= NumberOfParallelCommands
      /\ tc \in Telecommand
  BY MapTyped, CommandingAssumption DEF IInv, Typed, HeadTaken
<1>0. PICK n \in Nat : n = Len(commandMap) + 1
  <2>1. Len(commandMap) \in Nat
    BY MapTyped
  <2>2. Len(commandMap) + 1 \in Nat
    BY <2>1
  <2> QED BY <2>2
<1>2. PICK new \in Info : new = NewInfo(o) /\ new.queue = o /\ new.fifo = << >>
  <2>1. << >> \in Seq(Telecommand) /\ NoTc \in Telecommand \cup {NoTc} /\ Unset \in Age \cup {Unset}
    OBVIOUS
  <2>2. NewInfo(o) \in Info /\ NewInfo(o).queue = o /\ NewInfo(o).fifo = << >>
    BY <2>1 DEF Info, NewInfo
  <2> QED BY <2>2
<1>3. /\ commandMap' \in Seq(Info) /\ Len(commandMap') = n /\ DOMAIN commandMap' = 1 .. n
      /\ n \in DOMAIN commandMap' /\ n \notin DOMAIN commandMap /\ n \in Nat
      /\ commandMap'[n] = new
      /\ \A j \in DOMAIN commandMap : /\ j \in DOMAIN commandMap' /\ j # n
                                      /\ commandMap'[j] = commandMap[j]
      /\ \A j \in DOMAIN commandMap' : j \in DOMAIN commandMap \/ j = n
  <2>1. commandMap' = Append(commandMap, new)
    BY <1>2
  <2>2. /\ commandMap' \in Seq(Info) /\ Len(commandMap') = n
        /\ commandMap'[n] = new
        /\ \A j \in 1 .. Len(commandMap) : commandMap'[j] = commandMap[j]
    BY <1>0, <1>1, <2>1
  <2>3. DOMAIN commandMap' = 1 .. n
    BY <2>2, LenProperties
  <2> QED BY <1>0, <1>1, <2>2, <2>3
<1>4. /\ service' \in Service /\ service'.step = "start" /\ service'.entry = n
      /\ service'.tc = tc /\ service'.back = "requests"
  BY <1>0, <1>1, <1>3 DEF Starting, Service, Loop
<1>5. /\ Current(n)' = tc
      /\ \A j \in DOMAIN commandMap : Current(j)' = Current(j)
  BY <1>3, <1>4 DEF Current
<1>6. \A x \in Telecommand : HasVerdict(x)' <=> HasVerdict(x)
  BY DEF HasVerdict
<1>7. Typed'
  <2>1. \A j \in DOMAIN commandMap' : Len(commandMap'[j].fifo) <= CommandInfoFifoDepth
    <3>1. Len(new.fifo) <= CommandInfoFifoDepth
      BY <1>2, CommandingAssumption
    <3> QED BY <1>3, <3>1 DEF IInv, Typed
  <2>2. Len(commandMap') <= NumberOfParallelCommands
    BY <1>0, <1>3
  <2> QED BY <1>3, <1>4, <2>1, <2>2 DEF IInv, Typed, HeadTaken
<1>8. Entries'
  <2>1. OneEntry'
    BY <1>2, <1>3 DEF IInv, Entries, OneEntry
  <2>2. ASSUME NEW j \in DOMAIN commandMap'
        PROVE  /\ Current(j)' \in Telecommand /\ target[Current(j)'] = commandMap'[j].queue
               /\ \A k \in DOMAIN commandMap'[j].fifo :
                    target[commandMap'[j].fifo[k]] = commandMap'[j].queue
    <3>1. CASE j = n
      <4>1. commandMap'[j].queue = o /\ commandMap'[j].fifo = << >>
        BY <1>2, <1>3, <3>1
      <4>2. Current(j)' = tc
        BY <1>5, <3>1
      <4>3. target[Current(j)'] = commandMap'[j].queue
        BY <4>1, <4>2
      <4>4. \A k \in DOMAIN << >> : FALSE
        OBVIOUS
      <4> QED BY <1>1, <4>1, <4>2, <4>3, <4>4
    <3>2. CASE j \in DOMAIN commandMap
      BY <1>3, <1>5, <3>2 DEF IInv, Entries, ForItsObject
    <3> QED BY <1>3, <3>1, <3>2
  <2>3. ForItsObject'
    BY <2>2 DEF ForItsObject
  <2>4. Position'
    BY <1>3, <1>4 DEF Position
  <2> QED BY <2>1, <2>3, <2>4 DEF Entries
<1>9. Placed'
  <2>1. ASSUME NEW x \in Telecommand
        PROVE  /\ ~Starts(x) /\ (Starts(x)' <=> x = tc)
               /\ \A j \in DOMAIN commandMap : /\ WaitsIn(x, j)' <=> WaitsIn(x, j)
                                               /\ Active(x, j)' <=> Active(x, j)
               /\ ~WaitsIn(x, n)' /\ ~Active(x, n)'
               /\ Waits(x)' <=> (x # tc /\ Waits(x))
    <3>1. ~WaitsIn(x, n)'
      BY <1>2, <1>3 DEF WaitsIn
    <3>2. \A j \in DOMAIN commandMap : /\ WaitsIn(x, j)' <=> WaitsIn(x, j)
                                       /\ Active(x, j)' <=> Active(x, j)
      BY <1>3, <1>4 DEF WaitsIn, Active
    <3>3. ~Active(x, n)'
      BY <1>4 DEF Active
    <3>4. ~Starts(x) /\ (Starts(x)' <=> x = tc)
      BY <1>4 DEF Starts
    <3>5. Waits(x)' <=> (x # tc /\ Waits(x))
      BY DEF HeadTaken
    <3> QED BY <3>1, <3>2, <3>3, <3>4, <3>5
  <2>2. ASSUME NEW x \in Telecommand
        PROVE  /\ reports'[x] = << >> <=> \/ x > sent \/ Waits(x)' \/ Starts(x)'
                                          \/ \E j \in DOMAIN commandMap' : WaitsIn(x, j)'
               /\ reports'[x] # << >> /\ ~HasVerdict(x)'
                    <=> \E j \in DOMAIN commandMap' : Active(x, j)'
               /\ x \in packets' <=> x <= sent /\ reports'[x] = << >>
    <3>1. reports'[x] # << >> /\ ~HasVerdict(x)' <=> \E j \in DOMAIN commandMap' : Active(x, j)'
      BY <1>3, <1>6, <2>1 DEF IInv, Placed
    <3>2. x \in packets' <=> x <= sent /\ reports'[x] = << >>
      BY DEF IInv, Placed
    <3>3. CASE x = tc
      BY <2>1, <3>1, <3>2, <3>3 DEF HeadTaken
    <3>4. CASE x # tc
      <4>1. (\E j \in DOMAIN commandMap' : WaitsIn(x, j)') <=> \E j \in DOMAIN commandMap : WaitsIn(x, j)
        BY <1>3, <2>1
      <4> QED BY <2>1, <3>1, <3>2, <3>4, <4>1 DEF IInv, Placed
    <3> QED BY <3>3, <3>4
  <2> QED BY <2>2 DEF Placed
<1>10. Ordered'
  <2>1. \A j \in DOMAIN commandMap : \A k \in DOMAIN commandMap[j].fifo :
          Taken(commandMap[j].fifo[k])'
    BY MapTyped DEF IInv, Ordered, HeadTaken
  <2>2. ASSUME NEW j \in DOMAIN commandMap'
        PROVE  \A k \in DOMAIN commandMap'[j].fifo :
                 /\ commandMap'[j].fifo[k] <= sent' - Len(requestQueue')
                 /\ \A l \in 1 .. k - 1 : commandMap'[j].fifo[l] < commandMap'[j].fifo[k]
    <3>1. CASE j = n
      BY <1>2, <1>3, <3>1
    <3>2. CASE j \in DOMAIN commandMap
      BY <1>3, <2>1, <3>2 DEF IInv, Ordered, Taken
    <3> QED BY <1>3, <3>1, <3>2
  <2>3. \A k \in DOMAIN commandMap'[n].fifo : tc < commandMap'[n].fifo[k]
    BY <1>2, <1>3
  <2> QED BY <1>4, <2>2, <2>3 DEF Ordered, HeadTaken, Taken
<1>11. Objects'
  BY ObjectsKept
<1>12. OneVerdict' /\ StartsInOrder'
  BY DEF IInv, OneVerdict, StartsInOrder
<1> QED BY <1>7, <1>8, <1>9, <1>10, <1>11, <1>12 DEF IInv

LEMMA HandleRequestStep ==
  ASSUME IInv, HandleRequest
  PROVE  IInv'
<1> PICK tc : tc = Head(requestQueue)
  OBVIOUS
<1> DEFINE o == target[tc]
           i == Find(o)
<1>1. /\ service.step = "requests" /\ service.step # "start"
      /\ requestQueue # << >> /\ requestQueue' = Tail(requestQueue)
      /\ UNCHANGED <<target, sent, commandQueue, objectQueue, action>>
  BY DEF HandleRequest, ground
<1>2. HeadTaken(tc)
  BY <1>1, TakesHead
<1>3. o \in Object \cup {"NO_OBJECT"} /\ "NO_OBJECT" \notin Object
  BY <1>2, CommandingAssumption DEF HeadTaken, IInv, Typed
<1>4. CASE o = "NO_OBJECT"
  <2>1. Reject(tc) /\ UNCHANGED <<commandMap, service>>
    BY <1>4 DEF HandleRequest
  <2> QED BY <1>1, <1>2, <2>1, Rejected
<1>5. CASE o # "NO_OBJECT" /\ i # 0
  <2>1. i \in DOMAIN commandMap /\ commandMap[i].queue = o
    BY <1>5, FindEntry
  <2>2. CASE FifoFull(i)
    <3>1. Reject(tc) /\ UNCHANGED <<commandMap, service>>
      BY <1>5, <2>2 DEF HandleRequest
    <3> QED BY <1>1, <1>2, <3>1, Rejected
  <2>3. CASE ~FifoFull(i)
    <3>1. /\ commandMap' = [commandMap EXCEPT ![i].fifo = Append(@, tc)]
          /\ UNCHANGED <<packets, reports, service>>
      BY <1>5, <2>3 DEF HandleRequest
    <3>2. target[tc] = commandMap[i].queue
      BY <2>1
    <3> HIDE DEF i
    <3> QED BY <1>1, <1>2, <2>1, <2>3, <3>1, <3>2, Joins
  <2> QED BY <2>2, <2>3
<1>6. CASE o # "NO_OBJECT" /\ i = 0
  <2>1. CASE Len(commandMap) = NumberOfParallelCommands
    <3>1. Reject(tc) /\ UNCHANGED <<commandMap, service>>
      BY <1>6, <2>1 DEF HandleRequest
    <3> QED BY <1>1, <1>2, <3>1, Rejected
  <2>2. CASE Len(commandMap) # NumberOfParallelCommands
    <3>1. /\ commandMap' = Append(commandMap, NewInfo(o))
          /\ service' = Starting(tc, Len(commandMap) + 1, "requests", 0)
          /\ UNCHANGED <<packets, reports>>
      BY <1>6, <2>2 DEF HandleRequest
    <3>2. \A j \in DOMAIN commandMap : commandMap[j].queue # o
      BY <1>6, FindEntry
    <3>3. PICK x \in Object : x = o
      BY <1>3, <1>6
    <3>4. Len(commandMap) + 1 <= NumberOfParallelCommands
      <4>1. Len(commandMap) \in Nat /\ Len(commandMap) <= NumberOfParallelCommands
        BY MapTyped DEF IInv, Typed
      <4>2. NumberOfParallelCommands \in Nat
        BY CommandingAssumption
      <4> QED BY <2>2, <4>1, <4>2
    <3> HIDE DEF i
    <3> QED BY <1>1, <1>2, <3>1, <3>2, <3>3, <3>4, Opens
  <2> QED BY <2>1, <2>2
<1> QED BY <1>4, <1>5, <1>6

\* The telecommand that is being started comes after the others for its object
LEMMA InTurn ==
  ASSUME IInv, service.step = "start"
  PROVE  LET i == service.entry
             tc == service.tc
         IN  /\ i \in DOMAIN commandMap /\ tc \in Telecommand /\ tc = Current(i) /\ tc <= sent
             /\ target[tc] = commandMap[i].queue /\ reports[tc] = << >>
             /\ \A a \in Telecommand : a < tc /\ target[a] = target[tc] => reports[a] # << >>
<1> DEFINE i == service.entry
           tc == service.tc
<1>1. i \in DOMAIN commandMap
  BY DEF IInv, Entries, Position
<1>2. tc = Current(i)
  BY DEF Current
<1>3. tc \in Telecommand /\ target[tc] = commandMap[i].queue
  BY <1>1, <1>2 DEF IInv, Entries, ForItsObject
<1>4. tc <= sent
  BY <1>1, <1>2, <1>3, NotElsewhere
<1>5. Starts(tc)
  BY DEF Starts
<1>6. reports[tc] = << >>
  BY <1>3, <1>5 DEF IInv, Placed
<1>7. ASSUME NEW a \in Telecommand, a < tc, target[a] = target[tc], reports[a] = << >>
      PROVE  FALSE
  <2>1. a \in Nat /\ tc \in Nat /\ sent \in Nat /\ Len(requestQueue) \in Nat
    BY <1>3 DEF IInv, Typed, Telecommand
  <2>2. ~(a > sent)
    BY <1>4, <1>7, <2>1
  <2>3. ~Starts(a)
    BY <1>7, <2>1 DEF Starts
  <2>4. ~Waits(a)
    <3>1. Taken(tc)
      BY DEF IInv, Ordered
    <3>2. ASSUME NEW k \in DOMAIN requestQueue PROVE requestQueue[k] # a
      <4>1. requestQueue[k] = sent - Len(requestQueue) + k /\ k \in Nat /\ k >= 1
        BY DEF IInv, Ordered, Typed
      <4> QED BY <1>7, <2>1, <3>1, <4>1 DEF Taken
    <3> QED BY <3>2 DEF Waits
  <2>5. ASSUME NEW j \in DOMAIN commandMap PROVE ~WaitsIn(a, j)
    <3>1. SUFFICES ASSUME NEW k \in DOMAIN commandMap[j].fifo, commandMap[j].fifo[k] = a
                   PROVE  FALSE
      BY DEF WaitsIn
    <3>2. j = i
      BY <1>1, <1>3, <1>7, <3>1 DEF IInv, Entries, ForItsObject, OneEntry
    <3>3. tc < a
      BY <3>1, <3>2 DEF IInv, Ordered
    <3> QED BY <1>7, <2>1, <3>3
  <2> QED BY <1>7, <2>2, <2>3, <2>4, <2>5 DEF IInv, Placed
<1> QED BY <1>1, <1>2, <1>3, <1>4, <1>6, <1>7

\* Its command is sent
LEMMA StartsActive ==
  ASSUME IInv, service.step = "start",
         NEW i \in DOMAIN commandMap, i = service.entry, NEW tc \in Telecommand, tc = service.tc,
         NEW o \in Object, o = commandMap[i].queue, Len(objectQueue[o]) < ObjectQueueDepth,
         objectQueue' = [objectQueue EXCEPT ![o] = Append(@, tc)],
         packets' = packets \ {tc}, Report(tc, <<"START_SUCCESS">>), commandMap' = Started(i, tc),
         service' = [In(service.back) EXCEPT !.iter = service.iter],
         UNCHANGED <<target, sent, requestQueue, commandQueue, action>>
  PROVE  IInv'
<1>1. /\ tc = Current(i) /\ tc <= sent /\ target[tc] = o /\ reports[tc] = << >>
      /\ \A a \in Telecommand : a < tc /\ target[a] = target[tc] => reports[a] # << >>
  BY InTurn
<1>2. /\ reports' \in [Telecommand -> Seq(ReportKind)]
      /\ reports'[tc] # << >> /\ ~HasVerdict(tc)'
      /\ \A x \in Telecommand : x # tc => reports'[x] = reports[x] /\ HasVerdict(x)' = HasVerdict(x)
      /\ OneVerdict' /\ StartsInOrder'
  <2>1. <<"START_SUCCESS">> \in FirstReports
    BY DEF FirstReports
  <2> QED BY <1>1, <2>1, FirstReport
<1>3. PICK new \in Info : /\ new = [commandMap[i] EXCEPT !.tc = tc, !.age = 0]
                          /\ new.fifo = commandMap[i].fifo /\ new.queue = commandMap[i].queue
                          /\ new.tc = tc
  <2>1. PICK e \in Info : e = commandMap[i]
    BY MapTyped
  <2>2. 0 \in Age
    BY CommandingAssumption DEF Age
  <2>3. /\ [e EXCEPT !.tc = tc, !.age = 0] \in Info
        /\ [e EXCEPT !.tc = tc, !.age = 0].fifo = e.fifo
        /\ [e EXCEPT !.tc = tc, !.age = 0].queue = e.queue
        /\ [e EXCEPT !.tc = tc, !.age = 0].tc = tc
    BY <2>2 DEF Info
  <2> QED BY <2>1, <2>3
<1>4. /\ commandMap \in Seq(Info) /\ DOMAIN commandMap = 1 .. Len(commandMap)
      /\ i \in 1 .. Len(commandMap)
  BY MapTyped DEF IInv, Typed
<1>5. commandMap' = [commandMap EXCEPT ![i] = new]
  BY <1>3, <1>4 DEF Started
<1>6. /\ commandMap' \in Seq(Info) /\ Len(commandMap') = Len(commandMap)
      /\ DOMAIN commandMap' = DOMAIN commandMap /\ commandMap'[i] = new
      /\ \A j \in DOMAIN commandMap : j # i => commandMap'[j] = commandMap[j]
      /\ \A j \in DOMAIN commandMap : /\ commandMap'[j].queue = commandMap[j].queue
                                      /\ commandMap'[j].fifo = commandMap[j].fifo
  <2>1. /\ commandMap' \in Seq(Info) /\ Len(commandMap') = Len(commandMap)
        /\ \A j \in 1 .. Len(commandMap) : commandMap'[j] = IF j = i THEN new ELSE commandMap[j]
    <3> DEFINE next == [commandMap EXCEPT ![i] = new]
    <3>1. /\ next \in Seq(Info) /\ Len(next) = Len(commandMap)
          /\ \A j \in 1 .. Len(commandMap) : next[j] = IF j = i THEN new ELSE commandMap[j]
      BY <1>4, ExceptSeq
    <3>2. commandMap' = next
      BY <1>5
    <3> HIDE DEF next
    <3> QED BY <3>1, <3>2
  <2>2. DOMAIN commandMap' = DOMAIN commandMap
    BY <1>4, <2>1, LenProperties
  <2> QED BY <1>3, <1>4, <2>1, <2>2
<1>7. /\ service' \in Service /\ service'.step = service.back /\ service'.iter = service.iter
      /\ service'.step # "start" /\ service \in Service
  BY DEF IInv, Typed, In, Service, Loop, NoTc
<1>8. /\ Current(i)' = tc
      /\ \A j \in DOMAIN commandMap : j # i => Current(j)' = Current(j)
  BY <1>3, <1>6, <1>7 DEF Current
<1>9. /\ objectQueue' \in [Object -> Seq(Telecommand)]
      /\ \A p \in Object : Len(objectQueue'[p]) <= ObjectQueueDepth
      /\ \A p \in Object : \A k \in DOMAIN objectQueue'[p] :
           \/ p = o /\ objectQueue'[p][k] = tc
           \/ k \in DOMAIN objectQueue[p] /\ objectQueue'[p][k] = objectQueue[p][k]
              /\ objectQueue[p][k] \in Telecommand
  <2>1. /\ objectQueue \in [Object -> Seq(Telecommand)] /\ ObjectQueueDepth \in Nat
        /\ \A p \in Object : Len(objectQueue[p]) <= ObjectQueueDepth
    BY CommandingAssumption DEF IInv, Typed
  <2>2. PICK q \in Seq(Telecommand) : q = objectQueue[o]
    BY <2>1
  <2>3. /\ Append(q, tc) \in Seq(Telecommand) /\ Len(Append(q, tc)) <= ObjectQueueDepth
        /\ \A k \in DOMAIN Append(q, tc) :
             \/ Append(q, tc)[k] = tc
             \/ k \in DOMAIN q /\ Append(q, tc)[k] = q[k] /\ q[k] \in Telecommand
    BY <2>1, <2>2
  <2>4. /\ objectQueue' = [objectQueue EXCEPT ![o] = Append(q, tc)]
        /\ objectQueue' \in [Object -> Seq(Telecommand)]
        /\ objectQueue'[o] = Append(q, tc)
        /\ \A p \in Object : p # o => objectQueue'[p] = objectQueue[p]
    BY <2>1, <2>2, <2>3
  <2>5. \A p \in Object : Len(objectQueue'[p]) <= ObjectQueueDepth
    BY <2>1, <2>3, <2>4
  <2>6. \A p \in Object : \A k \in DOMAIN objectQueue'[p] :
           \/ p = o /\ objectQueue'[p][k] = tc
           \/ k \in DOMAIN objectQueue[p] /\ objectQueue'[p][k] = objectQueue[p][k]
              /\ objectQueue[p][k] \in Telecommand
    <3> TAKE p \in Object
    <3>1. CASE p = o
      <4>1. objectQueue'[p] = Append(q, tc) /\ objectQueue[p] = q
        BY <2>2, <2>4, <3>1
      <4> QED BY <2>3, <3>1, <4>1
    <3>2. CASE p # o
      BY <2>1, <2>4, <3>2, ElementOfSeq, LenProperties
    <3> QED BY <3>1, <3>2
  <2> QED BY <2>4, <2>5, <2>6
<1>10. Typed'
  <2>1. \A j \in DOMAIN commandMap' : Len(commandMap'[j].fifo) <= CommandInfoFifoDepth
    BY <1>6 DEF IInv, Typed
  <2> QED BY <1>2, <1>6, <1>7, <1>9, <2>1 DEF IInv, Typed
<1>11. Entries'
  <2>1. OneEntry'
    BY <1>6 DEF IInv, Entries, OneEntry
  <2>2. ASSUME NEW j \in DOMAIN commandMap'
        PROVE  /\ Current(j)' \in Telecommand /\ target[Current(j)'] = commandMap'[j].queue
               /\ \A k \in DOMAIN commandMap'[j].fifo :
                    target[commandMap'[j].fifo[k]] = commandMap'[j].queue
    <3>1. \A k \in DOMAIN commandMap'[j].fifo :
                    target[commandMap'[j].fifo[k]] = commandMap'[j].queue
      BY <1>6 DEF IInv, Entries, ForItsObject
    <3>2. CASE j = i
      BY <1>1, <1>6, <1>8, <3>1, <3>2
    <3>3. CASE j # i
      <4>1. Current(j) \in Telecommand /\ target[Current(j)] = commandMap[j].queue
        BY <1>6 DEF IInv, Entries, ForItsObject
      <4>2. Current(j)' = Current(j) /\ commandMap'[j].queue = commandMap[j].queue
        BY <1>6, <1>8, <3>3
      <4> QED BY <3>1, <4>1, <4>2
    <3> QED BY <3>2, <3>3
  <2>3. ForItsObject'
    BY <2>2 DEF ForItsObject
  <2>4. Position'
    BY <1>7 DEF IInv, Entries, Position
  <2> QED BY <2>1, <2>3, <2>4 DEF Entries
<1>12. Placed'
  <2>1. ASSUME NEW x \in Telecommand
        PROVE  /\ (Starts(x) <=> x = tc) /\ ~Starts(x)'
               /\ \A j \in DOMAIN commandMap : /\ WaitsIn(x, j)' <=> WaitsIn(x, j)
                                               /\ j # i => (Active(x, j)' <=> Active(x, j))
               /\ (Active(x, i)' <=> x = tc) /\ ~Active(x, i)
               /\ Waits(x)' <=> Waits(x)
    <3>1. (Starts(x) <=> x = tc) /\ ~Starts(x)'
      BY <1>7 DEF Starts
    <3>2. \A j \in DOMAIN commandMap : /\ WaitsIn(x, j)' <=> WaitsIn(x, j)
                                       /\ j # i => (Active(x, j)' <=> Active(x, j))
      BY <1>6, <1>7 DEF WaitsIn, Active
    <3>3. (Active(x, i)' <=> x = tc) /\ ~Active(x, i)
      BY <1>3, <1>6, <1>7 DEF Active
    <3>4. Waits(x)' <=> Waits(x)
      BY DEF Waits
    <3> QED BY <3>1, <3>2, <3>3, <3>4
  <2>2. /\ ~Waits(tc) /\ \A j \in DOMAIN commandMap : ~WaitsIn(tc, j)
        /\ ~(tc > sent)
    <3>1. ~Waits(tc) /\ \A j \in DOMAIN commandMap : ~WaitsIn(tc, j)
      BY <1>1, NotElsewhere
    <3>2. ~(tc > sent)
      BY <1>1 DEF IInv, Typed, Telecommand
    <3> QED BY <3>1, <3>2
  <2>3. ASSUME NEW x \in Telecommand
        PROVE  /\ reports'[x] = << >> <=> \/ x > sent \/ Waits(x)' \/ Starts(x)'
                                          \/ \E j \in DOMAIN commandMap' : WaitsIn(x, j)'
               /\ reports'[x] # << >> /\ ~HasVerdict(x)'
                    <=> \E j \in DOMAIN commandMap' : Active(x, j)'
               /\ x \in packets' <=> x <= sent /\ reports'[x] = << >>
    <3>1. CASE x = tc
      BY <1>2, <1>6, <2>1, <2>2, <3>1
    <3>2. CASE x # tc
      <4>1. /\ reports'[x] = reports[x] /\ (HasVerdict(x)' <=> HasVerdict(x))
            /\ (x \in packets' <=> x \in packets)
        BY <1>2, <3>2
      <4>2. (\E j \in DOMAIN commandMap' : WaitsIn(x, j)') <=> \E j \in DOMAIN commandMap : WaitsIn(x, j)
        BY <1>6, <2>1
      <4>3. (\E j \in DOMAIN commandMap' : Active(x, j)') <=> \E j \in DOMAIN commandMap : Active(x, j)
        BY <1>6, <2>1, <3>2
      <4> QED BY <2>1, <3>2, <4>1, <4>2, <4>3 DEF IInv, Placed
    <3> QED BY <3>1, <3>2
  <2> QED BY <2>3 DEF Placed
<1>13. Ordered'
  <2>1. \A x : Taken(x)' <=> Taken(x)
    BY DEF Taken
  <2>2. /\ Len(requestQueue) <= sent
        /\ \A k \in DOMAIN requestQueue : requestQueue[k] = sent - Len(requestQueue) + k
    BY DEF IInv, Ordered
  <2>3. \A j \in DOMAIN commandMap' : \A k \in DOMAIN commandMap'[j].fifo :
          /\ Taken(commandMap'[j].fifo[k])
          /\ \A l \in 1 .. k - 1 : commandMap'[j].fifo[l] < commandMap'[j].fifo[k]
    BY <1>6 DEF IInv, Ordered
  <2> QED BY <1>7, <2>1, <2>2, <2>3 DEF Ordered
<1>14. Objects'
  <2>1. \A x \in Telecommand : reports[x] # << >> => reports'[x] # << >>
    BY <1>2
  <2>2. \A p \in Object : \A k \in DOMAIN objectQueue'[p] :
          target'[objectQueue'[p][k]] = p /\ reports'[objectQueue'[p][k]] # << >>
    <3> SUFFICES ASSUME NEW p \in Object, NEW k \in DOMAIN objectQueue'[p]
                 PROVE  target[objectQueue'[p][k]] = p /\ reports'[objectQueue'[p][k]] # << >>
      OBVIOUS
    <3>1. CASE p = o /\ objectQueue'[p][k] = tc
      BY <1>1, <1>2, <3>1
    <3>2. CASE /\ k \in DOMAIN objectQueue[p] /\ objectQueue'[p][k] = objectQueue[p][k]
               /\ objectQueue[p][k] \in Telecommand
      <4>1. PICK x \in Telecommand : x = objectQueue[p][k]
        BY <3>2
      <4>2. target[x] = p /\ reports[x] # << >>
        BY <3>2, <4>1 DEF IInv, Objects, Told
      <4> QED BY <2>1, <3>2, <4>1, <4>2
    <3> QED BY <1>9, <3>1, <3>2
  <2>3. \A x \in Telecommand :
          action'[x] \in {"executing", "underway"} => target'[x] \in Object /\ reports'[x] # << >>
    BY <2>1 DEF IInv, Objects
  <2>4. \A k \in DOMAIN commandQueue : commandQueue[k].for \in Telecommand
    <3>1. \A k \in DOMAIN commandQueue : commandQueue[k] \in Message
      BY ElementOfSeq, LenProperties DEF IInv, Typed
    <3> QED BY <3>1 DEF Message
  <2>5. \A k \in DOMAIN commandQueue' :
          target'[commandQueue'[k].for] = commandQueue'[k].sender
          /\ reports'[commandQueue'[k].for] # << >>
    BY <2>1, <2>4 DEF IInv, Objects, Told
  <2> QED BY <2>2, <2>3, <2>5 DEF Objects, Told
<1> QED BY <1>2, <1>10, <1>11, <1>12, <1>13, <1>14 DEF IInv

\* It ends at once
LEMMA StartsAndEnds ==
  ASSUME IInv, service.step = "start",
         NEW i \in DOMAIN commandMap, i = service.entry, NEW tc \in Telecommand, tc = service.tc,
         packets' = packets \ {tc}, NEW kinds \in FirstReports, kinds # <<"START_SUCCESS">>,
         Report(tc, kinds), EndAtOnce(commandMap),
         UNCHANGED <<target, sent, requestQueue, commandQueue, objectQueue, action>>
  PROVE  IInv'
<1>1. /\ tc = Current(i) /\ reports[tc] = << >>
      /\ \A a \in Telecommand : a < tc /\ target[a] = target[tc] => reports[a] # << >>
  BY InTurn
<1>2. /\ reports' \in [Telecommand -> Seq(ReportKind)]
      /\ reports'[tc] # << >> /\ HasVerdict(tc)'
      /\ \A x \in Telecommand : x # tc => reports'[x] = reports[x] /\ HasVerdict(x)' = HasVerdict(x)
      /\ OneVerdict' /\ StartsInOrder'
  BY <1>1, FirstReport
<1>3. service.back \in Loop /\ service.iter \in Nat /\ (service.back = "timeouts" => service.iter >= 1)
  BY DEF IInv, Typed, Service, Entries, Position
<1>4. CheckAndExecuteFifo(commandMap, i, service.back, service.iter, service.iter)
  BY DEF EndAtOnce
<1>5. Decided(tc)
  BY <1>2 DEF Decided
<1>6. MapTypedNext /\ Entries' /\ Placed' /\ Ordered'
  BY <1>1, <1>3, <1>4, <1>5, Ended
<1>7. Objects'
  <2>1. \A x \in Telecommand : reports[x] # << >> => reports'[x] # << >>
    BY <1>2
  <2> QED BY <2>1, ObjectsKept
<1>8. Typed'
  BY <1>2, <1>6 DEF MapTypedNext, IInv, Typed
<1> QED BY <1>2, <1>6, <1>7, <1>8 DEF IInv

LEMMA StartExecutionStep ==
  ASSUME IInv, NEW result \in StartResults, StartExecution(result)
  PROVE  IInv'
<1> DEFINE i == service.entry
           tc == service.tc
           o == commandMap[i].queue
           taken == result = "RETURN_OK" /\ Len(objectQueue[o]) < ObjectQueueDepth
<1>1. /\ service.step = "start" /\ packets' = packets \ {tc}
      /\ UNCHANGED <<target, sent, requestQueue, commandQueue, action>>
  BY DEF StartExecution, ground
<1>2. i \in DOMAIN commandMap /\ tc \in Telecommand
  BY <1>1, InTurn
<1>3. o \in Object
  BY <1>2, MapTyped
<1>4. CASE taken
  <2>1. /\ objectQueue' = [objectQueue EXCEPT ![o] = Append(@, tc)]
        /\ Report(tc, <<"START_SUCCESS">>)
        /\ commandMap' = Started(i, tc)
        /\ service' = [In(service.back) EXCEPT !.iter = service.iter]
    BY <1>4 DEF StartExecution
  <2>2. Len(objectQueue[o]) < ObjectQueueDepth
    BY <1>4
  <2>3. PICK p \in Object : p = o
    BY <1>3
  <2> QED BY <1>1, <1>2, <2>1, <2>2, <2>3, StartsActive
<1>5. CASE result = "EXECUTION_COMPLETE"
  <2>1. ~taken
    BY <1>5
  <2>2. /\ Report(tc, <<"START_SUCCESS", "COMPLETION_SUCCESS">>) /\ EndAtOnce(commandMap)
        /\ objectQueue' = objectQueue
    BY <1>5, <2>1 DEF StartExecution
  <2>3. /\ <<"START_SUCCESS", "COMPLETION_SUCCESS">> \in FirstReports
        /\ <<"START_SUCCESS", "COMPLETION_SUCCESS">> # <<"START_SUCCESS">>
    <3>1. Len(<<"START_SUCCESS", "COMPLETION_SUCCESS">>) # Len(<<"START_SUCCESS">>)
      OBVIOUS
    <3> QED BY <3>1 DEF FirstReports
  <2> QED BY <1>1, <1>2, <2>2, <2>3, StartsAndEnds
<1>6. CASE ~taken /\ result # "EXECUTION_COMPLETE"
  <2>1. /\ Report(tc, <<"START_FAILURE">>) /\ EndAtOnce(commandMap)
        /\ objectQueue' = objectQueue
    BY <1>6 DEF StartExecution
  <2>2. <<"START_FAILURE">> \in FirstReports /\ <<"START_FAILURE">> # <<"START_SUCCESS">>
    <3>1. <<"START_FAILURE">>[1] # <<"START_SUCCESS">>[1]
      OBVIOUS
    <3> QED BY <3>1 DEF FirstReports
  <2> QED BY <1>1, <1>2, <2>1, <2>2, StartsAndEnds
<1> QED BY <1>4, <1>5, <1>6

-----------------------------------------------------------------------------
(***************************************************************************)
(* The objects.                                                            *)
(***************************************************************************)
\* The replies of an object are put behind the others, as far as there is room
LEMMA Replies ==
  ASSUME IInv, NEW o \in Object, NEW tc \in Telecommand, Told(o, tc),
         NEW kinds \in Seq(ReplyKind), Reply(o, tc, kinds)
  PROVE  /\ commandQueue' \in Seq(Message) /\ Len(commandQueue') <= CommandQueueDepth
         /\ \A k \in DOMAIN commandQueue' :
              \/ commandQueue'[k].sender = o /\ commandQueue'[k].for = tc
              \/ k \in DOMAIN commandQueue /\ commandQueue'[k] = commandQueue[k]
<1> DEFINE room == CommandQueueDepth - Len(commandQueue)
           n == IF room < Len(kinds) THEN room ELSE Len(kinds)
           delivered == SubSeq(kinds, 1, n)
           replies == [k \in DOMAIN delivered |-> [sender |-> o, for |-> tc, kind |-> delivered[k]]]
<1>1. /\ commandQueue \in Seq(Message) /\ Len(commandQueue) <= CommandQueueDepth
      /\ CommandQueueDepth \in Nat /\ Len(commandQueue) \in Nat /\ Len(kinds) \in Nat
  BY CommandingAssumption DEF IInv, Typed
<1>2. n \in Nat /\ n <= room /\ n <= Len(kinds)
  BY <1>1
<1>3. delivered \in Seq(ReplyKind) /\ Len(delivered) = n /\ DOMAIN delivered = 1 .. n
  BY <1>1, <1>2, SubSeqProperties
<1>4. commandQueue' = commandQueue \o replies
  BY DEF Reply
<1> HIDE DEF n, delivered
<1>5. /\ replies \in Seq(Message) /\ Len(replies) = n
      /\ \A k \in 1 .. n : replies[k].sender = o /\ replies[k].for = tc
  <2>1. \A k \in 1 .. n : delivered[k] \in ReplyKind
    BY <1>3
  <2>2. \A k \in 1 .. n : replies[k] \in Message
    BY <1>3, <2>1 DEF Message
  <2>3. replies = [k \in 1 .. n |-> replies[k]]
    BY <1>3
  <2>4. replies \in Seq(Message)
    BY <1>2, <2>2, <2>3
  <2>5. DOMAIN replies = 1 .. n
    BY <1>3
  <2>6. \A k \in 1 .. n : replies[k].sender = o /\ replies[k].for = tc
    BY <1>3
  <2> HIDE DEF replies
  <2> QED BY <1>2, <2>4, <2>5, <2>6, LenProperties
<1> HIDE DEF replies
<1>6. /\ commandQueue' \in Seq(Message) /\ Len(commandQueue') = Len(commandQueue) + n
      /\ \A k \in DOMAIN commandQueue' :
           \/ k \in DOMAIN commandQueue /\ commandQueue'[k] = commandQueue[k]
           \/ \E l \in 1 .. n : commandQueue'[k] = replies[l]
  <2>1. /\ commandQueue' \in Seq(Message) /\ Len(commandQueue') = Len(commandQueue) + n
        /\ \A k \in 1 .. Len(commandQueue) + n :
             commandQueue'[k] = IF k <= Len(commandQueue) THEN commandQueue[k]
                                ELSE replies[k - Len(commandQueue)]
    BY <1>1, <1>4, <1>5, ConcatProperties
  <2>2. \A k \in DOMAIN commandQueue' : k \in 1 .. Len(commandQueue) + n
    BY <2>1, LenProperties
  <2>3. DOMAIN commandQueue = 1 .. Len(commandQueue)
    BY <1>1, LenProperties
  <2> QED BY <1>1, <1>2, <2>1, <2>2, <2>3
<1>7. Len(commandQueue') <= CommandQueueDepth
  BY <1>1, <1>2, <1>6
<1> QED BY <1>5, <1>6, <1>7

\* A step of an object leaves the service alone
LEMMA ObjectSteps ==
  ASSUME IInv, UNCHANGED <<target, sent, packets, requestQueue, commandMap, service, reports>>,
         /\ objectQueue' \in [Object -> Seq(Telecommand)]
         /\ \A p \in Object : Len(objectQueue'[p]) <= ObjectQueueDepth
         /\ \A p \in Object : \A k \in DOMAIN objectQueue'[p] : Told(p, objectQueue'[p][k]),
         /\ action' \in [Telecommand -> {"idle", "executing", "underway", "finished"}]
         /\ \A x \in Telecommand : action'[x] \in {"executing", "underway"} =>
              target[x] \in Object /\ reports[x] # << >>,
         \/ commandQueue' = commandQueue
         \/ \E o \in Object, tc \in Telecommand, kinds \in Seq(ReplyKind) :
              Told(o, tc) /\ Reply(o, tc, kinds)
  PROVE  IInv'
<1>1. \A x \in Telecommand : HasVerdict(x)' <=> HasVerdict(x)
  BY DEF HasVerdict
<1>2. service'.step = "timeouts" => service'.iter >= 1
  BY DEF IInv, Entries, Position
<1>3. Entries' /\ Placed' /\ Ordered'
  BY <1>1, <1>2, Unmoved
<1>4. /\ commandQueue' \in Seq(Message) /\ Len(commandQueue') <= CommandQueueDepth
      /\ \A k \in DOMAIN commandQueue' :
           target[commandQueue'[k].for] = commandQueue'[k].sender
           /\ reports[commandQueue'[k].for] # << >>
  <2>1. CASE commandQueue' = commandQueue
    BY <2>1 DEF IInv, Typed, Objects, Told
  <2>2. CASE \E o \in Object, tc \in Telecommand, kinds \in Seq(ReplyKind) :
               Told(o, tc) /\ Reply(o, tc, kinds)
    <3>1. PICK o \in Object, tc \in Telecommand, kinds \in Seq(ReplyKind) :
               Told(o, tc) /\ Reply(o, tc, kinds)
      BY <2>2
    <3>2. /\ commandQueue' \in Seq(Message) /\ Len(commandQueue') <= CommandQueueDepth
          /\ \A k \in DOMAIN commandQueue' :
               \/ commandQueue'[k].sender = o /\ commandQueue'[k].for = tc
               \/ k \in DOMAIN commandQueue /\ commandQueue'[k] = commandQueue[k]
      BY <3>1, Replies
    <3> QED BY <3>1, <3>2 DEF IInv, Objects, Told
  <2> QED BY <2>1, <2>2
<1>5. Objects'
  BY <1>4 DEF Objects, Told
<1>6. Typed' /\ OneVerdict' /\ StartsInOrder'
  BY <1>4 DEF IInv, Typed, OneVerdict, StartsInOrder
<1> QED BY <1>3, <1>5, <1>6 DEF IInv

LEMMA ExecuteActionStep ==
  ASSUME IInv, NEW o \in Object, NEW result \in ActionResults, ExecuteAction(o, result)
  PROVE  IInv'
<1> DEFINE q == objectQueue[o]
           tc == Head(q)
<1>1. /\ objectQueue \in [Object -> Seq(Telecommand)] /\ ObjectQueueDepth \in Nat
      /\ \A p \in Object : Len(objectQueue[p]) <= ObjectQueueDepth
      /\ q \in Seq(Telecommand) /\ q # << >>
      /\ objectQueue' = [objectQueue EXCEPT ![o] = Tail(q)]
      /\ UNCHANGED <<target, sent, packets, requestQueue, commandMap, service, reports>>
  BY CommandingAssumption DEF IInv, Typed, ExecuteAction, ground
<1>2. /\ tc \in Telecommand /\ tc = q[1] /\ 1 \in DOMAIN q
      /\ Tail(q) \in Seq(Telecommand) /\ Len(Tail(q)) = Len(q) - 1 /\ Len(q) \in Nat
      /\ \A k \in DOMAIN Tail(q) : k + 1 \in DOMAIN q /\ Tail(q)[k] = q[k + 1]
  BY <1>1, Shifted
<1>3. Told(o, tc)
  BY <1>2 DEF IInv, Objects
<1>4. /\ objectQueue' \in [Object -> Seq(Telecommand)]
      /\ \A p \in Object : Len(objectQueue'[p]) <= ObjectQueueDepth
      /\ \A p \in Object : \A k \in DOMAIN objectQueue'[p] : Told(p, objectQueue'[p][k])
  <2> HIDE DEF q
  <2>1. /\ objectQueue' \in [Object -> Seq(Telecommand)] /\ objectQueue'[o] = Tail(q)
        /\ \A p \in Object : p # o => objectQueue'[p] = objectQueue[p]
    BY <1>1, <1>2
  <2>2. Len(Tail(q)) <= ObjectQueueDepth
    <3>1. Len(q) <= ObjectQueueDepth
      BY <1>1 DEF q
    <3> QED BY <1>1, <1>2, <3>1
  <2>3. \A k \in DOMAIN Tail(q) : Told(o, Tail(q)[k])
    BY <1>2 DEF IInv, Objects, q
  <2> QED BY <1>1, <2>1, <2>2, <2>3 DEF IInv, Objects
<1>5. /\ action \in [Telecommand -> {"idle", "executing", "underway", "finished"}]
      /\ \A x \in Telecommand : action[x] \in {"executing", "underway"} =>
           target[x] \in Object /\ reports[x] # << >>
  BY DEF IInv, Typed, Objects
<1>6. target[tc] \in Object /\ reports[tc] # << >>
  BY <1>3 DEF Told
<1>7. <<"COMPLETION_FAILED", "STEP_FAILED">> \in Seq(ReplyKind) /\ <<"STEP_FAILED">> \in Seq(ReplyKind)
  <2>1. "COMPLETION_FAILED" \in ReplyKind /\ "STEP_FAILED" \in ReplyKind
    BY DEF ReplyKind
  <2>2. \A S : \A x, y \in S : <<x>> \in Seq(S) /\ <<x, y>> \in Seq(S)
    OBVIOUS
  <2> QED BY <2>1, <2>2
<1>8. CASE result = "RETURN_OK"
  <2>1. action' = [action EXCEPT ![tc] = "executing"] /\ commandQueue' = commandQueue
    BY <1>8 DEF ExecuteAction
  <2> HIDE DEF tc
  <2>2. /\ action' \in [Telecommand -> {"idle", "executing", "underway", "finished"}]
        /\ \A x \in Telecommand : action'[x] \in {"executing", "underway"} =>
             target[x] \in Object /\ reports[x] # << >>
    BY <1>2, <1>5, <1>6, <2>1
  <2> QED BY <1>1, <1>4, <2>1, <2>2, ObjectSteps
<1>9. CASE result = "EXECUTION_FINISHED"
  <2>1. /\ action' = [action EXCEPT ![tc] = "finished"]
        /\ Reply(o, tc, <<"COMPLETION_FAILED", "STEP_FAILED">>)
    BY <1>9 DEF ExecuteAction
  <2> HIDE DEF tc
  <2>2. /\ action' \in [Telecommand -> {"idle", "executing", "underway", "finished"}]
        /\ \A x \in Telecommand : action'[x] \in {"executing", "underway"} =>
             target[x] \in Object /\ reports[x] # << >>
    BY <1>2, <1>5, <1>6, <2>1
  <2> QED BY <1>1, <1>2, <1>3, <1>4, <1>7, <2>1, <2>2, ObjectSteps
<1>10. CASE result = "RETURN_FAILED"
  <2>1. Reply(o, tc, <<"STEP_FAILED">>) /\ action' = action
    BY <1>10 DEF ExecuteAction
  <2> HIDE DEF tc
  <2> QED BY <1>1, <1>2, <1>3, <1>4, <1>5, <1>7, <2>1, ObjectSteps
<1> QED BY <1>8, <1>9, <1>10, CommandingAssumption

\* An object that executes an action replies
LEMMA ActionReplies ==
  ASSUME IInv, NEW tc \in Telecommand, NEW kind \in ReplyKind,
         action[tc] \in {"executing", "underway"}, NEW state \in {"idle", "underway"},
         action' = [action EXCEPT ![tc] = state], Reply(target[tc], tc, <<kind>>),
         UNCHANGED <<target, sent, packets, requestQueue, commandMap, service, objectQueue, reports>>
  PROVE  IInv'
<1>1. PICK o \in Object : o = target[tc] /\ reports[tc] # << >> /\ Told(o, tc)
  BY DEF IInv, Objects, Told
<1>2. <<kind>> \in Seq(ReplyKind)
  OBVIOUS
<1>3. /\ action' \in [Telecommand -> {"idle", "executing", "underway", "finished"}]
      /\ \A x \in Telecommand : action'[x] \in {"executing", "underway"} =>
           target[x] \in Object /\ reports[x] # << >>
  BY <1>1 DEF IInv, Typed, Objects
<1>4. /\ objectQueue' \in [Object -> Seq(Telecommand)]
      /\ \A p \in Object : Len(objectQueue'[p]) <= ObjectQueueDepth
      /\ \A p \in Object : \A k \in DOMAIN objectQueue'[p] : Told(p, objectQueue'[p][k])
  BY DEF IInv, Typed, Objects
<1> QED BY <1>1, <1>2, <1>3, <1>4, ObjectSteps

LEMMA IntermediateStep ==
  ASSUME IInv, NEW tc \in Telecommand, NEW kind \in Intermediates, Intermediate(tc, kind)
  PROVE  IInv'
<1>1. kind \in ReplyKind
  BY CommandingAssumption DEF ReplyKind
<1>2. /\ action[tc] \in {"executing", "underway"} /\ action' = [action EXCEPT ![tc] = "underway"]
      /\ Reply(target[tc], tc, <<kind>>)
      /\ UNCHANGED <<target, sent, packets, requestQueue, commandMap, service, objectQueue, reports>>
  BY DEF Intermediate, ground
<1> QED BY <1>1, <1>2, ActionReplies

LEMMA FinishStep ==
  ASSUME IInv, NEW tc \in Telecommand, NEW kind \in {"COMPLETION_SUCCESS", "COMPLETION_FAILED"},
         Finish(tc, kind)
  PROVE  IInv'
<1>1. kind \in ReplyKind
  BY DEF ReplyKind
<1>2. /\ action[tc] \in {"executing", "underway"} /\ action' = [action EXCEPT ![tc] = "idle"]
      /\ Reply(target[tc], tc, <<kind>>)
      /\ UNCHANGED <<target, sent, packets, requestQueue, commandMap, service, objectQueue, reports>>
  BY DEF Finish, ground
<1> QED BY <1>1, <1>2, ActionReplies

-----------------------------------------------------------------------------
(***************************************************************************)
(* The invariant.                                                          *)
(***************************************************************************)
LEMMA InitIInv == Init => IInv
<1> SUFFICES ASSUME Init PROVE IInv
  OBVIOUS
<1>2. Typed
  BY CommandingAssumption DEF Init, Typed, In, Service, Loop, NoTc, Telecommand
<1>3. Entries
  BY DEF Init, Entries, OneEntry, ForItsObject, Position, In
<1>4. \A tc \in Telecommand : tc > 0 /\ ~(tc <= 0)
  BY DEF Telecommand
<1>5. Placed
  BY <1>4 DEF Init, Placed, HasVerdict, Waits, Starts, In
<1>6. Ordered
  BY DEF Init, Ordered, In
<1>7. Objects
  BY DEF Init, Objects
<1>8. OneVerdict /\ StartsInOrder
  BY DEF Init, OneVerdict, StartsInOrder
<1> QED BY <1>2, <1>3, <1>5, <1>6, <1>7, <1>8 DEF IInv

LEMMA StepIInv == IInv /\ [Next]_vars => IInv'
<1> SUFFICES ASSUME IInv, [Next]_vars PROVE IInv'
  OBVIOUS
<1>1. CASE SendTelecommand
  BY <1>1, SendTelecommandStep
<1>2. CASE PerformOperation
  BY <1>2, HandleCommandMessageStep, CommandQueueEmptyStep, HandleRequestStep,
     RequestQueueEmptyStep, StartExecutionStep, CheckTimeoutStep, TimeoutsCheckedStep
     DEF PerformOperation
<1>3. CASE ObjectStep
  BY <1>3, ExecuteActionStep, IntermediateStep, FinishStep DEF ObjectStep
<1>4. CASE UNCHANGED vars
  BY <1>4 DEF vars, IInv, Typed, Entries, OneEntry, ForItsObject, Position, Placed, Ordered,
     Objects, Told, OneVerdict, StartsInOrder, Current, Waits, WaitsIn, Starts, Active, Taken, HasVerdict
<1> QED BY <1>1, <1>2, <1>3, <1>4 DEF Next

\* The inductive invariant of the service, its queues and the objects holds in
\* every state, for whatever order loops and objects take turns in.
THEOREM Invariant == Spec => []IInv
<1> QED BY InitIInv, StepIInv, PTL DEF Spec

-----------------------------------------------------------------------------
(***************************************************************************)
(* What follows from it.                                                   *)
(***************************************************************************)
LEMMA IInvTypeOK == IInv => TypeOK
<1> SUFFICES ASSUME IInv PROVE TypeOK
  OBVIOUS
<1>1. \A i \in DOMAIN commandQueue : commandQueue[i] \in Message
  BY ElementOfSeq, LenProperties DEF IInv, Typed
<1>2. \A i \in DOMAIN commandMap :
        /\ commandMap[i] \in Info /\ Len(commandMap[i].fifo) <= CommandInfoFifoDepth
        /\ Find(commandMap[i].queue) = i
  BY MapTyped, FindEntry DEF IInv, Typed
<1>3. service \in Service
  BY DEF IInv, Typed
<1>4. \A o \in Object : objectQueue[o] \in Seq(Telecommand) /\ Len(objectQueue[o]) <= ObjectQueueDepth
  BY DEF IInv, Typed
<1>5. \A tc \in Telecommand : /\ action[tc] \in {"idle", "executing", "underway", "finished"}
                              /\ reports[tc] \in Seq(ReportKind)
  BY DEF IInv, Typed
<1>6. /\ target \in [Telecommand -> Object \cup {"NO_OBJECT"}]
      /\ sent \in 0 .. NTelecommands
      /\ packets \subseteq Telecommand
      /\ requestQueue \in Seq(Telecommand) /\ Len(requestQueue) <= RequestQueueDepth
      /\ Len(commandQueue) <= CommandQueueDepth
      /\ Len(commandMap) <= NumberOfParallelCommands
  BY DEF IInv, Typed
<1> QED BY <1>1, <1>2, <1>3, <1>4, <1>5, <1>6
      DEF TypeOK, Message, ReplyKind, Info, Service, Loop, ReportKind

\* The telecommands of an entry are for its object, the active one is its current one
LEMMA InEntry ==
  ASSUME IInv, NEW tc \in Telecommand, NEW i \in DOMAIN commandMap,
         WaitsIn(tc, i) \/ Active(tc, i)
  PROVE  target[tc] = commandMap[i].queue
<1>1. CASE WaitsIn(tc, i)
  BY <1>1 DEF WaitsIn, IInv, Entries, ForItsObject
<1>2. CASE Active(tc, i)
  <2>1. Current(i) = tc
    BY <1>2 DEF Active, Current
  <2> QED BY <2>1 DEF IInv, Entries, ForItsObject
<1> QED BY <1>1, <1>2

LEMMA IInvInHand == IInv => InHand
<1> SUFFICES ASSUME IInv, NEW tc \in 1 .. sent
             PROVE  /\ ~HasVerdict(tc) <=>
                         \/ Waits(tc) \/ Starts(tc)
                         \/ \E i \in DOMAIN commandMap : WaitsIn(tc, i) \/ Active(tc, i)
                    /\ tc \in packets <=> reports[tc] = << >>
                    /\ \A i, j \in DOMAIN commandMap :
                         (WaitsIn(tc, i) \/ Active(tc, i)) /\ (WaitsIn(tc, j) \/ Active(tc, j)) => i = j
  BY DEF InHand
<1>1. tc \in Telecommand /\ tc <= sent /\ ~(tc > sent)
  BY CommandingAssumption DEF IInv, Typed, Telecommand
<1>2. reports[tc] = << >> => ~HasVerdict(tc)
  BY DEF HasVerdict
<1>3. ~HasVerdict(tc) <=> \/ Waits(tc) \/ Starts(tc)
                          \/ \E i \in DOMAIN commandMap : WaitsIn(tc, i) \/ Active(tc, i)
  BY <1>1, <1>2 DEF IInv, Placed
<1>4. tc \in packets <=> reports[tc] = << >>
  BY <1>1 DEF IInv, Placed
<1>5. \A i, j \in DOMAIN commandMap :
        (WaitsIn(tc, i) \/ Active(tc, i)) /\ (WaitsIn(tc, j) \/ Active(tc, j)) => i = j
  BY <1>1, InEntry DEF IInv, Entries, OneEntry
<1> QED BY <1>3, <1>4, <1>5

\* The reply is taken for the telecommand it is for, if that is not decided
LEMMA ReplyStep ==
  ASSUME IInv, [Next]_vars, NEW tc \in Telecommand, service.step = "commands",
         reports'[tc] # reports[tc], ~HasVerdict(Head(commandQueue).for)
  PROVE  Head(commandQueue).for = tc
<1> DEFINE reply == Head(commandQueue)
           i == Find(reply.sender)
<1>1. HandleCommandMessage
  <2>1. reports' # reports
    OBVIOUS
  <2>2. PerformOperation
    BY <2>1 DEF Next, SendTelecommand, ObjectStep, ExecuteAction, Intermediate, Finish, vars
  <2> QED BY <2>1, <2>2 DEF PerformOperation, CommandQueueEmpty, HandleRequest, RequestQueueEmpty,
        StartExecution, CheckTimeout, TimeoutsChecked
<1>2. commandQueue # << >> /\ commandQueue \in Seq(Message)
  BY <1>1 DEF HandleCommandMessage, IInv, Typed
<1>3. /\ reply \in Message /\ reply = commandQueue[1] /\ 1 \in DOMAIN commandQueue
  BY <1>2, HeadTailProperties, LenProperties, EmptySeq
<1>4. /\ reply.for \in Telecommand /\ target[reply.for] = reply.sender
      /\ reports[reply.for] # << >>
  BY <1>3 DEF Message, IInv, Objects, Told
<1>5. PICK j \in DOMAIN commandMap : Active(reply.for, j)
  BY <1>4 DEF IInv, Placed
<1>6. commandMap[j].queue = reply.sender
  BY <1>4, <1>5, InEntry
<1>7. j = i /\ i # 0
  BY <1>6, FindEntry, MapTyped
<1>8. commandMap[i].tc = reply.for
  BY <1>5, <1>7 DEF Active
<1>9. PICK report : Report(commandMap[i].tc, <<report>>)
  BY <1>1, <1>7 DEF HandleCommandMessage
<1>10. tc = commandMap[i].tc
  BY <1>9 DEF Report, IInv, Typed
<1> QED BY <1>8, <1>10

-----------------------------------------------------------------------------
\* The queues, the map and the FIFOs never hold more than their capacity, and
\* FixedMap never has two entries for one object.
THEOREM TypeCorrect == Spec => []TypeOK
<1> QED BY Invariant, IInvTypeOK, PTL

\* A telecommand is reported on in the order of PUS Service 1: its start first,
\* and after its verdict nothing more.
THEOREM Verdict == Spec => []OneVerdict
<1>1. IInv => OneVerdict
  BY DEF IInv
<1> QED BY Invariant, <1>1, PTL

\* A telecommand without a verdict is in the hands of the service, in one place
\* in the map only, and its packet is in the TC store until it is started.
THEOREM NothingForgotten == Spec => []InHand
<1> QED BY Invariant, IInvInHand, PTL

\* Commands for one object are started in the order they were sent in: neither
\* the FIFO nor FixedMap::erase, which moves the last entry, lets one overtake.
THEOREM InOrder == Spec => []StartsInOrder
<1>1. IInv => StartsInOrder
  BY DEF IInv
<1> QED BY Invariant, <1>1, PTL

\* handleCommandQueue takes a reply for the active command of its sender. That
\* is the wrong telecommand only if the right one has its verdict already.
THEOREM NoMixUp == Spec => RepliesAreNotMixedUp
<1> DEFINE Mixed == \A tc \in Telecommand :
             service.step = "commands" /\ reports'[tc] # reports[tc] =>
               LET for == Head(commandQueue).for IN for = tc \/ HasVerdict(for)
<1>1. IInv /\ [Next]_vars => [Mixed]_vars
  <2> SUFFICES ASSUME IInv, [Next]_vars PROVE Mixed
    OBVIOUS
  <2> QED BY ReplyStep
<1>2. RepliesAreNotMixedUp <=> [][Mixed]_vars
  BY DEF RepliesAreNotMixedUp
<1> HIDE DEF Mixed
<1> QED BY Invariant, <1>1, <1>2, PTL DEF Spec
=============================================================================
