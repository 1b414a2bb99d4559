---------------------------- MODULE Housekeeping ----------------------------
(***************************************************************************)
(* Service 3, the housekeeping service on PusServiceBase.  It keeps the    *)
(* report definitions in a LocalPool of its own and finds them by their    *)
(* structure id (SID) in one of two FixedMaps: housekeeping reports, which *)
(* are looked at every HK_INTERV_FACTOR cycles, and diagnostics reports,   *)
(* looked at in every cycle.  One task runs the service: it handles the    *)
(* telecommands in its queue, then generates the reports that are due.     *)
(*                                                                         *)
(* Times are in diagnostics ticks (one cycle of the service, thought to    *)
(* last 0.2 s), HK_INTERV_FACTOR of which make one second.  Of a report's  *)
(* parameters the model keeps how many there are and whether the data pool *)
(* knows them all.                                                         *)
(***************************************************************************)
EXTENDS Integers, Sequences, FiniteSets

CONSTANTS
  Sid,                \* structure ids
  MaxDefinitions,     \* kind -> capacity of its map
  ElementSizes,       \* SIZE_OF_HK_ELEMENTS, in parameters
  NElements,          \* NUMBER_OF_HK_ELEMENTS
  HK_INTERV_FACTOR,   \* cycles between two looks at the housekeeping map
  Interval,           \* collection intervals the ground asks for, in ticks
  Predefined,         \* SID of the report that hkInit adds at start-up
  PredefinedInterval, \* and its collection interval
  GapBound,           \* the clock of the last report stops here
  Free                \* an element of hkPool without a definition

Kind == {"hk", "diagnostics"}

ASSUME HousekeepingAssumption ==
  /\ MaxDefinitions \in [Kind -> Nat \ {0}]
  /\ ElementSizes \in Seq(Nat) /\ NElements \in Seq(Nat)
  /\ Len(ElementSizes) = Len(NElements)
  /\ HK_INTERV_FACTOR \in Nat \ {0}
  /\ Interval \subseteq Nat
  /\ Predefined \in Sid /\ PredefinedInterval \in Nat
  /\ GapBound \in Nat

\* The clock of the last report goes on for longer than any interval lasts
ASSUME GapBoundAssumption ==
  \A interval \in Interval \cup {PredefinedInterval} :
    interval + HK_INTERV_FACTOR <= GapBound + 1

Address == UNION {{<<pool, index>> : index \in 1 .. NElements[pool]} :
                  pool \in DOMAIN NElements}

\* HkPacketDefinition as kept in the pool
Definition == [interval : Nat, known : BOOLEAN, enabled : BOOLEAN, cycleCounter : Nat]

\* There is room for the report of hkInit
ASSUME PoolAssumption == <<1, 1>> \in Address /\ Free \notin Definition

VARIABLES
  hkPool,             \* element -> definition or Free
  sidMap,             \* kind -> entries of sidHkMap, sidDiagnosticsMap in order
  intervalCounter,
  crashed,            \* the process was ended by an access through NULL
  watched,            \* any one structure, as <<kind, SID>>, that the two
                      \* clocks below follow
  gap,                \* cycles since its last periodic report
  waited              \* ... since that or the last command that changed it

vars == <<hkPool, sidMap, intervalCounter, crashed, watched, gap, waited>>

Entries(kind) == {sidMap[kind][i] : i \in DOMAIN sidMap[kind]}
Known(kind, sid) == \E e \in Entries(kind) : e.sid = sid
storeId(kind, sid) == (CHOOSE e \in Entries(kind) : e.sid = sid).storeId

(***************************************************************************)
(* FixedMap::insert appends; erase moves the last entry into the gap.      *)
(***************************************************************************)
insert(map, sid, address) == Append(map, [sid |-> sid, storeId |-> address])
erase(map, sid) ==
  [i \in 1 .. Len(map) - 1 |-> IF map[i].sid = sid THEN map[Len(map)] ELSE map[i]]

(***************************************************************************)
(* LocalPool::getFreeElement: the first free element of the first sub-pool *)
(* whose elements are large enough, and of no other (spillsToHigherPools   *)
(* is off).  A set of one address, or the empty set.                       *)
(***************************************************************************)
getPoolIndex(size) ==
  {n \in DOMAIN ElementSizes : /\ ElementSizes[n] >= size
                               /\ \A m \in 1 .. n - 1 : ElementSizes[m] < size}
getFreeElement(size) ==
  {a \in Address : /\ a[1] \in getPoolIndex(size)
                   /\ hkPool[a] = Free
                   /\ \A i \in 1 .. a[2] - 1 : hkPool[<<a[1], i>>] # Free}

checkSidMap_NeverFull(kind, sid) == ~Known(kind, sid)
checkSidMap(kind, sid) == /\ Len(sidMap[kind]) < MaxDefinitions[kind]
                          /\ ~Known(kind, sid)

\* INTERVAL_SECONDS_TO_INTERVAL: how many looks at its map make an interval
IntervalInTicks(kind, interval) ==
  IF kind = "diagnostics" THEN interval
  ELSE (interval + HK_INTERV_FACTOR - 1) \div HK_INTERV_FACTOR

\* getInterval_seconds() returns an integer: the fraction of a second is lost
WholeSeconds(interval) == (interval \div HK_INTERV_FACTOR) * HK_INTERV_FACTOR

Fresh(interval, known, enabled) ==
  [interval |-> interval, known |-> known, enabled |-> enabled, cycleCounter |-> 1]

(***************************************************************************)
(* The constructor and hkInit, before the tasks start.                     *)
(***************************************************************************)
Init ==
  /\ hkPool = [a \in Address |-> IF a = <<1, 1>> THEN Fresh(PredefinedInterval, TRUE, TRUE)
                                                 ELSE Free]
  /\ sidMap = [k \in Kind |-> IF k = "hk" THEN insert(<<>>, Predefined, <<1, 1>>) ELSE <<>>]
  /\ intervalCounter = 1
  /\ crashed = FALSE
  /\ watched \in Kind \X Sid
  /\ gap = GapBound
  /\ waited = 0

-----------------------------------------------------------------------------
(***************************************************************************)
(* PusServiceBase::handleRequestQueue takes one telecommand: handleRequest *)
(* and the completion report, whose verdict is the result.                 *)
(***************************************************************************)
Handles == /\ ~crashed
           /\ UNCHANGED <<intervalCounter, crashed, watched, gap>>
Unchanged == Handles /\ UNCHANGED <<hkPool, sidMap, waited>>
Changes(kind, sid) ==
  /\ Handles
  /\ waited' = IF <<kind, sid>> = watched THEN 0 ELSE waited

\* ADD_HK_REPORT_STRUCTURE, ADD_DIAGNOSTICS_REPORT_STRUCTURE
AddReportStructure(kind, sid, interval, size, known) ==
  LET free == getFreeElement(size)
  IN  \/ /\ ~checkSidMap(kind, sid) \/ free = {}
         /\ Unchanged
      \/ /\ checkSidMap(kind, sid)
         /\ \E a \in free :
              /\ hkPool' = [hkPool EXCEPT ![a] = Fresh(interval, known, FALSE)]
              /\ sidMap' = [sidMap EXCEPT ![kind] = insert(@, sid, a)]
         /\ Changes(kind, sid)

\* deleteReportStructure, also by what appendParametersToReport executes
deleteReportStructure_Leak(kind, sid) ==
  UNCHANGED hkPool /\ sidMap' = [sidMap EXCEPT ![kind] = erase(@, sid)]
deleteReportStructure(kind, sid) ==
  /\ hkPool' = [hkPool EXCEPT ![storeId(kind, sid)] = Free]
  /\ sidMap' = [sidMap EXCEPT ![kind] = erase(@, sid)]

DeleteReportStructure(kind, sid) ==
  \/ ~Known(kind, sid) /\ Unchanged
  \/ /\ Known(kind, sid)
     /\ deleteReportStructure(kind, sid)
     /\ Changes(kind, sid)

\* APPEND_PARAMETERS...: the new definition is made, the old one deleted, and
\* the function returns before it adds the new one
AppendParametersToReport(kind, sid) ==
  \/ ~Known(kind, sid) /\ Unchanged
  \/ /\ Known(kind, sid)
     /\ deleteReportStructure(kind, sid)
     /\ Changes(kind, sid)

\* ENABLE_..., DISABLE_PERIODIC_..._REPORT_GENERATION: the counter stays
SwitchPeriodicReportGeneration(kind, sid, enable) ==
  \/ ~Known(kind, sid) /\ Unchanged
  \/ /\ Known(kind, sid)
     /\ hkPool' = [hkPool EXCEPT ![storeId(kind, sid)].enabled = enable]
     /\ Changes(kind, sid)
     /\ UNCHANGED sidMap

\* MODIFY_..._COLLECTION_INTERVAL
ModifyCollectionInterval(kind, sid, interval) ==
  \/ ~Known(kind, sid) /\ Unchanged
  \/ /\ Known(kind, sid)
     /\ hkPool' = [hkPool EXCEPT ![storeId(kind, sid)].interval = WholeSeconds(interval)]
     /\ Changes(kind, sid)
     /\ UNCHANGED sidMap

\* GENERATE_ONE_...: a parameter that the pool does not know is an error, a
\* report that cannot be stored or sent is not
GenerateOneParameterReport(kind, sid) ==
  Unchanged

\* REPORT_..._REPORT_STRUCTURES: fails if it cannot be stored or sent
HandleStructureReporting(kind, sid) ==
  Unchanged

HandleRequest(kind, sid) ==
  \/ \E interval \in Interval, size \in 1 .. 1 + ElementSizes[1], known \in BOOLEAN :
       AddReportStructure(kind, sid, interval, size, known)
  \/ DeleteReportStructure(kind, sid)
  \/ AppendParametersToReport(kind, sid)
  \/ \E enable \in BOOLEAN : SwitchPeriodicReportGeneration(kind, sid, enable)
  \/ \E interval \in Interval : ModifyCollectionInterval(kind, sid, interval)
  \/ GenerateOneParameterReport(kind, sid)
  \/ HandleStructureReporting(kind, sid)

-----------------------------------------------------------------------------
(***************************************************************************)
(* performService: one cycle.  A report that cannot be generated, stored   *)
(* or sent is put into errCountMap; FixedMap::find leaves the pointer NULL *)
(* for a SID that is not in it, and initializeErrorMapEntry writes through *)
(* it.  So errCountMap is always empty, and checkErrorMap finds nothing.   *)
(***************************************************************************)
Checked(kind) == kind = "diagnostics" \/ intervalCounter = HK_INTERV_FACTOR

Due_OneLate(kind, d) == d.enabled /\ d.cycleCounter > IntervalInTicks(kind, d.interval)
Due(kind, d) == /\ d.enabled
                /\ d.cycleCounter >= IntervalInTicks(kind, d.interval)

\* checkHkPacketGeneration, with a report that is sent
checkHkPacketGeneration_NoReset(kind, d) ==
  IF d.enabled /\ ~Due(kind, d) THEN [d EXCEPT !.cycleCounter = @ + 1] ELSE d
checkHkPacketGeneration(kind, d) ==
  IF Due(kind, d) THEN [d EXCEPT !.cycleCounter = 1]
  ELSE IF d.enabled THEN [d EXCEPT !.cycleCounter = @ + 1]
  ELSE d

Enabled(kind, sid) == Known(kind, sid) /\ hkPool[storeId(kind, sid)].enabled

\* the entries, as <<kind, SID>>, whose report this cycle generates
DueNow == {e \in Kind \X Sid :
             /\ Checked(e[1]) /\ Known(e[1], e[2])
             /\ Due(e[1], hkPool[storeId(e[1], e[2])])}

Later(clock) == IF clock < GapBound THEN clock + 1 ELSE GapBound

\* the map, if it is looked at in this cycle, with the definition in element a
Holder(a) == {k \in Kind : Checked(k) /\ \E e \in Entries(k) : e.storeId = a}

PerformService ==
  /\ ~crashed
  /\ \A e \in DueNow : hkPool[storeId(e[1], e[2])].known
  /\ hkPool' = [a \in Address |->
                  IF Holder(a) = {} THEN hkPool[a]
                  ELSE checkHkPacketGeneration(CHOOSE k \in Holder(a) : TRUE, hkPool[a])]
  /\ intervalCounter' = IF Checked("hk") THEN 1 ELSE intervalCounter + 1
  /\ gap' = IF watched \in DueNow THEN 0 ELSE Later(gap)
  /\ waited' = IF Enabled(watched[1], watched[2]) /\ watched \notin DueNow
               THEN waited + 1 ELSE 0
  /\ UNCHANGED <<sidMap, crashed, watched>>

\* handleHkPacketGeneration or sendHkPacket fails, for one of the due reports
ReportFails ==
  /\ ~crashed
  /\ DueNow # {}
  /\ crashed' = TRUE
  /\ UNCHANGED <<hkPool, sidMap, intervalCounter, watched, gap, waited>>

Next == \/ \E kind \in Kind, sid \in Sid : HandleRequest(kind, sid)
        \/ PerformService
        \/ ReportFails

Spec == Init /\ [][Next]_vars

-----------------------------------------------------------------------------
\* The elements of hkPool, the entries of both maps and the counters are in
\* range.
TypeOK ==
  /\ hkPool \in [Address -> Definition \cup {Free}]
  /\ \A k \in Kind : /\ Len(sidMap[k]) \in 0 .. MaxDefinitions[k]
                      /\ Entries(k) \subseteq [sid : Sid, storeId : Address]
  /\ intervalCounter \in 1 .. HK_INTERV_FACTOR
  /\ crashed \in BOOLEAN
  /\ watched \in Kind \X Sid
  /\ gap \in 0 .. GapBound
  /\ waited \in Nat

\* Every definition in hkPool belongs to exactly one entry of the two maps that
\* share the pool, and every entry to a definition: no command leaks an element,
\* none leaves a store id behind that getData would refuse.
PoolMatchesMaps ==
  /\ \A a \in Address :
       hkPool[a] # Free <=> \E k \in Kind : \E e \in Entries(k) : e.storeId = a
  /\ \A k, l \in Kind : \A i \in DOMAIN sidMap[k], j \in DOMAIN sidMap[l] :
       sidMap[k][i].storeId = sidMap[l][j].storeId => k = l /\ i = j
  /\ \A k \in Kind : \A i, j \in DOMAIN sidMap[k] :
       sidMap[k][i].sid = sidMap[k][j].sid => i = j

\* cycles that an interval of a definition stands for
Period(kind, d) ==
  LET ticks == IntervalInTicks(kind, d.interval)
  IN  (IF kind = "hk" THEN HK_INTERV_FACTOR ELSE 1) * (IF ticks = 0 THEN 1 ELSE ticks)

\* A definition that is enabled is reported within one collection interval of
\* its last report or of the last command that named it, whatever is added,
\* deleted and changed around it.
NotLate ==
  LET k == watched[1]
      s == watched[2]
  IN  Enabled(k, s) => waited < Period(k, hkPool[storeId(k, s)])

\* Two periodic reports of a structure are a whole interval apart, also when
\* it was disabled and enabled, changed, or deleted and added in between: no
\* sequence of commands makes the service report more often than it is told.
ReportsApart ==
  [][intervalCounter' # intervalCounter =>
       \A e \in DueNow \cap {watched} :
         gap + 1 >= Period(e[1], hkPool[storeId(e[1], e[2])])]_vars

=============================================================================
