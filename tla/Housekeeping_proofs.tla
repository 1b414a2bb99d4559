------------------------- MODULE Housekeeping_proofs -------------------------
(***************************************************************************)
(* Proofs about Housekeeping: for any number of structures, capacities of  *)
(* the maps, pool layout and intervals.                                    *)
(***************************************************************************)
EXTENDS Housekeeping, SequenceTheorems, TLAPS

Entry == [sid : Sid, storeId : Address]

(***************************************************************************)
(* The inductive invariant.  Looks of the service at the map of the        *)
(* watched structure are Look cycles apart, and Phase cycles have passed   *)
(* since the last one.                                                     *)
(***************************************************************************)
Look == IF watched[1] = "hk" THEN HK_INTERV_FACTOR ELSE 1
Phase == IF watched[1] = "hk" THEN intervalCounter - 1 ELSE 0

Typed ==
  /\ hkPool \in [Address -> Definition \cup {Free}]
  /\ sidMap \in [Kind -> Seq(Entry)]
  /\ \A k \in Kind : Len(sidMap[k]) <= MaxDefinitions[k]
  /\ intervalCounter \in 1 .. HK_INTERV_FACTOR
  /\ crashed \in BOOLEAN
  /\ watched \in Kind \X Sid
  /\ gap \in 0 .. GapBound
  /\ waited \in Nat

\* Counters start at 1, and no interval is longer than what was asked for
Reasonable(d) == d.cycleCounter >= 1 /\ d.interval + HK_INTERV_FACTOR <= GapBound + 1
Definitions == \A a \in Address : hkPool[a] # Free => Reasonable(hkPool[a])

\* The definition of the watched structure, and how its counter, the counter
\* of the service and the two clocks go together: each look that found it
\* enabled and not due has counted, and none of them is older than the last report
Watched(d) == \E i \in DOMAIN sidMap[watched[1]] :
                /\ sidMap[watched[1]][i].sid = watched[2]
                /\ d = hkPool[sidMap[watched[1]][i].storeId]
Counted(d) == (d.cycleCounter - 1) * Look + Phase
Apart(d) == gap = GapBound \/ gap >= Counted(d)
InTime(d) == d.enabled => \/ waited <= Phase
                          \/ /\ d.cycleCounter <= IntervalInTicks(watched[1], d.interval)
                             /\ waited <= Counted(d)
Clocks == /\ gap = GapBound \/ gap >= Phase
          /\ \A d \in Definition : Watched(d) => Apart(d) /\ InTime(d)

IInv == Typed /\ PoolMatchesMaps /\ Definitions /\ Clocks

-----------------------------------------------------------------------------
\* There are two maps
LEMMA KindTyped == Kind = {"hk", "diagnostics"} /\ \A k \in Kind : k = "hk" \/ k = "diagnostics"
BY DEF Kind

\* An entry is found again by its structure id
LEMMA StoreIdOf ==
  ASSUME IInv, NEW kind \in Kind, NEW i \in DOMAIN sidMap[kind]
  PROVE  /\ Known(kind, sidMap[kind][i].sid)
         /\ storeId(kind, sidMap[kind][i].sid) = sidMap[kind][i].storeId
<1> DEFINE e == sidMap[kind][i]
<1>1. e \in Entries(kind) /\ e.sid = sidMap[kind][i].sid
  BY DEF Entries
<1>2. ASSUME NEW f \in Entries(kind), f.sid = e.sid PROVE f = e
  BY <1>2 DEF Entries, IInv, PoolMatchesMaps
<1> HIDE DEF e
<1> QED BY <1>1, <1>2 DEF Known, storeId, e

\* and a structure that is known has an entry
LEMMA EntryOf ==
  ASSUME IInv, NEW kind \in Kind, NEW sid \in Sid, Known(kind, sid)
  PROVE  \E i \in DOMAIN sidMap[kind] : /\ sidMap[kind][i].sid = sid
                                        /\ storeId(kind, sid) = sidMap[kind][i].storeId
<1>1. PICK i \in DOMAIN sidMap[kind] : sidMap[kind][i].sid = sid
  BY DEF Known, Entries
<1> QED BY <1>1, StoreIdOf

\* The element of an entry has a definition
LEMMA InPool ==
  ASSUME IInv, NEW kind \in Kind, NEW i \in DOMAIN sidMap[kind]
  PROVE  /\ sidMap[kind][i] \in Entry
         /\ sidMap[kind][i].sid \in Sid
         /\ sidMap[kind][i].storeId \in Address
         /\ hkPool[sidMap[kind][i].storeId] \in Definition
         /\ Reasonable(hkPool[sidMap[kind][i].storeId])
<1>1. sidMap[kind] \in Seq(Entry)
  BY DEF IInv, Typed
<1>2. sidMap[kind][i] \in Entry
  BY <1>1, ElementOfSeq, LenProperties
<1>3. sidMap[kind][i].storeId \in Address /\ sidMap[kind][i].sid \in Sid
  BY <1>2 DEF Entry
<1>4. hkPool[sidMap[kind][i].storeId] # Free
  BY <1>3 DEF IInv, PoolMatchesMaps, Entries
<1> QED BY <1>2, <1>3, <1>4 DEF IInv, Typed, Definitions

-----------------------------------------------------------------------------
\* A map from which an entry was erased has the other ones, each of them once
LEMMA Erased ==
  ASSUME NEW map \in Seq(Entry), NEW p \in 1 .. Len(map),
         \A i, j \in 1 .. Len(map) : map[i].sid = map[j].sid => i = j
  PROVE  LET next == erase(map, map[p].sid) IN
         /\ next \in Seq(Entry) /\ Len(next) = Len(map) - 1
         /\ \A i \in 1 .. Len(next) : \E q \in 1 .. Len(map) : q # p /\ next[i] = map[q]
         /\ \A q \in 1 .. Len(map) : q # p => \E i \in 1 .. Len(next) : next[i] = map[q]
         /\ \A i, j \in 1 .. Len(next) : next[i].sid = next[j].sid => i = j
<1> DEFINE next == erase(map, map[p].sid)
<1>1. Len(map) \in Nat \ {0} /\ \A i \in 1 .. Len(map) : map[i] \in Entry
  OBVIOUS
<1>2. \A i \in 1 .. Len(map) : map[i].sid = map[p].sid <=> i = p
  OBVIOUS
<1>3. next = [i \in 1 .. Len(map) - 1 |-> IF i = p THEN map[Len(map)] ELSE map[i]]
  BY <1>1, <1>2 DEF erase
<1>4. next \in [1 .. Len(map) - 1 -> Entry]
  BY <1>1, <1>3
<1>5. /\ next \in Seq(Entry) /\ Len(next) = Len(map) - 1
      /\ \A i \in 1 .. Len(next) : next[i] = IF i = p THEN map[Len(map)] ELSE map[i]
  BY <1>1, <1>3, <1>4
<1> HIDE DEF next
<1>6. ASSUME NEW i \in 1 .. Len(next)
      PROVE  \E q \in 1 .. Len(map) : q # p /\ next[i] = map[q]
  <2>1. CASE i = p
    BY <1>1, <1>5, <2>1
  <2>2. CASE i # p
    BY <1>1, <1>5, <2>2
  <2> QED BY <2>1, <2>2
<1>7. ASSUME NEW q \in 1 .. Len(map), q # p
      PROVE  \E i \in 1 .. Len(next) : next[i] = map[q]
  <2>1. CASE q = Len(map)
    BY <1>1, <1>5, <1>7, <2>1
  <2>2. CASE q # Len(map)
    BY <1>1, <1>5, <1>7, <2>2
  <2> QED BY <2>1, <2>2
<1>8. ASSUME NEW i \in 1 .. Len(next), NEW j \in 1 .. Len(next), next[i].sid = next[j].sid
      PROVE  i = j
  <2> DEFINE q(k) == IF k = p THEN Len(map) ELSE k
  <2>1. /\ q(i) \in 1 .. Len(map) /\ q(j) \in 1 .. Len(map)
        /\ q(i) = q(j) => i = j
    BY <1>1, <1>5
  <2>2. next[i] = map[q(i)] /\ next[j] = map[q(j)]
    BY <1>5
  <2> HIDE DEF q
  <2> QED BY <1>8, <2>1, <2>2
<1> QED BY <1>5, <1>6, <1>7, <1>8 DEF next

-----------------------------------------------------------------------------
\* The service's counter and the clocks are in range
LEMMA Phases ==
  ASSUME IInv
  PROVE  /\ Look \in Nat \ {0} /\ Phase \in Nat /\ Phase < Look
         /\ \A c \in Nat \ {0} : (c - 1) * Look \in Nat
         /\ watched[1] \in Kind /\ watched[2] \in Sid /\ watched = <<watched[1], watched[2]>>
         /\ gap \in Nat /\ waited \in Nat /\ GapBound \in Nat
<1>1. intervalCounter \in 1 .. HK_INTERV_FACTOR /\ HK_INTERV_FACTOR \in Nat \ {0}
  BY HousekeepingAssumption DEF IInv, Typed
<1>2. Look \in Nat \ {0} /\ Phase \in Nat /\ Phase < Look
  BY <1>1 DEF Look, Phase
<1>3. ASSUME NEW l \in Nat, NEW c \in Nat \ {0} PROVE (c - 1) * l \in Nat
  OBVIOUS
<1> QED BY <1>2, <1>3, HousekeepingAssumption DEF IInv, Typed

\* The clocks go together with the counters after a command if it leaves the
\* watched definition alone, or starts the clock of the last change
LEMMA ClocksCommanded ==
  ASSUME IInv, UNCHANGED <<intervalCounter, watched, gap>>,
         \A d \in Definition : Watched(d)' =>
           \/ waited' = waited /\ Watched(d)
           \/ /\ waited' = 0
              /\ \/ d.cycleCounter = 1
                 \/ \E old \in Definition : Watched(old) /\ d.cycleCounter = old.cycleCounter
  PROVE  Clocks'
<1>1. Look' = Look /\ Phase' = Phase
  BY DEF Look, Phase
<1>2. gap = GapBound \/ gap >= Phase
  BY DEF IInv, Clocks
<1>3. ASSUME NEW d \in Definition, Watched(d)'
      PROVE  Apart(d)' /\ InTime(d)'
  <2>1. Counted(d)' = Counted(d)
    BY <1>1 DEF Counted
  <2>2. CASE waited' = waited /\ Watched(d)
    BY <1>1, <2>1, <2>2 DEF IInv, Clocks, Apart, InTime
  <2>3. CASE waited' = 0 /\ d.cycleCounter = 1
    <3>1. Counted(d) = Phase
      BY <2>3, Phases DEF Counted
    <3> QED BY <1>1, <1>2, <2>1, <2>3, <3>1, Phases DEF Apart, InTime
  <2>4. CASE /\ waited' = 0
             /\ \E old \in Definition : Watched(old) /\ d.cycleCounter = old.cycleCounter
    <3>1. PICK old \in Definition : Watched(old) /\ d.cycleCounter = old.cycleCounter
      BY <2>4
    <3>2. Apart(old) /\ Counted(old) = Counted(d)
      BY <3>1 DEF IInv, Clocks, Counted
    <3>3. Apart(d)'
      BY <2>1, <3>2 DEF Apart
    <3> QED BY <1>1, <2>4, <3>3, Phases DEF InTime
  <2> QED BY <1>3, <2>2, <2>3, <2>4
<1> QED BY <1>1, <1>2, <1>3 DEF Clocks

\* A definition for a structure not yet known, in a free element
LEMMA Added ==
  ASSUME IInv, NEW kind \in Kind, NEW sid \in Sid, NEW a \in Address, NEW d \in Definition,
         hkPool[a] = Free, checkSidMap(kind, sid), Reasonable(d), d.cycleCounter = 1,
         hkPool' = [hkPool EXCEPT ![a] = d],
         sidMap' = [sidMap EXCEPT ![kind] = insert(@, sid, a)],
         Changes(kind, sid)
  PROVE  IInv'
<1> DEFINE entry == [sid |-> sid, storeId |-> a]
           n == Len(sidMap[kind])
<1>1. /\ sidMap \in [Kind -> Seq(Entry)] /\ hkPool \in [Address -> Definition \cup {Free}]
      /\ entry \in Entry /\ entry.sid = sid /\ entry.storeId = a
      /\ MaxDefinitions[kind] \in Nat /\ n < MaxDefinitions[kind]
      /\ sidMap[kind] \in Seq(Entry) /\ n \in Nat
  <2>1. sidMap \in [Kind -> Seq(Entry)] /\ hkPool \in [Address -> Definition \cup {Free}]
    BY DEF IInv, Typed
  <2>2. entry \in Entry /\ entry.sid = sid /\ entry.storeId = a
    BY DEF Entry
  <2>3. MaxDefinitions[kind] \in Nat
    BY HousekeepingAssumption
  <2>4. n < MaxDefinitions[kind]
    BY DEF checkSidMap
  <2> QED BY <2>1, <2>2, <2>3, <2>4, LenProperties
<1>2. /\ sidMap'[kind] = Append(sidMap[kind], entry)
      /\ \A k \in Kind : k # kind => sidMap'[k] = sidMap[k]
      /\ sidMap' \in [Kind -> Seq(Entry)]
  BY <1>1 DEF insert
<1> HIDE DEF entry
<1>3. /\ Len(sidMap'[kind]) = n + 1 /\ sidMap'[kind][n + 1] = entry
      /\ \A i \in 1 .. n : sidMap'[kind][i] = sidMap[kind][i]
      /\ DOMAIN sidMap[kind] = 1 .. n /\ DOMAIN sidMap'[kind] = 1 .. n + 1
  BY <1>1, <1>2, AppendProperties, LenProperties
<1> HIDE DEF n
<1>4. /\ hkPool'[a] = d /\ d # Free
      /\ \A b \in Address : b # a => hkPool'[b] = hkPool[b]
      /\ hkPool' \in [Address -> Definition \cup {Free}]
  BY <1>1, PoolAssumption
<1>5. waited' \in {0, waited} /\ UNCHANGED <<intervalCounter, crashed, watched, gap>>
      /\ (watched # <<kind, sid>> => waited' = waited)
      /\ (watched = <<kind, sid>> => waited' = 0)
  BY DEF Changes, Handles
<1>6. Typed'
  <2>1. \A k \in Kind : Len(sidMap'[k]) <= MaxDefinitions[k]
    BY <1>1, <1>2, <1>3 DEF IInv, Typed
  <2> QED BY <1>2, <1>4, <1>5, <2>1 DEF IInv, Typed
<1>7. \A k \in Kind : \A i \in DOMAIN sidMap'[k] :
        \/ i \in DOMAIN sidMap[k] /\ sidMap'[k][i] = sidMap[k][i]
        \/ k = kind /\ i = n + 1 /\ sidMap'[k][i] = entry
  <2> TAKE k \in Kind
  <2>1. CASE k = kind
    <3> TAKE i \in DOMAIN sidMap'[k]
    <3>1. i \in 1 .. n \/ i = n + 1
      BY <2>1, <1>1, <1>3
    <3> QED BY <2>1, <3>1, <1>3
  <2>2. CASE k # kind
    BY <2>2, <1>2
  <2> QED BY <2>1, <2>2
<1>8. \A k \in Kind : \A i \in DOMAIN sidMap[k] :
        /\ i \in DOMAIN sidMap'[k] /\ sidMap'[k][i] = sidMap[k][i]
        /\ sidMap[k][i].storeId \in Address /\ sidMap[k][i].storeId # a
        /\ k = kind => sidMap[k][i].sid # sid
  <2> TAKE k \in Kind
  <2> TAKE i \in DOMAIN sidMap[k]
  <2>1. i \in DOMAIN sidMap'[k] /\ sidMap'[k][i] = sidMap[k][i]
    BY <1>1, <1>2, <1>3
  <2>2. sidMap[k][i].storeId \in Address /\ sidMap[k][i].storeId # a
    BY InPool, PoolAssumption
  <2>3. k = kind => sidMap[k][i].sid # sid
    BY DEF checkSidMap, Known, Entries
  <2> QED BY <2>1, <2>2, <2>3
<1>9. n + 1 \in DOMAIN sidMap'[kind]
  BY <1>1, <1>3
<1>10. PoolMatchesMaps'
  <2>1. ASSUME NEW b \in Address
        PROVE  hkPool'[b] # Free <=> \E k \in Kind : \E e \in Entries(k)' : e.storeId = b
    <3>1. CASE b = a
      BY <1>1, <1>3, <1>4, <1>9, <3>1 DEF Entries
    <3>2. CASE b # a
      <4>1. hkPool'[b] = hkPool[b]
        BY <1>4, <3>2
      <4>2. hkPool[b] # Free <=> \E k \in Kind : \E i \in DOMAIN sidMap[k] : sidMap[k][i].storeId = b
        BY DEF IInv, PoolMatchesMaps, Entries
      <4>3. (\E k \in Kind : \E i \in DOMAIN sidMap[k] : sidMap[k][i].storeId = b)
            <=> \E k \in Kind : \E i \in DOMAIN sidMap'[k] : sidMap'[k][i].storeId = b
        BY <1>1, <1>7, <1>8, <3>2
      <4> QED BY <4>1, <4>2, <4>3 DEF Entries
    <3> QED BY <3>1, <3>2
  <2>2. ASSUME NEW k \in Kind, NEW l \in Kind,
               NEW i \in DOMAIN sidMap'[k], NEW j \in DOMAIN sidMap'[l],
               sidMap'[k][i].storeId = sidMap'[l][j].storeId
        PROVE  k = l /\ i = j
    <3>1. CASE i \in DOMAIN sidMap[k] /\ j \in DOMAIN sidMap[l]
               /\ sidMap'[k][i] = sidMap[k][i] /\ sidMap'[l][j] = sidMap[l][j]
      BY <2>2, <3>1 DEF IInv, PoolMatchesMaps
    <3> QED BY <1>1, <1>7, <1>8, <2>2, <3>1
  <2>3. ASSUME NEW k \in Kind, NEW i \in DOMAIN sidMap'[k], NEW j \in DOMAIN sidMap'[k],
               sidMap'[k][i].sid = sidMap'[k][j].sid
        PROVE  i = j
    <3>1. CASE i \in DOMAIN sidMap[k] /\ j \in DOMAIN sidMap[k]
               /\ sidMap'[k][i] = sidMap[k][i] /\ sidMap'[k][j] = sidMap[k][j]
      BY <2>3, <3>1 DEF IInv, PoolMatchesMaps
    <3> QED BY <1>1, <1>7, <1>8, <2>3, <3>1
  <2> QED BY <2>1, <2>2, <2>3 DEF PoolMatchesMaps
<1>11. Definitions'
  BY <1>4 DEF IInv, Definitions, Reasonable
<1>12. ASSUME NEW w \in Definition, Watched(w)'
       PROVE  \/ waited' = waited /\ Watched(w)
              \/ waited' = 0 /\ w.cycleCounter = 1
  <2>1. watched' = watched /\ watched[1] \in Kind /\ watched = <<watched[1], watched[2]>>
    BY <1>5, Phases
  <2>2. PICK i \in DOMAIN sidMap'[watched[1]] :
          /\ sidMap'[watched[1]][i].sid = watched[2]
          /\ w = hkPool'[sidMap'[watched[1]][i].storeId]
    BY <1>12, <2>1 DEF Watched
  <2>3. CASE i \in DOMAIN sidMap[watched[1]] /\ sidMap'[watched[1]][i] = sidMap[watched[1]][i]
    <3>1. watched # <<kind, sid>>
      BY <1>8, <2>1, <2>2, <2>3
    <3>2. w = hkPool[sidMap[watched[1]][i].storeId]
      BY <1>4, <1>8, <2>1, <2>2, <2>3
    <3> QED BY <1>5, <2>2, <2>3, <3>1, <3>2 DEF Watched
  <2>4. CASE watched[1] = kind /\ sidMap'[watched[1]][i] = entry
    <3>1. watched = <<kind, sid>> /\ w = d
      BY <1>1, <1>4, <2>1, <2>2, <2>4
    <3> QED BY <1>5, <3>1
  <2> QED BY <1>7, <2>1, <2>3, <2>4
<1>13. Clocks'
  BY <1>5, <1>12, ClocksCommanded
<1> QED BY <1>6, <1>10, <1>11, <1>13 DEF IInv

\* A definition, and its entry, is deleted
LEMMA Deleted ==
  ASSUME IInv, NEW kind \in Kind, NEW sid \in Sid, Known(kind, sid),
         deleteReportStructure(kind, sid), Changes(kind, sid)
  PROVE  IInv'
<1>1. PICK p \in DOMAIN sidMap[kind] : /\ sidMap[kind][p].sid = sid
                                       /\ storeId(kind, sid) = sidMap[kind][p].storeId
  BY EntryOf
<1>2. PICK s \in Address : s = sidMap[kind][p].storeId
  BY InPool
<1>3. /\ sidMap \in [Kind -> Seq(Entry)] /\ hkPool \in [Address -> Definition \cup {Free}]
      /\ sidMap[kind] \in Seq(Entry) /\ MaxDefinitions[kind] \in Nat
      /\ DOMAIN sidMap[kind] = 1 .. Len(sidMap[kind]) /\ p \in 1 .. Len(sidMap[kind])
      /\ Len(sidMap[kind]) \in Nat /\ Len(sidMap[kind]) <= MaxDefinitions[kind]
  BY HousekeepingAssumption, LenProperties DEF IInv, Typed
<1>4. /\ hkPool'[s] = Free /\ hkPool' \in [Address -> Definition \cup {Free}]
      /\ \A b \in Address : b # s => hkPool'[b] = hkPool[b]
  BY <1>1, <1>2, <1>3 DEF deleteReportStructure
<1>5. /\ sidMap'[kind] = erase(sidMap[kind], sidMap[kind][p].sid)
      /\ \A k \in Kind : k # kind => sidMap'[k] = sidMap[k]
  BY <1>1, <1>3 DEF deleteReportStructure
<1>6. \A i, j \in 1 .. Len(sidMap[kind]) : sidMap[kind][i].sid = sidMap[kind][j].sid => i = j
  BY <1>3 DEF IInv, PoolMatchesMaps
<1>7. /\ sidMap'[kind] \in Seq(Entry) /\ Len(sidMap'[kind]) = Len(sidMap[kind]) - 1
      /\ \A i \in 1 .. Len(sidMap'[kind]) : \E q \in 1 .. Len(sidMap[kind]) :
           q # p /\ sidMap'[kind][i] = sidMap[kind][q]
      /\ \A q \in 1 .. Len(sidMap[kind]) : q # p =>
           \E i \in 1 .. Len(sidMap'[kind]) : sidMap'[kind][i] = sidMap[kind][q]
      /\ \A i, j \in 1 .. Len(sidMap'[kind]) :
           sidMap'[kind][i].sid = sidMap'[kind][j].sid => i = j
  <2> DEFINE next == erase(sidMap[kind], sidMap[kind][p].sid)
  <2>1. /\ next \in Seq(Entry) /\ Len(next) = Len(sidMap[kind]) - 1
        /\ \A i \in 1 .. Len(next) : \E q \in 1 .. Len(sidMap[kind]) :
             q # p /\ next[i] = sidMap[kind][q]
        /\ \A q \in 1 .. Len(sidMap[kind]) : q # p =>
             \E i \in 1 .. Len(next) : next[i] = sidMap[kind][q]
        /\ \A i, j \in 1 .. Len(next) : next[i].sid = next[j].sid => i = j
    BY <1>3, <1>6, Erased
  <2>2. sidMap'[kind] = next
    BY <1>5
  <2> HIDE DEF next
  <2> QED BY <2>1, <2>2
<1>8. DOMAIN sidMap'[kind] = 1 .. Len(sidMap'[kind])
  BY <1>7, LenProperties
<1>9. waited' \in {0, waited} /\ UNCHANGED <<intervalCounter, crashed, watched, gap>>
      /\ (watched # <<kind, sid>> => waited' = waited)
  BY DEF Changes, Handles
<1>10. Typed'
  <2>1. sidMap' = [sidMap EXCEPT ![kind] = sidMap'[kind]]
    BY <1>1, <1>3, <1>5 DEF deleteReportStructure
  <2>2. sidMap' \in [Kind -> Seq(Entry)]
    <3>1. PICK map \in Seq(Entry) : map = sidMap'[kind]
      BY <1>7
    <3>2. sidMap' = [sidMap EXCEPT ![kind] = map]
      BY <2>1, <3>1
    <3> QED BY <1>3, <3>2
  <2>3. ASSUME NEW k \in Kind PROVE Len(sidMap'[k]) <= MaxDefinitions[k]
    <3>1. CASE k = kind
      <4>1. Len(sidMap'[kind]) <= MaxDefinitions[kind]
        <5>1. ASSUME NEW n \in Nat, NEW m \in Nat, n <= m PROVE n - 1 <= m
          BY <5>1
        <5> QED BY <1>3, <1>7, <5>1
      <4> QED BY <3>1, <4>1
    <3>2. CASE k # kind
      BY <1>5, <3>2 DEF IInv, Typed
    <3> QED BY <3>1, <3>2
  <2> QED BY <1>4, <1>9, <2>2, <2>3 DEF IInv, Typed
\* an entry of afterwards was one before, and another than the erased one
<1>11. ASSUME NEW k \in Kind, NEW i \in DOMAIN sidMap'[k]
       PROVE  \E q \in DOMAIN sidMap[k] :
                /\ sidMap'[k][i] = sidMap[k][q] /\ (k # kind => q = i)
                /\ sidMap[k][q].storeId \in Address /\ sidMap[k][q].storeId # s
                /\ <<k, sidMap[k][q].sid>> # <<kind, sid>>
  <2>1. PICK q \in DOMAIN sidMap[k] : /\ sidMap'[k][i] = sidMap[k][q] /\ (k # kind => q = i)
                                      /\ k = kind => q # p
    <3>1. CASE k = kind
      BY <1>3, <1>7, <1>8, <1>11, <3>1
    <3>2. CASE k # kind
      BY <1>5, <1>11, <3>2
    <3> QED BY <3>1, <3>2
  <2>2. sidMap[k][q].storeId \in Address
    BY InPool
  <2>3. sidMap[k][q].storeId # s
    BY <1>2, <2>1 DEF IInv, PoolMatchesMaps
  <2>4. k = kind => sidMap[k][q].sid # sid
    BY <1>1, <2>1 DEF IInv, PoolMatchesMaps
  <2> QED BY <2>1, <2>2, <2>3, <2>4
\* and every other one stays
<1>12. ASSUME NEW k \in Kind, NEW q \in DOMAIN sidMap[k], sidMap[k][q].storeId # s
       PROVE  \E i \in DOMAIN sidMap'[k] : sidMap'[k][i] = sidMap[k][q]
  BY <1>2, <1>3, <1>5, <1>7, <1>8, <1>12
<1>13. PoolMatchesMaps'
  <2>1. ASSUME NEW b \in Address
        PROVE  hkPool'[b] # Free <=> \E k \in Kind : \E e \in Entries(k)' : e.storeId = b
    <3>1. hkPool[b] # Free <=> \E k \in Kind : \E i \in DOMAIN sidMap[k] : sidMap[k][i].storeId = b
      BY DEF IInv, PoolMatchesMaps, Entries
    <3>2. CASE b = s
      BY <1>4, <1>11, <3>2 DEF Entries
    <3>3. CASE b # s
      <4>1. (\E k \in Kind : \E i \in DOMAIN sidMap[k] : sidMap[k][i].storeId = b)
            <=> \E k \in Kind : \E i \in DOMAIN sidMap'[k] : sidMap'[k][i].storeId = b
        BY <1>11, <1>12, <3>3
      <4> QED BY <1>4, <3>1, <3>3, <4>1 DEF Entries
    <3> QED BY <3>2, <3>3
  <2>2. ASSUME NEW k \in Kind, NEW i \in DOMAIN sidMap'[k], NEW j \in DOMAIN sidMap'[k],
               sidMap'[k][i].sid = sidMap'[k][j].sid
        PROVE  i = j
    <3>1. CASE k = kind
      BY <1>7, <1>8, <2>2, <3>1
    <3>2. CASE k # kind
      BY <1>5, <2>2, <3>2 DEF IInv, PoolMatchesMaps
    <3> QED BY <3>1, <3>2
  <2>3. ASSUME NEW k \in Kind, NEW l \in Kind,
               NEW i \in DOMAIN sidMap'[k], NEW j \in DOMAIN sidMap'[l],
               sidMap'[k][i].storeId = sidMap'[l][j].storeId
        PROVE  k = l /\ i = j
    <3>1. PICK q \in DOMAIN sidMap[k] : sidMap'[k][i] = sidMap[k][q]
      BY <1>11
    <3>2. PICK r \in DOMAIN sidMap[l] : sidMap'[l][j] = sidMap[l][r]
      BY <1>11
    <3>3. k = l /\ q = r
      BY <2>3, <3>1, <3>2 DEF IInv, PoolMatchesMaps
    <3> QED BY <2>2, <3>1, <3>2, <3>3
  <2> QED BY <2>1, <2>2, <2>3 DEF PoolMatchesMaps
<1>14. Definitions'
  BY <1>4 DEF IInv, Definitions, Reasonable
<1>15. ASSUME NEW w \in Definition, Watched(w)'
       PROVE  waited' = waited /\ Watched(w)
  <2>1. watched' = watched /\ watched[1] \in Kind /\ watched = <<watched[1], watched[2]>>
    BY <1>9, Phases
  <2>2. PICK i \in DOMAIN sidMap'[watched[1]] :
          /\ sidMap'[watched[1]][i].sid = watched[2]
          /\ w = hkPool'[sidMap'[watched[1]][i].storeId]
    BY <1>15, <2>1 DEF Watched
  <2>3. PICK q \in DOMAIN sidMap[watched[1]] :
          /\ sidMap'[watched[1]][i] = sidMap[watched[1]][q]
          /\ sidMap[watched[1]][q].storeId \in Address /\ sidMap[watched[1]][q].storeId # s
          /\ <<watched[1], sidMap[watched[1]][q].sid>> # <<kind, sid>>
    BY <1>11, <2>1
  <2>4. watched # <<kind, sid>> /\ w = hkPool[sidMap[watched[1]][q].storeId]
    BY <1>4, <2>1, <2>2, <2>3
  <2> QED BY <1>9, <2>2, <2>3, <2>4 DEF Watched
<1>16. Clocks'
  BY <1>9, <1>15, ClocksCommanded
<1> QED BY <1>10, <1>13, <1>14, <1>16 DEF IInv

\* A definition is changed, but not its counter
LEMMA Modified ==
  ASSUME IInv, NEW kind \in Kind, NEW sid \in Sid, Known(kind, sid), NEW d \in Definition,
         hkPool' = [hkPool EXCEPT ![storeId(kind, sid)] = d], UNCHANGED sidMap,
         Reasonable(d), d.cycleCounter = hkPool[storeId(kind, sid)].cycleCounter,
         Changes(kind, sid)
  PROVE  IInv'
<1>1. PICK p \in DOMAIN sidMap[kind] : /\ sidMap[kind][p].sid = sid
                                       /\ storeId(kind, sid) = sidMap[kind][p].storeId
  BY EntryOf
<1>2. PICK s \in Address : s = sidMap[kind][p].storeId /\ hkPool[s] \in Definition
  BY InPool
<1>3. /\ hkPool'[s] = d /\ hkPool[s] # Free /\ d # Free
      /\ \A b \in Address : b # s => hkPool'[b] = hkPool[b]
      /\ hkPool' \in [Address -> Definition \cup {Free}]
  BY <1>1, <1>2, PoolAssumption DEF IInv, Typed
<1>4. waited' \in {0, waited} /\ UNCHANGED <<intervalCounter, crashed, watched, gap>>
      /\ (watched # <<kind, sid>> => waited' = waited)
      /\ (watched = <<kind, sid>> => waited' = 0)
  BY DEF Changes, Handles
<1>5. Typed'
  BY <1>3, <1>4 DEF IInv, Typed
<1>6. PoolMatchesMaps'
  <2>1. \A b \in Address : hkPool'[b] # Free <=> hkPool[b] # Free
    BY <1>3
  <2>2. \A k \in Kind : Entries(k)' = Entries(k)
    BY DEF Entries
  <2> QED BY <2>1, <2>2 DEF IInv, PoolMatchesMaps
<1>7. Definitions'
  BY <1>3 DEF IInv, Definitions, Reasonable
<1>8. ASSUME NEW w \in Definition, Watched(w)'
      PROVE  \/ waited' = waited /\ Watched(w)
             \/ /\ waited' = 0
                /\ \E old \in Definition : Watched(old) /\ w.cycleCounter = old.cycleCounter
  <2>1. watched' = watched /\ watched[1] \in Kind /\ watched = <<watched[1], watched[2]>>
    BY <1>4, Phases
  <2>2. PICK i \in DOMAIN sidMap[watched[1]] :
          /\ sidMap[watched[1]][i].sid = watched[2]
          /\ w = hkPool'[sidMap[watched[1]][i].storeId]
    BY <1>8, <2>1 DEF Watched
  <2>3. sidMap[watched[1]][i].storeId \in Address
    BY <2>1, InPool
  <2>4. CASE sidMap[watched[1]][i].storeId = s
    <3>1. watched = <<kind, sid>>
      BY <1>1, <1>2, <2>1, <2>2, <2>4 DEF IInv, PoolMatchesMaps
    <3>2. w = d /\ Watched(hkPool[s])
      BY <1>3, <2>2, <2>4 DEF Watched
    <3> QED BY <1>1, <1>2, <1>4, <3>1, <3>2
  <2>5. CASE sidMap[watched[1]][i].storeId # s
    <3>1. watched # <<kind, sid>>
      BY <1>1, <1>2, <2>1, <2>2, <2>5 DEF IInv, PoolMatchesMaps
    <3>2. w = hkPool[sidMap[watched[1]][i].storeId]
      BY <1>3, <2>2, <2>3, <2>5
    <3> QED BY <1>4, <2>2, <3>1, <3>2 DEF Watched
  <2> QED BY <2>4, <2>5
<1>9. Clocks'
  BY <1>4, <1>8, ClocksCommanded
<1> QED BY <1>5, <1>6, <1>7, <1>9 DEF IInv

-----------------------------------------------------------------------------
\* An interval in whole seconds is not longer than it was
LEMMA Rounded ==
  ASSUME NEW i \in Nat
  PROVE  WholeSeconds(i) \in Nat /\ WholeSeconds(i) <= i
<1>1. HK_INTERV_FACTOR \in Nat \ {0}
  BY HousekeepingAssumption
<1>2. ASSUME NEW f \in Nat \ {0} PROVE (i \div f) \in Nat /\ (i \div f) * f <= i
  OBVIOUS
<1> QED BY <1>1, <1>2 DEF WholeSeconds

\* Telecommands
LEMMA RequestStep ==
  ASSUME IInv, NEW kind \in Kind, NEW sid \in Sid, HandleRequest(kind, sid)
  PROVE  IInv'
<1>1. ASSUME Unchanged PROVE IInv'
  <2>1. UNCHANGED vars
    BY <1>1 DEF Unchanged, Handles, vars
  <2> QED BY <2>1 DEF vars, IInv, Typed, PoolMatchesMaps, Entries, Definitions, Reasonable,
                      Clocks, Watched, Apart, InTime, Counted, Look, Phase
<1>2. ASSUME NEW interval \in Interval, NEW size, NEW known \in BOOLEAN,
             AddReportStructure(kind, sid, interval, size, known)
      PROVE  IInv'
  <2>1. CASE checkSidMap(kind, sid) /\ ~Unchanged
    <3>1. PICK a \in getFreeElement(size) :
            /\ hkPool' = [hkPool EXCEPT ![a] = Fresh(interval, known, FALSE)]
            /\ sidMap' = [sidMap EXCEPT ![kind] = insert(@, sid, a)]
            /\ Changes(kind, sid)
      BY <1>2, <2>1 DEF AddReportStructure
    <3>2. a \in Address /\ hkPool[a] = Free
      BY DEF getFreeElement
    <3>3. /\ Fresh(interval, known, FALSE) \in Definition
          /\ Reasonable(Fresh(interval, known, FALSE))
          /\ Fresh(interval, known, FALSE).cycleCounter = 1
      BY HousekeepingAssumption, GapBoundAssumption DEF Fresh, Definition, Reasonable
    <3> QED BY <2>1, <3>1, <3>2, <3>3, Added
  <2> QED BY <1>1, <1>2, <2>1 DEF AddReportStructure
<1>3. CASE DeleteReportStructure(kind, sid) \/ AppendParametersToReport(kind, sid)
  BY <1>1, <1>3, Deleted DEF DeleteReportStructure, AppendParametersToReport
\* what is changed is the definition of the structure
<1>4. ASSUME Known(kind, sid)
      PROVE  /\ hkPool \in [Address -> Definition \cup {Free}]
             /\ storeId(kind, sid) \in Address
             /\ hkPool[storeId(kind, sid)] \in Definition
             /\ Reasonable(hkPool[storeId(kind, sid)])
  <2>1. PICK p \in DOMAIN sidMap[kind] : storeId(kind, sid) = sidMap[kind][p].storeId
    BY <1>4, EntryOf
  <2> QED BY <2>1, InPool DEF IInv, Typed
<1>5. ASSUME NEW enable \in BOOLEAN, SwitchPeriodicReportGeneration(kind, sid, enable)
      PROVE  IInv'
  <2>1. CASE Known(kind, sid) /\ ~Unchanged
    <3> DEFINE d == [hkPool[storeId(kind, sid)] EXCEPT !.enabled = enable]
    <3>1. /\ d \in Definition /\ Reasonable(d)
          /\ d.cycleCounter = hkPool[storeId(kind, sid)].cycleCounter
      BY <1>4, <2>1 DEF Definition, Reasonable
    <3>2. /\ hkPool' = [hkPool EXCEPT ![storeId(kind, sid)] = d]
          /\ Changes(kind, sid) /\ UNCHANGED sidMap
      BY <1>4, <1>5, <2>1 DEF SwitchPeriodicReportGeneration
    <3> HIDE DEF d
    <3> QED BY <2>1, <3>1, <3>2, Modified
  <2> QED BY <1>1, <1>5, <2>1 DEF SwitchPeriodicReportGeneration
<1>6. ASSUME NEW interval \in Interval, ModifyCollectionInterval(kind, sid, interval)
      PROVE  IInv'
  <2>1. CASE Known(kind, sid) /\ ~Unchanged
    <3> DEFINE d == [hkPool[storeId(kind, sid)] EXCEPT !.interval = WholeSeconds(interval)]
    <3>1. /\ interval \in Nat /\ interval + HK_INTERV_FACTOR <= GapBound + 1
          /\ HK_INTERV_FACTOR \in Nat /\ GapBound \in Nat
          /\ WholeSeconds(interval) \in Nat /\ WholeSeconds(interval) <= interval
      BY HousekeepingAssumption, GapBoundAssumption, Rounded
    <3>2. WholeSeconds(interval) + HK_INTERV_FACTOR <= GapBound + 1
      BY <3>1
    <3>3. /\ d \in Definition /\ Reasonable(d)
          /\ d.cycleCounter = hkPool[storeId(kind, sid)].cycleCounter
      BY <1>4, <2>1, <3>1, <3>2 DEF Definition, Reasonable
    <3>4. /\ hkPool' = [hkPool EXCEPT ![storeId(kind, sid)] = d]
          /\ Changes(kind, sid) /\ UNCHANGED sidMap
      BY <1>4, <1>6, <2>1 DEF ModifyCollectionInterval
    <3> HIDE DEF d
    <3> QED BY <2>1, <3>3, <3>4, Modified
  <2> QED BY <1>1, <1>6, <2>1 DEF ModifyCollectionInterval
<1>7. CASE GenerateOneParameterReport(kind, sid) \/ HandleStructureReporting(kind, sid)
  BY <1>1, <1>7 DEF GenerateOneParameterReport, HandleStructureReporting
<1> QED BY <1>2, <1>3, <1>5, <1>6, <1>7 DEF HandleRequest

-----------------------------------------------------------------------------
\* What checkHkPacketGeneration makes of a definition
LEMMA Generated ==
  ASSUME NEW kind \in Kind, NEW d \in Definition, Reasonable(d)
  PROVE  /\ checkHkPacketGeneration(kind, d) \in Definition
         /\ Reasonable(checkHkPacketGeneration(kind, d))
         /\ checkHkPacketGeneration(kind, d).enabled = d.enabled
         /\ checkHkPacketGeneration(kind, d).interval = d.interval
         /\ checkHkPacketGeneration(kind, d).cycleCounter =
              IF Due(kind, d) THEN 1
              ELSE IF d.enabled THEN d.cycleCounter + 1 ELSE d.cycleCounter
<1>1. CASE Due(kind, d)
  BY <1>1 DEF checkHkPacketGeneration, Definition, Reasonable
<1>2. CASE ~Due(kind, d) /\ d.enabled
  <2>1. checkHkPacketGeneration(kind, d) = [d EXCEPT !.cycleCounter = d.cycleCounter + 1]
    BY <1>2 DEF checkHkPacketGeneration, Definition
  <2>2. d.cycleCounter \in Nat /\ d.cycleCounter + 1 \in Nat /\ d.cycleCounter + 1 >= 1
    BY DEF Definition
  <2> QED BY <1>2, <2>1, <2>2 DEF Definition, Reasonable
<1>3. CASE ~Due(kind, d) /\ ~d.enabled
  BY <1>3 DEF checkHkPacketGeneration, Definition, Reasonable
<1> QED BY <1>1, <1>2, <1>3

\* A cycle looks at the definitions of the maps whose turn it is, each once
LEMMA Performed ==
  ASSUME IInv, PerformService, NEW kind \in Kind, NEW i \in DOMAIN sidMap[kind]
  PROVE  LET a == sidMap[kind][i].storeId
         IN  hkPool'[a] = IF Checked(kind) THEN checkHkPacketGeneration(kind, hkPool[a])
                          ELSE hkPool[a]
<1> DEFINE a == sidMap[kind][i].storeId
<1>1. a \in Address
  BY InPool
<1>2. hkPool'[a] = IF Holder(a) = {} THEN hkPool[a]
                   ELSE checkHkPacketGeneration(CHOOSE k \in Holder(a) : TRUE, hkPool[a])
  BY <1>1 DEF PerformService
<1>3. Holder(a) = IF Checked(kind) THEN {kind} ELSE {}
  <2>1. \A k \in Kind : (\E e \in Entries(k) : e.storeId = a) <=> k = kind
    BY DEF IInv, PoolMatchesMaps, Entries
  <2> QED BY <2>1 DEF Holder
<1>4. Checked(kind) => (CHOOSE k \in {kind} : TRUE) = kind
  OBVIOUS
<1> HIDE DEF a
<1> QED BY <1>2, <1>3, <1>4 DEF a

\* Whether the watched structure is reported in this cycle
LEMMA WatchedDue ==
  ASSUME IInv, NEW d \in Definition, Watched(d)
  PROVE  /\ watched \in DueNow <=> Checked(watched[1]) /\ Due(watched[1], d)
         /\ Enabled(watched[1], watched[2]) = d.enabled
         /\ hkPool[storeId(watched[1], watched[2])] = d /\ Reasonable(d)
<1>1. watched \in Kind \X Sid /\ watched[1] \in Kind /\ watched = <<watched[1], watched[2]>>
  BY Phases DEF IInv, Typed
<1>2. PICK i \in DOMAIN sidMap[watched[1]] :
        /\ sidMap[watched[1]][i].sid = watched[2]
        /\ d = hkPool[sidMap[watched[1]][i].storeId]
  BY DEF Watched
<1>3. /\ Known(watched[1], watched[2])
      /\ storeId(watched[1], watched[2]) = sidMap[watched[1]][i].storeId
  BY <1>1, <1>2, StoreIdOf
<1>4. Reasonable(d)
  BY <1>1, <1>2, InPool
<1>5. Enabled(watched[1], watched[2]) = d.enabled
  BY <1>2, <1>3 DEF Enabled, Definition
<1>6. watched \in DueNow <=> Checked(watched[1]) /\ Due(watched[1], d)
  BY <1>1, <1>2, <1>3 DEF DueNow
<1> QED BY <1>2, <1>3, <1>4, <1>5, <1>6

\* A structure that is due or enabled has a definition
LEMMA HasDefinition ==
  ASSUME IInv, watched \in DueNow \/ Enabled(watched[1], watched[2])
  PROVE  \E d \in Definition : Watched(d)
<1>1. Known(watched[1], watched[2])
  BY DEF DueNow, Enabled
<1>2. PICK i \in DOMAIN sidMap[watched[1]] : sidMap[watched[1]][i].sid = watched[2]
  BY <1>1, EntryOf, Phases
<1> QED BY <1>2, InPool, Phases DEF Watched

\* One more cycle
LEMMA PhaseStep ==
  ASSUME IInv, PerformService
  PROVE  /\ Look' = Look
         /\ Phase' = IF Checked(watched[1]) THEN 0 ELSE Phase + 1
         /\ Checked(watched[1]) => Phase = Look - 1
<1>1. intervalCounter \in 1 .. HK_INTERV_FACTOR /\ HK_INTERV_FACTOR \in Nat \ {0}
      /\ watched' = watched
      /\ intervalCounter' = IF Checked("hk") THEN 1 ELSE intervalCounter + 1
  BY HousekeepingAssumption DEF IInv, Typed, PerformService
<1>2. CASE watched[1] = "hk"
  BY <1>1, <1>2 DEF Look, Phase, Checked
<1>3. CASE watched[1] # "hk"
  BY <1>1, <1>3, Phases, KindTyped DEF Look, Phase, Checked
<1> QED BY <1>2, <1>3

\* How long the reports of a definition take
LEMMA PeriodOf ==
  ASSUME IInv, NEW d \in Definition, Reasonable(d)
  PROVE  /\ IntervalInTicks(watched[1], d.interval) \in Nat
         /\ Period(watched[1], d) \in Nat
         /\ Period(watched[1], d) <= GapBound + 1
         /\ \A c \in Nat \ {0} : c <= IntervalInTicks(watched[1], d.interval)
                                  => (c - 1) * Look + Look <= Period(watched[1], d)
         /\ Look <= Period(watched[1], d)
         /\ \A c \in Nat \ {0} : c >= IntervalInTicks(watched[1], d.interval)
                                  => Period(watched[1], d) <= (c - 1) * Look + Look
<1> DEFINE ticks == IntervalInTicks(watched[1], d.interval)
           max == IF ticks = 0 THEN 1 ELSE ticks
<1>1. /\ d.interval \in Nat /\ HK_INTERV_FACTOR \in Nat \ {0}
      /\ d.interval + HK_INTERV_FACTOR <= GapBound + 1 /\ GapBound \in Nat
  BY HousekeepingAssumption DEF Definition, Reasonable
<1>2. ASSUME NEW i \in Nat, NEW f \in Nat \ {0}
      PROVE  /\ (i + f - 1) \div f \in Nat
             /\ f * ((i + f - 1) \div f) <= i + f - 1
  OBVIOUS
<1>3. Look \in Nat \ {0} /\ watched[1] \in Kind
      /\ (watched[1] = "hk" => Look = HK_INTERV_FACTOR)
      /\ (watched[1] = "diagnostics" => Look = 1)
  BY Phases, KindTyped DEF Look
<1>4. ticks \in Nat /\ Look * ticks <= d.interval + HK_INTERV_FACTOR - 1
  <2>1. CASE watched[1] = "hk"
    BY <1>1, <1>2, <1>3, <2>1 DEF IntervalInTicks
  <2>2. CASE watched[1] = "diagnostics"
    BY <1>1, <1>3, <2>2 DEF IntervalInTicks
  <2> QED BY <1>3, <2>1, <2>2, KindTyped
<1>5. Period(watched[1], d) = Look * max
  BY <1>3, KindTyped DEF Period, Look
<1> HIDE DEF ticks
<1>6. max \in Nat \ {0} /\ max >= ticks /\ (\A c \in Nat \ {0} : c >= ticks => c >= max)
  BY <1>4
<1>7. Look * max <= GapBound + 1
  <2>1. CASE ticks = 0
    <3>1. Look * max = Look
      BY <1>3, <2>1
    <3>2. Look <= HK_INTERV_FACTOR
      BY <1>1, <1>3, KindTyped
    <3> QED BY <1>1, <1>3, <3>1, <3>2
  <2>2. CASE ticks # 0
    <3>1. max = ticks
      BY <2>2
    <3>2. PICK m \in Nat : m = Look * ticks
      BY <1>3, <1>4
    <3>3. m <= GapBound + 1
      BY <1>1, <1>4, <3>2
    <3> HIDE DEF max
    <3> QED BY <3>1, <3>2, <3>3
  <2> QED BY <2>1, <2>2
<1> HIDE DEF max
<1>8. ASSUME NEW l \in Nat \ {0}, NEW a \in Nat \ {0}, NEW b \in Nat \ {0}, a <= b
      PROVE  l * a <= l * b /\ l <= l * a /\ (a - 1) * l + l = l * a /\ l * a \in Nat
  <2>1. PICK k \in Nat : b = a + k
    <3>1. b - a \in Nat /\ b = a + (b - a)
      BY <1>8
    <3> QED BY <3>1
  <2>2. l * b = l * a + l * k /\ l * k >= 0
    BY <2>1
  <2>3. PICK n \in Nat : a = n + 1
    <3>1. a - 1 \in Nat /\ a = (a - 1) + 1
      OBVIOUS
    <3> QED BY <3>1
  <2>4. l * a = l * n + l /\ l * n >= 0 /\ (a - 1) * l = l * n
    BY <2>3
  <2> QED BY <2>2, <2>4
<1>9. ASSUME NEW c \in Nat \ {0}, c <= ticks PROVE (c - 1) * Look + Look <= Look * max
  <2>1. c <= max
    BY <1>4, <1>6, <1>9
  <2> QED BY <1>3, <1>6, <1>8, <2>1
<1>10. ASSUME NEW c \in Nat \ {0}, c >= ticks PROVE Look * max <= (c - 1) * Look + Look
  <2>1. max <= c
    BY <1>4, <1>6, <1>10
  <2>2. Look * max <= Look * c
    BY <1>3, <1>6, <1>8, <2>1
  <2>3. (c - 1) * Look + Look = Look * c
    BY <1>3, <1>8
  <2> QED BY <2>2, <2>3
<1>11. Look * max \in Nat /\ Look <= Look * max
  BY <1>3, <1>6, <1>8
<1> QED BY <1>4, <1>5, <1>7, <1>9, <1>10, <1>11 DEF ticks

\* A cycle of the service
LEMMA PerformStep ==
  ASSUME IInv, PerformService
  PROVE  IInv'
<1>1. /\ UNCHANGED <<sidMap, crashed, watched>>
      /\ gap' = IF watched \in DueNow THEN 0 ELSE Later(gap)
      /\ waited' = IF Enabled(watched[1], watched[2]) /\ watched \notin DueNow
                   THEN waited + 1 ELSE 0
      /\ intervalCounter' = IF Checked("hk") THEN 1 ELSE intervalCounter + 1
  BY DEF PerformService
<1>2. ASSUME NEW k \in Kind, NEW i \in DOMAIN sidMap[k]
      PROVE  /\ hkPool'[sidMap[k][i].storeId] \in Definition
             /\ Reasonable(hkPool'[sidMap[k][i].storeId])
  <2> DEFINE d == hkPool[sidMap[k][i].storeId]
  <2>1. d \in Definition /\ Reasonable(d)
    BY InPool
  <2>2. hkPool'[sidMap[k][i].storeId] = IF Checked(k) THEN checkHkPacketGeneration(k, d) ELSE d
    BY Performed
  <2> HIDE DEF d
  <2> QED BY <2>1, <2>2, Generated
<1>3. ASSUME NEW b \in Address
      PROVE  \/ hkPool[b] = Free /\ hkPool'[b] = Free
             \/ hkPool[b] # Free /\ hkPool'[b] \in Definition /\ Reasonable(hkPool'[b])
  <2>1. CASE hkPool[b] = Free
    <3>1. Holder(b) = {}
      BY <2>1 DEF Holder, IInv, PoolMatchesMaps
    <3> QED BY <2>1, <3>1 DEF PerformService
  <2>2. CASE hkPool[b] # Free
    <3>1. PICK k \in Kind : \E i \in DOMAIN sidMap[k] : sidMap[k][i].storeId = b
      BY <2>2 DEF IInv, PoolMatchesMaps, Entries
    <3> QED BY <1>2, <2>2, <3>1
  <2> QED BY <2>1, <2>2
<1>4. intervalCounter' \in 1 .. HK_INTERV_FACTOR
  BY <1>1, HousekeepingAssumption DEF IInv, Typed, Checked
<1>5. gap' \in 0 .. GapBound /\ waited' \in Nat
  BY <1>1, Phases DEF Later, IInv, Typed
<1>6. hkPool' = [a \in Address |-> hkPool'[a]]
  BY DEF PerformService
<1>7. Typed'
  BY <1>1, <1>3, <1>4, <1>5, <1>6 DEF IInv, Typed
<1>8. PoolMatchesMaps'
  <2>1. \A b \in Address : hkPool'[b] # Free <=> hkPool[b] # Free
    BY <1>3, PoolAssumption
  <2>2. \A k \in Kind : Entries(k)' = Entries(k)
    BY <1>1 DEF Entries
  <2> QED BY <1>1, <2>1, <2>2 DEF IInv, PoolMatchesMaps
<1>9. Definitions'
  BY <1>3, PoolAssumption DEF Definitions, Reasonable
<1>10. \/ watched \in DueNow /\ gap' = 0
       \/ watched \notin DueNow /\ gap' = GapBound
       \/ watched \notin DueNow /\ gap' = gap + 1 /\ gap # GapBound
  <2>1. Later(gap) = GapBound \/ (Later(gap) = gap + 1 /\ gap # GapBound)
    BY Phases DEF Later
  <2> QED BY <1>1, <2>1
<1>11. gap' = GapBound \/ gap' >= Phase'
  <2>1. CASE watched \in DueNow
    <3>1. Checked(watched[1])
      BY <2>1 DEF DueNow
    <3> QED BY <1>10, <2>1, <3>1, PhaseStep, Phases
  <2>2. CASE watched \notin DueNow
    <3>1. gap = GapBound \/ gap >= Phase
      BY DEF IInv, Clocks
    <3> QED BY <1>10, <2>2, <3>1, PhaseStep, Phases
  <2> QED BY <2>1, <2>2
<1>12. ASSUME NEW w \in Definition, Watched(w)'
       PROVE  Apart(w)' /\ InTime(w)'
  <2>1. watched[1] \in Kind
    BY Phases
  <2>2. PICK i \in DOMAIN sidMap[watched[1]] :
          /\ sidMap[watched[1]][i].sid = watched[2]
          /\ w = hkPool'[sidMap[watched[1]][i].storeId]
    BY <1>1, <1>12 DEF Watched
  <2>3. PICK d \in Definition : d = hkPool[sidMap[watched[1]][i].storeId]
    BY <2>1, InPool
  <2>4. Watched(d) /\ Reasonable(d)
    BY <2>1, <2>2, <2>3, InPool DEF Watched
  <2>5. Apart(d) /\ InTime(d)
    BY <2>4 DEF IInv, Clocks
  <2>6. /\ w.enabled = d.enabled /\ w.interval = d.interval
        /\ w.cycleCounter = IF Checked(watched[1]) /\ Due(watched[1], d) THEN 1
                            ELSE IF Checked(watched[1]) /\ d.enabled THEN d.cycleCounter + 1
                            ELSE d.cycleCounter
    <3>1. w = IF Checked(watched[1]) THEN checkHkPacketGeneration(watched[1], d) ELSE d
      BY <2>1, <2>2, <2>3, Performed
    <3> QED BY <2>1, <2>4, <3>1, Generated
  <2>7. /\ watched \in DueNow <=> Checked(watched[1]) /\ Due(watched[1], d)
        /\ Enabled(watched[1], watched[2]) = d.enabled
    BY <2>4, WatchedDue
  <2>8. PICK c \in Nat \ {0} : c = d.cycleCounter
    BY <2>4 DEF Reasonable, Definition
  <2>9. /\ Look \in Nat \ {0} /\ Phase \in Nat /\ Look' = Look
        /\ Phase' = IF Checked(watched[1]) THEN 0 ELSE Phase + 1
        /\ Checked(watched[1]) => Phase = Look - 1
        /\ waited \in Nat /\ gap \in Nat
    BY Phases, PhaseStep
  <2>10. PICK before \in Nat : before = (c - 1) * Look
    BY Phases
  <2>11. c * Look = before + Look
    <3>1. ASSUME NEW n \in Nat \ {0}, NEW l \in Nat PROVE n * l = (n - 1) * l + l
      <4>1. PICK k \in Nat : n = k + 1
        <5>1. n - 1 \in Nat /\ n = (n - 1) + 1
          OBVIOUS
        <5> QED BY <5>1
      <4> QED BY <4>1
    <3> QED BY <2>9, <2>10, <3>1
  <2>12. IntervalInTicks(watched[1], w.interval) = IntervalInTicks(watched[1], d.interval)
    BY <2>6
  \* the report is sent
  <2>13. CASE watched \in DueNow
    <3>1. w.cycleCounter = 1 /\ Phase' = 0 /\ gap' = 0 /\ waited' = 0
      BY <1>1, <2>6, <2>7, <2>9, <2>13
    <3>2. Counted(w)' = 0
      <4>1. (1 - 1) * Look = 0
        BY <2>9
      <4> QED BY <2>9, <3>1, <4>1 DEF Counted
    <3> QED BY <3>1, <3>2 DEF Apart, InTime
  \* the interval is not over yet
  <2>14. CASE watched \notin DueNow /\ Checked(watched[1]) /\ d.enabled
    <3>1. /\ w.cycleCounter = c + 1 /\ Phase' = 0 /\ Phase = Look - 1
          /\ waited' = waited + 1
      BY <1>1, <2>6, <2>7, <2>8, <2>9, <2>14
    <3>2. ~Due(watched[1], d)
      BY <2>7, <2>14
    <3>3. c + 1 <= IntervalInTicks(watched[1], d.interval)
      <4>1. IntervalInTicks(watched[1], d.interval) \in Nat
        BY <2>4, PeriodOf
      <4> QED BY <2>8, <2>14, <3>2, <4>1 DEF Due
    <3>4. Counted(w)' = before + Look
      <4>1. (c + 1) - 1 = c
        OBVIOUS
      <4> QED BY <2>9, <2>11, <3>1, <4>1 DEF Counted
    <3>5. Counted(d) = before + Look - 1
      BY <2>8, <2>9, <2>10, <3>1 DEF Counted
    <3>6. Apart(w)'
      <4>1. gap = GapBound \/ gap >= before + Look - 1
        BY <2>5, <3>5 DEF Apart
      <4> QED BY <1>10, <2>9, <2>14, <3>4, <4>1 DEF Apart
    <3>7. InTime(w)'
      <4>1. waited <= before + Look - 1
        BY <2>5, <2>9, <2>14, <3>1, <3>5 DEF InTime
      <4>2. waited' <= Counted(w)'
        BY <2>9, <3>1, <3>4, <4>1
      <4> QED BY <1>1, <2>12, <3>1, <3>3, <4>2 DEF InTime
    <3> QED BY <3>6, <3>7
  \* the definition is disabled
  <2>15. CASE watched \notin DueNow /\ Checked(watched[1]) /\ ~d.enabled
    <3>1. w.cycleCounter = c /\ Phase' = 0 /\ ~w.enabled
      BY <2>6, <2>7, <2>8, <2>9, <2>15
    <3>2. Counted(w)' = before /\ Counted(d) = before + Phase
      BY <2>8, <2>9, <2>10, <3>1 DEF Counted
    <3>3. gap = GapBound \/ gap >= before + Phase
      BY <2>5, <3>2 DEF Apart
    <3> QED BY <1>10, <2>9, <2>15, <3>1, <3>2, <3>3 DEF Apart, InTime
  \* it is not looked at in this cycle
  <2>16. CASE watched \notin DueNow /\ ~Checked(watched[1])
    <3>1. w.cycleCounter = c /\ Phase' = Phase + 1
      BY <2>6, <2>8, <2>9, <2>16
    <3>2. Counted(w)' = before + Phase + 1 /\ Counted(d) = before + Phase
      BY <2>8, <2>9, <2>10, <3>1 DEF Counted
    <3>3. Apart(w)'
      <4>1. gap = GapBound \/ gap >= before + Phase
        BY <2>5, <3>2 DEF Apart
      <4> QED BY <1>10, <2>9, <2>16, <3>2, <4>1 DEF Apart
    <3>4. InTime(w)'
      <4> SUFFICES ASSUME w.enabled
                   PROVE  \/ waited' <= Phase'
                          \/ /\ w.cycleCounter <= IntervalInTicks(watched[1], w.interval)
                             /\ waited' <= Counted(w)'
        BY <1>1 DEF InTime
      <4>1. waited' = waited + 1
        BY <1>1, <2>6, <2>7, <2>16
      <4>2. \/ waited <= Phase
            \/ /\ c <= IntervalInTicks(watched[1], d.interval)
               /\ waited <= before + Phase
        BY <2>5, <2>6, <2>8, <3>2 DEF InTime
      <4> QED BY <2>9, <2>12, <3>1, <3>2, <4>1, <4>2
    <3> QED BY <3>3, <3>4
  <2> QED BY <2>13, <2>14, <2>15, <2>16
<1>13. Clocks'
  BY <1>11, <1>12 DEF Clocks
<1> QED BY <1>7, <1>8, <1>9, <1>13 DEF IInv

-----------------------------------------------------------------------------
\* The report of hkInit
LEMMA InitIInv == Init => IInv
<1> SUFFICES ASSUME Init PROVE IInv
  OBVIOUS
<1> DEFINE d == Fresh(PredefinedInterval, TRUE, TRUE)
           entry == [sid |-> Predefined, storeId |-> <<1, 1>>]
<1>1. /\ d \in Definition /\ Reasonable(d) /\ d.cycleCounter = 1
      /\ entry \in Entry /\ entry.sid = Predefined /\ entry.storeId = <<1, 1>>
      /\ <<1, 1>> \in Address /\ Free \notin Definition
  BY HousekeepingAssumption, GapBoundAssumption, PoolAssumption
  DEF Fresh, Definition, Reasonable, Entry
<1>2. /\ hkPool = [a \in Address |-> IF a = <<1, 1>> THEN d ELSE Free]
      /\ sidMap = [k \in Kind |-> IF k = "hk" THEN Append(<<>>, entry) ELSE <<>>]
      /\ intervalCounter = 1 /\ crashed = FALSE /\ watched \in Kind \X Sid
      /\ gap = GapBound /\ waited = 0
  BY DEF Init, insert
<1> HIDE DEF d, entry
<1>3. /\ "hk" \in Kind /\ Append(<<>>, entry) = <<entry>> /\ <<entry>> \in Seq(Entry)
      /\ DOMAIN <<entry>> = {1} /\ Len(<<entry>>) = 1
  BY <1>1 DEF Kind
<1>4. /\ sidMap["hk"] = <<entry>> /\ DOMAIN sidMap["hk"] = {1} /\ sidMap["hk"][1] = entry
      /\ \A k \in Kind : k # "hk" => sidMap[k] = <<>> /\ DOMAIN sidMap[k] = {}
  BY <1>2, <1>3
<1>5. Typed
  <2>1. ASSUME NEW k \in Kind PROVE Len(sidMap[k]) <= MaxDefinitions[k]
    <3>1. MaxDefinitions[k] \in Nat \ {0}
      BY HousekeepingAssumption
    <3>2. Len(sidMap[k]) = 0 \/ Len(sidMap[k]) = 1
      <4>1. CASE k = "hk"
        BY <1>3, <1>4, <4>1
      <4>2. CASE k # "hk"
        BY <1>4, <4>2
      <4> QED BY <4>1, <4>2
    <3>3. 0 <= MaxDefinitions[k] /\ 1 <= MaxDefinitions[k]
      BY <3>1
    <3>4. CASE Len(sidMap[k]) = 0
      BY <3>3, <3>4, Zenon
    <3>5. CASE Len(sidMap[k]) = 1
      BY <3>3, <3>5, Zenon
    <3> QED BY <3>2, <3>4, <3>5
  <2>2. sidMap \in [Kind -> Seq(Entry)]
    BY <1>2, <1>3
  <2>3. hkPool \in [Address -> Definition \cup {Free}]
    BY <1>1, <1>2
  <2>4. intervalCounter \in 1 .. HK_INTERV_FACTOR /\ gap \in 0 .. GapBound
    BY <1>2, HousekeepingAssumption
  <2> QED BY <1>2, <2>1, <2>2, <2>3, <2>4 DEF Typed
<1>6. PoolMatchesMaps
  <2>1. \A k \in Kind : \A i \in DOMAIN sidMap[k] : k = "hk" /\ i = 1 /\ sidMap[k][i] = entry
    BY <1>4
  <2>2. \A a \in Address : hkPool[a] # Free <=> a = <<1, 1>>
    BY <1>1, <1>2
  <2>3. 1 \in DOMAIN sidMap["hk"]
    BY <1>4
  <2> QED BY <1>1, <1>3, <1>4, <2>1, <2>2, <2>3 DEF PoolMatchesMaps, Entries
<1>7. Definitions
  BY <1>1, <1>2 DEF Definitions
<1>8. Phase = 0 /\ Look \in Nat
  BY <1>2, HousekeepingAssumption DEF Phase, Look
<1>9. Clocks
  BY <1>2, <1>8 DEF Clocks, Apart, InTime
<1> QED BY <1>5, <1>6, <1>7, <1>9 DEF IInv

\* Every step keeps the invariant
LEMMA StepIInv == IInv /\ [Next]_vars => IInv'
<1> SUFFICES ASSUME IInv, [Next]_vars PROVE IInv'
  OBVIOUS
<1>1. ASSUME NEW kind \in Kind, NEW sid \in Sid, HandleRequest(kind, sid) PROVE IInv'
  BY <1>1, RequestStep
<1>2. CASE PerformService
  BY <1>2, PerformStep
<1>3. CASE ReportFails \/ UNCHANGED vars
  <2>1. UNCHANGED <<hkPool, sidMap, intervalCounter, watched, gap, waited>>
        /\ crashed' \in {crashed, TRUE}
    BY <1>3 DEF ReportFails, vars
  <2>2. Typed'
    BY <2>1 DEF IInv, Typed
  <2>3. (PoolMatchesMaps /\ Definitions)'
    BY <2>1 DEF IInv, PoolMatchesMaps, Entries, Definitions, Reasonable
  <2>4. Clocks'
    BY <2>1 DEF IInv, Clocks, Watched, Apart, InTime, Counted, Look, Phase
  <2> QED BY <2>2, <2>3, <2>4 DEF IInv
<1> QED BY <1>1, <1>2, <1>3 DEF Next

\* It implies what the runs check
LEMMA Consequences == IInv => TypeOK /\ PoolMatchesMaps /\ NotLate
<1> SUFFICES ASSUME IInv PROVE TypeOK /\ PoolMatchesMaps /\ NotLate
  OBVIOUS
<1>1. TypeOK
  <2>1. ASSUME NEW k \in Kind
        PROVE  Len(sidMap[k]) \in 0 .. MaxDefinitions[k]
               /\ Entries(k) \subseteq [sid : Sid, storeId : Address]
    <3>1. sidMap[k] \in Seq(Entry) /\ MaxDefinitions[k] \in Nat
          /\ Len(sidMap[k]) <= MaxDefinitions[k]
      BY HousekeepingAssumption DEF IInv, Typed
    <3>2. \A i \in DOMAIN sidMap[k] : sidMap[k][i] \in Entry
      BY InPool
    <3> QED BY <3>1, <3>2, LenProperties DEF Entries, Entry
  <2> QED BY <2>1 DEF IInv, Typed, TypeOK
<1>2. ASSUME Enabled(watched[1], watched[2])
      PROVE  waited < Period(watched[1], hkPool[storeId(watched[1], watched[2])])
  <2>1. PICK d \in Definition : Watched(d)
    BY <1>2, HasDefinition
  <2>2. d.enabled /\ hkPool[storeId(watched[1], watched[2])] = d /\ Reasonable(d)
    BY <1>2, <2>1, WatchedDue
  <2>3. InTime(d) /\ d.cycleCounter \in Nat \ {0}
    BY <2>1, <2>2 DEF IInv, Clocks, Reasonable, Definition
  <2>4. PICK before \in Nat : before = (d.cycleCounter - 1) * Look
    BY <2>3, Phases
  <2>5. /\ Look <= Period(watched[1], d) /\ Period(watched[1], d) \in Nat
        /\ d.cycleCounter <= IntervalInTicks(watched[1], d.interval)
             => before + Look <= Period(watched[1], d)
    BY <2>2, <2>3, <2>4, PeriodOf
  <2>6. \/ waited <= Phase
        \/ /\ d.cycleCounter <= IntervalInTicks(watched[1], d.interval)
           /\ waited <= before + Phase
    BY <2>2, <2>3, <2>4 DEF InTime, Counted
  <2> QED BY <2>2, <2>5, <2>6, Phases
<1> QED BY <1>1, <1>2 DEF NotLate, IInv

\* A report that is due is an interval away from the one before
LEMMA ApartStep ==
  ASSUME IInv
  PROVE  \A e \in DueNow \cap {watched} : gap + 1 >= Period(e[1], hkPool[storeId(e[1], e[2])])
<1> SUFFICES ASSUME watched \in DueNow
             PROVE  gap + 1 >= Period(watched[1], hkPool[storeId(watched[1], watched[2])])
  OBVIOUS
<1>1. PICK d \in Definition : Watched(d)
  BY HasDefinition
<1>2. /\ hkPool[storeId(watched[1], watched[2])] = d /\ Reasonable(d)
      /\ Checked(watched[1]) /\ Due(watched[1], d)
  BY <1>1, WatchedDue
<1>3. d.cycleCounter \in Nat \ {0}
      /\ d.cycleCounter >= IntervalInTicks(watched[1], d.interval)
  BY <1>2 DEF Reasonable, Definition, Due
<1>4. PICK before \in Nat : before = (d.cycleCounter - 1) * Look
  BY <1>3, Phases
<1>5. /\ Period(watched[1], d) \in Nat /\ Period(watched[1], d) <= GapBound + 1
      /\ Period(watched[1], d) <= before + Look
  BY <1>2, <1>3, <1>4, PeriodOf
<1>6. Phase = Look - 1
  <2>1. CASE watched[1] = "hk"
    BY <1>2, <2>1 DEF Checked, Phase, Look
  <2>2. CASE watched[1] # "hk"
    BY <2>2 DEF Phase, Look
  <2> QED BY <2>1, <2>2
<1>7. gap = GapBound \/ gap >= before + Phase
  BY <1>1, <1>4 DEF IInv, Clocks, Apart, Counted
<1> QED BY <1>2, <1>5, <1>6, <1>7, Phases

-----------------------------------------------------------------------------
\* The type invariant: neither map is over its capacity, and no counter out of
\* range, whatever is added, deleted and changed
THEOREM TypeCorrect == Spec => []TypeOK
<1> QED BY InitIInv, StepIInv, Consequences, PTL DEF Spec

\* Every element of hkPool that is in use has one entry in the two maps, and
\* every entry an element: add, append, delete and erase never lose or share one
THEOREM NothingLeaks == Spec => []PoolMatchesMaps
<1> QED BY InitIInv, StepIInv, Consequences, PTL DEF Spec

\* An enabled definition is reported within one collection interval of its last
\* report or of the last command for it, for every interval and factor
THEOREM ReportsInTime == Spec => []NotLate
<1> QED BY InitIInv, StepIInv, Consequences, PTL DEF Spec

\* No sequence of commands makes two periodic reports of a structure come closer
\* than the collection interval that holds then
THEOREM NotTooOften == Spec => ReportsApart
<1>1. IInv => [intervalCounter' # intervalCounter =>
       \A e \in DueNow \cap {watched} :
         gap + 1 >= Period(e[1], hkPool[storeId(e[1], e[2])])]_vars
  BY ApartStep
<1> QED BY <1>1, InitIInv, StepIInv, PTL DEF Spec, ReportsApart
=============================================================================
