------------------------- MODULE StoragePool_proofs -------------------------
(***************************************************************************)
(* Proofs about StoragePool: for any number of tasks, pools, elements and  *)
(* packets, provided that no wait for the lock times out.                  *)
(***************************************************************************)
EXTENDS StoragePool, WellFoundedInduction, TLAPS

(* Every non-empty set of natural numbers has a least element. *)
LEMMA NatMin ==
  ASSUME NEW T, T \subseteq Nat, T # {}
  PROVE  \E x \in T : \A y \in T : x <= y
<1> DEFINE R == OpToRel(<, Nat)
<1>1. IsWellFoundedOn(R, Nat)
  BY NatLessThanWellFounded
<1>2. PICK x \in T : \A y \in T : ~ (<<y, x>> \in R)
  <2> HIDE DEF R
  <2> QED BY <1>1, WFMin, Zenon
<1>3. \A y \in T : y < x => <<y, x>> \in R
  BY DEF OpToRel
<1>4. \A y \in T : ~ (y < x)
  BY <1>2, <1>3, Zenon
<1>5. \A y \in T : x <= y
  <2> HIDE DEF R
  <2> QED BY <1>4
<1> QED BY <1>5

(* So Min and Max of a set of pools are elements of it. *)
LEMMA PoolMinMax ==
  ASSUME NEW S, S \subseteq Pool, S # {}
  PROVE  Min(S) \in S /\ Max(S) \in S
<1>1. S \subseteq Nat /\ NumberOfPools \in Nat
  BY PoolAssumption DEF Pool
<1>2. \E x \in S : \A y \in S : x <= y
  BY <1>1, NatMin
<1>3. \E x \in S : \A y \in S : x >= y
  <2> DEFINE T == {n \in Nat : \E y \in S : n = NumberOfPools - y}
  <2>1. T # {} /\ T \subseteq Nat
    <3>1. PICK y \in S : TRUE
      OBVIOUS
    <3>2. NumberOfPools - y \in Nat
      BY <3>1, <1>1 DEF Pool
    <3> QED BY <3>1, <3>2
  <2>2. PICK n \in T : \A m \in T : n <= m
    <3> HIDE DEF T
    <3> QED BY <2>1, NatMin
  <2>3. PICK x \in S : n = NumberOfPools - x
    BY <2>2
  <2>4. \A y \in S : x >= y
    <3>1. TAKE y \in S
    <3>2. y \in Nat /\ x \in Nat /\ NumberOfPools - y \in Nat
      BY <1>1, <2>3 DEF Pool
    <3>3. n <= NumberOfPools - y
      BY <2>2, <3>2
    <3> QED BY <2>3, <3>2, <3>3, <1>1
  <2> QED BY <2>3, <2>4
<1> QED BY <1>2, <1>3 DEF Min, Max

(* The pools that are tried are pools of the store. *)
LEMMA TriedArePools == ASSUME NEW size PROVE PoolsTried(size) \subseteq Pool
<1>1. FittingPools(size) \subseteq Pool
  BY DEF FittingPools
<1>2. FittingPools(size) # {} => Min(FittingPools(size)) \in Pool
  BY <1>1, PoolMinMax
<1> QED BY <1>1, <1>2 DEF PoolsTried

(* findEmpty returns a free element when there is one. *)
LEMMA FirstFreeIsFree ==
  ASSUME NEW size, FreeElements(size) # {}
  PROVE  FirstFree(size) \in FreeElements(size)
<1> DEFINE S == FreeElements(size)
<1>1. \A a \in S : a[1] \in Nat /\ a[2] \in Nat
  BY PoolAssumption DEF FreeElements, Address, Pool, Index
<1>2. PICK p \in Nat : /\ \E a \in S : a[1] = p
                       /\ \A a \in S : p <= a[1]
  <2> DEFINE T == {n \in Nat : \E a \in S : a[1] = n}
  <2> HIDE DEF S
  <2>1. T # {} /\ T \subseteq Nat
    BY <1>1 DEF S
  <2>2. \A a \in S : a[1] \in T
    BY <1>1
  <2>3. PICK n \in T : \A m \in T : n <= m
    <3> HIDE DEF T
    <3> QED BY <2>1, NatMin
  <2> QED BY <2>2, <2>3
<1>3. PICK i \in Nat : /\ \E a \in S : a[1] = p /\ a[2] = i
                       /\ \A a \in S : a[1] = p => i <= a[2]
  <2> DEFINE T == {n \in Nat : \E a \in S : a[1] = p /\ a[2] = n}
  <2> HIDE DEF S
  <2>1. T # {} /\ T \subseteq Nat
    BY <1>1, <1>2
  <2>2. \A a \in S : a[1] = p => a[2] \in T
    BY <1>1
  <2>3. PICK n \in T : \A m \in T : n <= m
    <3> HIDE DEF T
    <3> QED BY <2>1, NatMin
  <2> QED BY <2>2, <2>3
<1>4. PICK a \in S : a[1] = p /\ a[2] = i
  BY <1>3
<1>5. \A b \in S : IsBefore(a, b)
  <2> HIDE DEF S
  <2> QED BY <1>1, <1>2, <1>3, <1>4 DEF IsBefore
<1> QED BY <1>4, <1>5 DEF FirstFree

-----------------------------------------------------------------------------
(* The memset of a page whose position fits clears that page only. *)
LEMMA PageOrder ==
  ASSUME NEW i \in Nat, NEW j \in Nat, NEW page \in Nat \ {0}, i * page < j * page + page
  PROVE  i <= j
<1> SUFFICES ASSUME ~(i <= j) PROVE FALSE
  OBVIOUS
<1>1. PICK k \in Nat : i = j + 1 + k
  <2>1. i - j - 1 \in Nat /\ i = j + 1 + (i - j - 1)
    OBVIOUS
  <2> QED BY <2>1
<1>2. (j + 1 + k) * page = j * page + page + k * page
  OBVIOUS
<1>3. k * page \in Nat
  OBVIOUS
<1>4. j * page \in Nat /\ page \in Nat
  OBVIOUS
<1> QED BY <1>1, <1>2, <1>3, <1>4

LEMMA ClearedIsOnePage ==
  ASSUME PositionsFit, NEW a \in Address
  PROVE  Cleared(a) \subseteq {a}
<1> DEFINE page == ElementSize[a[1]]
<1>1. /\ a \in Pool \X UNION {Index(p) : p \in Pool}
      /\ a[1] \in Pool /\ a[2] \in Nat /\ page \in Nat \ {0} /\ PositionModulus \in Nat \ {0}
  BY PoolAssumption DEF Address, Index
<1>2. (a[2] * page) % PositionModulus = a[2] * page
  <2>1. a[2] * page < PositionModulus
    BY DEF PositionsFit, Address
  <2>2. a[2] * page \in Nat
    BY <1>1
  <2> QED BY <2>1, <2>2, <1>1
<1>3. SUFFICES ASSUME NEW b \in Cleared(a) PROVE b = a
  OBVIOUS
<1>4. /\ b \in Pool \X UNION {Index(p) : p \in Pool}
      /\ b \in Address /\ b[1] = a[1] /\ b[2] \in Nat
      /\ b[2] * page < a[2] * page + page /\ a[2] * page < b[2] * page + page
  BY <1>2, PoolAssumption DEF Cleared, Address, Index
<1>5. b[2] <= a[2] /\ a[2] <= b[2]
  <2> HIDE DEF page
  <2> QED BY <1>1, <1>4, PageOrder
<1>6. b[2] = a[2]
  BY <1>1, <1>4, <1>5
<1> QED BY <1>1, <1>4, <1>6

-----------------------------------------------------------------------------
(* A task inside the lock owns the mutex: no two tasks are inside. *)
LockHeld ==
  \A t \in Task : pc[t] \in {"search", "reserve", "clear", "release"} => mutex = t

(* A call that has found an element works on an element of the pool, ...   *)
AddressKnown ==
  \A t \in Task : pc[t] \in {"reserve", "write", "delete", "clear", "release"} =>
                    storageId[t] \in Address

(* ... which stays free from the search to the reservation.                *)
StillFree == \A t \in Task : pc[t] = "reserve" => size_list[storageId[t]] = FREE

(* What has an owner is not free: the search finds nobody's element. *)
OwnedIsInUse ==
  /\ \A t \in Task : \A x \in tokens[t] : size_list[x[1]] # FREE
  /\ \A t \in Task, a \in Address : Claims(t, a) => size_list[a] # FREE

Exclusion == TypeOK /\ LockHeld /\ AddressKnown /\ StillFree

PoolInv == Exclusion /\ OwnedIsInUse /\ NoDoubleAllocation

(* The facts about the constants and the helpers that the steps use. *)
LEMMA Basics ==
  /\ NoTask \notin Task
  /\ Address \subseteq Pool \X Int
  /\ FREE \in Int /\ FREE \notin Nat
  /\ \A d \in Packet : SizeOf[d] \in Nat
BY PoolAssumption DEF Address, Index, FREE

LEMMA InitInv == Init => PoolInv
<1> SUFFICES ASSUME Init PROVE PoolInv
  OBVIOUS
<1>1. TypeOK
  BY PoolAssumption DEF Init, TypeOK, NoAddress
<1>2. LockHeld /\ AddressKnown /\ StillFree
  BY DEF Init, LockHeld, AddressKnown, StillFree
<1>3. OwnedIsInUse
  BY DEF Init, OwnedIsInUse, Claims
<1>4. NoDoubleAllocation
  BY DEF Init, NoDoubleAllocation, Claims
<1> QED BY <1>1, <1>2, <1>3, <1>4 DEF PoolInv, Exclusion

(* Types are preserved by every step. *)
LEMMA TypeStep ==
  ASSUME TypeOK, AddressKnown, [Next]_vars
  PROVE  TypeOK'
<1> USE Basics DEF TypeOK
<1>1. ASSUME NEW t \in Task, NEW d \in Packet, AddData(t, d) PROVE TypeOK'
  BY <1>1 DEF AddData, pool, NoAddress
<1>2. ASSUME NEW t \in Task, LockForAdd(t) PROVE TypeOK'
  BY <1>2 DEF LockForAdd, Enter, pool, locals
<1>3. ASSUME NEW t \in Task, Search(t) PROVE TypeOK'
  <2>1. FirstFree(SizeOf[data[t]]) \in Address
    BY <1>3, FirstFreeIsFree DEF Search, FreeElements
  <2> QED BY <1>3, <2>1 DEF Search, pool
<1>4. ASSUME NEW t \in Task, SearchFails(t) PROVE TypeOK'
  <2>1. PoolsTried(SizeOf[data[t]]) # {} => Max(PoolsTried(SizeOf[data[t]])) \in Pool
    BY TriedArePools, PoolMinMax
  <2>2. storageId' \in [Task -> (Pool \cup {-1}) \X Int]
    BY <1>4, <2>1 DEF SearchFails
  <2> QED BY <1>4, <2>2 DEF SearchFails, pool, Unlock
<1>5. ASSUME NEW t \in Task, Reserve(t) PROVE TypeOK'
  BY <1>5 DEF Reserve, locals, Unlock
<1>6. ASSUME NEW t \in Task, Write(t) PROVE TypeOK'
  BY <1>6 DEF Write, locals, AddressKnown
<1>7. ASSUME NEW t \in Task, NEW token \in tokens[t], NEW d \in Packet, ModifyData(t, token, d)
      PROVE  TypeOK'
  BY <1>7 DEF ModifyData, locals
<1>8. ASSUME NEW t \in Task, NEW token \in tokens[t], NEW u \in Task, Pass(t, u, token)
      PROVE  TypeOK'
  BY <1>8 DEF Pass, pool, locals
<1>9. ASSUME NEW t \in Task, NEW token \in tokens[t], DeleteData(t, token) PROVE TypeOK'
  BY <1>9 DEF DeleteData, pool
<1>10. ASSUME NEW t \in Task, LockForDelete(t) PROVE TypeOK'
  BY <1>10 DEF LockForDelete, Enter, pool, locals
<1>11. ASSUME NEW t \in Task, ClearPage(t) PROVE TypeOK'
  BY <1>11 DEF ClearPage, locals
<1>12. ASSUME NEW t \in Task, Release(t) PROVE TypeOK'
  BY <1>12 DEF Release, locals, Unlock
<1>13. CASE UNCHANGED vars
  BY <1>13 DEF vars
<1> QED BY <1>1, <1>2, <1>3, <1>4, <1>5, <1>6, <1>7, <1>8, <1>9, <1>10, <1>11, <1>12, <1>13
        DEF Next

(* A found element stays an element of the pool. *)
LEMMA AddressStep ==
  ASSUME TypeOK, AddressKnown, [Next]_vars
  PROVE  AddressKnown'
<1> USE DEF TypeOK, AddressKnown
<1>1. ASSUME NEW t \in Task, NEW d \in Packet, AddData(t, d) PROVE AddressKnown'
  BY <1>1 DEF AddData
<1>2. ASSUME NEW t \in Task, LockForAdd(t) \/ LockForDelete(t) PROVE AddressKnown'
  BY <1>2 DEF LockForAdd, LockForDelete, Enter, locals
<1>3. ASSUME NEW t \in Task, Search(t) PROVE AddressKnown'
  <2>1. FirstFree(SizeOf[data[t]]) \in Address
    BY <1>3, FirstFreeIsFree DEF Search, FreeElements
  <2> QED BY <1>3, <2>1 DEF Search
<1>4. ASSUME NEW t \in Task, SearchFails(t) PROVE AddressKnown'
  BY <1>4 DEF SearchFails
<1>5. ASSUME NEW t \in Task, Reserve(t) \/ Write(t) \/ ClearPage(t) \/ Release(t)
      PROVE  AddressKnown'
  BY <1>5 DEF Reserve, Write, ClearPage, Release, locals
<1>6. ASSUME NEW t \in Task, NEW token \in tokens[t], NEW d \in Packet, ModifyData(t, token, d)
      PROVE  AddressKnown'
  BY <1>6 DEF ModifyData, locals
<1>7. ASSUME NEW t \in Task, NEW token \in tokens[t], NEW u \in Task, Pass(t, u, token)
      PROVE  AddressKnown'
  BY <1>7 DEF Pass, locals
<1>8. ASSUME NEW t \in Task, NEW token \in tokens[t], DeleteData(t, token)
      PROVE  AddressKnown'
  BY <1>8 DEF DeleteData
<1>9. CASE UNCHANGED vars
  BY <1>9 DEF vars
<1> QED BY <1>1, <1>2, <1>3, <1>4, <1>5, <1>6, <1>7, <1>8, <1>9 DEF Next

(* Every variable keeps its type, whatever the lock does. *)
THEOREM TypeCorrect == Spec => []TypeOK
<1>1. Init => TypeOK /\ AddressKnown
  BY InitInv DEF PoolInv, Exclusion
<1>2. TypeOK /\ AddressKnown /\ [Next]_vars => (TypeOK /\ AddressKnown)'
  BY TypeStep, AddressStep
<1> QED BY <1>1, <1>2, PTL DEF Spec

-----------------------------------------------------------------------------
(* The lock excludes as long as nobody gives up waiting for it. *)
LEMMA LockStep ==
  ASSUME ~LockTimesOut, TypeOK, LockHeld, [Next]_vars
  PROVE  LockHeld'
<1> USE Basics DEF TypeOK, LockHeld
<1>1. ASSUME NEW t \in Task, NEW d \in Packet, AddData(t, d) PROVE LockHeld'
  BY <1>1 DEF AddData
<1>2. ASSUME NEW t \in Task, LockForAdd(t) \/ LockForDelete(t) PROVE LockHeld'
  BY <1>2 DEF LockForAdd, LockForDelete, Enter
<1>3. ASSUME NEW t \in Task, Search(t) \/ ClearPage(t) PROVE LockHeld'
  BY <1>3 DEF Search, ClearPage
<1>4. ASSUME NEW t \in Task, SearchFails(t) PROVE LockHeld'
  BY <1>4 DEF SearchFails, Unlock
<1>5. ASSUME NEW t \in Task, Reserve(t) \/ Release(t) PROVE LockHeld'
  BY <1>5 DEF Reserve, Release, Unlock
<1>6. ASSUME NEW t \in Task, Write(t) PROVE LockHeld'
  BY <1>6 DEF Write
<1>7. ASSUME NEW t \in Task, NEW token \in tokens[t], NEW d \in Packet, ModifyData(t, token, d)
      PROVE  LockHeld'
  BY <1>7 DEF ModifyData
<1>8. ASSUME NEW t \in Task, NEW token \in tokens[t], NEW u \in Task, Pass(t, u, token)
      PROVE  LockHeld'
  BY <1>8 DEF Pass
<1>9. ASSUME NEW t \in Task, NEW token \in tokens[t], DeleteData(t, token) PROVE LockHeld'
  BY <1>9 DEF DeleteData
<1>10. CASE UNCHANGED vars
  BY <1>10 DEF vars
<1> QED BY <1>1, <1>2, <1>3, <1>4, <1>5, <1>6, <1>7, <1>8, <1>9, <1>10 DEF Next

(* A found element stays free until it is reserved: only the task in the   *)
(* lock reserves, and owners free or write their own elements only.        *)
LEMMA StillFreeStep ==
  ASSUME TypeOK, LockHeld, AddressKnown, StillFree, OwnedIsInUse, [Next]_vars
  PROVE  StillFree'
<1> USE Basics DEF TypeOK, LockHeld, AddressKnown, StillFree
<1>1. ASSUME NEW t \in Task, NEW d \in Packet, AddData(t, d) PROVE StillFree'
  BY <1>1 DEF AddData, pool
<1>2. ASSUME NEW t \in Task, LockForAdd(t) \/ LockForDelete(t) PROVE StillFree'
  BY <1>2 DEF LockForAdd, LockForDelete, Enter, pool, locals
<1>3. ASSUME NEW t \in Task, Search(t) PROVE StillFree'
  <2>1. size_list[FirstFree(SizeOf[data[t]])] = FREE
    BY <1>3, FirstFreeIsFree DEF Search, FreeElements
  <2> QED BY <1>3, <2>1 DEF Search, pool
<1>4. ASSUME NEW t \in Task, SearchFails(t) PROVE StillFree'
  BY <1>4 DEF SearchFails, pool
<1>5. ASSUME NEW t \in Task, Reserve(t) PROVE StillFree'
  BY <1>5 DEF Reserve, locals
<1>6. ASSUME NEW t \in Task, Write(t) PROVE StillFree'
  <2>1. size_list[storageId[t]] # FREE
    BY <1>6 DEF Write, OwnedIsInUse, Claims
  <2> QED BY <1>6, <2>1 DEF Write, locals
<1>7. ASSUME NEW t \in Task, NEW token \in tokens[t], NEW d \in Packet, ModifyData(t, token, d)
      PROVE  StillFree'
  BY <1>7 DEF ModifyData, locals
<1>8. ASSUME NEW t \in Task, NEW token \in tokens[t], NEW u \in Task, Pass(t, u, token)
      PROVE  StillFree'
  BY <1>8 DEF Pass, pool, locals
<1>9. ASSUME NEW t \in Task, NEW token \in tokens[t], DeleteData(t, token) PROVE StillFree'
  BY <1>9 DEF DeleteData, pool
<1>10. ASSUME NEW t \in Task, ClearPage(t) PROVE StillFree'
  BY <1>10 DEF ClearPage, locals
<1>11. ASSUME NEW t \in Task, Release(t) PROVE StillFree'
  BY <1>11 DEF Release, locals
<1>12. CASE UNCHANGED vars
  BY <1>12 DEF vars
<1> QED BY <1>1, <1>2, <1>3, <1>4, <1>5, <1>6, <1>7, <1>8, <1>9, <1>10, <1>11, <1>12 DEF Next

(* What is owned stays in use: an element is freed by its owner, who owns  *)
(* it alone.                                                               *)
LEMMA OwnedStep ==
  ASSUME TypeOK, AddressKnown, OwnedIsInUse, NoDoubleAllocation, [Next]_vars
  PROVE  OwnedIsInUse'
<1> USE Basics DEF TypeOK, AddressKnown, OwnedIsInUse, Claims
<1>1. ASSUME NEW t \in Task, NEW d \in Packet, AddData(t, d) PROVE OwnedIsInUse'
  BY <1>1 DEF AddData, pool
<1>2. ASSUME NEW t \in Task, LockForAdd(t) \/ LockForDelete(t) PROVE OwnedIsInUse'
  BY <1>2 DEF LockForAdd, LockForDelete, Enter, pool, locals
<1>3. ASSUME NEW t \in Task, Search(t) \/ SearchFails(t) PROVE OwnedIsInUse'
  <2>1. UNCHANGED <<size_list, tokens>>
    BY <1>3 DEF Search, SearchFails, pool
  <2>2. \A u \in Task, a \in Address : Claims(u, a)' => Claims(u, a)
    BY <1>3 DEF Search, SearchFails
  <2> QED BY <2>1, <2>2
<1>4. ASSUME NEW t \in Task, Reserve(t) PROVE OwnedIsInUse'
  BY <1>4 DEF Reserve, locals
<1>5. ASSUME NEW t \in Task, Write(t) PROVE OwnedIsInUse'
  BY <1>5 DEF Write, locals
<1>6. ASSUME NEW t \in Task, NEW token \in tokens[t], NEW d \in Packet, ModifyData(t, token, d)
      PROVE  OwnedIsInUse'
  BY <1>6 DEF ModifyData, locals
<1>7. ASSUME NEW t \in Task, NEW token \in tokens[t], NEW u \in Task, Pass(t, u, token)
      PROVE  OwnedIsInUse'
  BY <1>7 DEF Pass, pool, locals
<1>8. ASSUME NEW t \in Task, NEW token \in tokens[t], DeleteData(t, token)
      PROVE  OwnedIsInUse'
  BY <1>8 DEF DeleteData, pool
<1>9. ASSUME NEW t \in Task, ClearPage(t) PROVE OwnedIsInUse'
  BY <1>9 DEF ClearPage, locals
<1>10. ASSUME NEW t \in Task, Release(t) PROVE OwnedIsInUse'
  BY <1>10 DEF Release, locals, NoDoubleAllocation
<1>11. CASE UNCHANGED vars
  BY <1>11 DEF vars
<1> QED BY <1>1, <1>2, <1>3, <1>4, <1>5, <1>6, <1>7, <1>8, <1>9, <1>10, <1>11 DEF Next

(* The parts of NoDoubleAllocation. *)
TokensApart ==
  \A t, u \in Task : \A x \in tokens[t], y \in tokens[u] : x[1] = y[1] => t = u /\ x = y
TokensUnclaimed == \A t, u \in Task : \A x \in tokens[t] : ~Claims(u, x[1])
ClaimsApart ==
  \A t, u \in Task : \A a \in Address : Claims(t, a) /\ Claims(u, a) => t = u

LEMMA Parts == NoDoubleAllocation <=> TokensApart /\ TokensUnclaimed /\ ClaimsApart
BY DEF NoDoubleAllocation, TokensApart, TokensUnclaimed, ClaimsApart

LEMMA PartsAfter ==
  ASSUME TokensApart', TokensUnclaimed', ClaimsApart' PROVE NoDoubleAllocation'
BY DEF NoDoubleAllocation, TokensApart, TokensUnclaimed, ClaimsApart

(* A step that creates no token and no claim cannot break it. *)
LEMMA NothingNew ==
  ASSUME NoDoubleAllocation,
         \A t \in Task : tokens'[t] \subseteq tokens[t],
         \A t \in Task, a \in Address : Claims(t, a)' => Claims(t, a),
         TypeOK
  PROVE  NoDoubleAllocation'
<1> USE Parts
<1>1. TokensApart'
  BY DEF TokensApart
<1>2. TokensUnclaimed'
  <2>1. \A t \in Task : \A x \in tokens'[t] : x[1] \in Address
    BY DEF TypeOK
  <2> QED BY <2>1 DEF TokensUnclaimed
<1>3. ClaimsApart'
  BY DEF ClaimsApart
<1> QED BY <1>1, <1>2, <1>3, PartsAfter

(* Owners stay apart: a reservation is of a free element, hence of nobody, *)
(* and every other step moves an element from one owner to one other.      *)
LEMMA SingleOwnerStep ==
  ASSUME TypeOK, AddressKnown, StillFree, OwnedIsInUse, NoDoubleAllocation, [Next]_vars
  PROVE  NoDoubleAllocation'
<1>a. TokensApart /\ TokensUnclaimed /\ ClaimsApart
  BY Parts
<1> USE Basics DEF TypeOK
<1>1. ASSUME NEW t \in Task, NEW d \in Packet, AddData(t, d) PROVE NoDoubleAllocation'
  BY <1>1, NothingNew DEF AddData, Claims
<1>2. ASSUME NEW t \in Task, LockForAdd(t) \/ LockForDelete(t) PROVE NoDoubleAllocation'
  BY <1>2, NothingNew DEF LockForAdd, LockForDelete, Enter, locals, Claims
<1>3. ASSUME NEW t \in Task, Search(t) \/ SearchFails(t) PROVE NoDoubleAllocation'
  BY <1>3, NothingNew DEF Search, SearchFails, Claims
<1>4. ASSUME NEW t \in Task, Reserve(t) PROVE NoDoubleAllocation'
  <2>1. \A u \in Task, a \in Address : Claims(u, a)' => Claims(u, a) \/ (u = t /\ a = storageId[t])
    BY <1>4 DEF Reserve, locals, Claims
  <2>2. size_list[storageId[t]] = FREE /\ tokens' = tokens
    BY <1>4 DEF Reserve, locals, StillFree
  <2>3. \A u \in Task : \A x \in tokens[u] : x[1] # storageId[t] /\ x[1] \in Address
    BY <2>2 DEF OwnedIsInUse
  <2>4. \A u \in Task : ~Claims(u, storageId[t])
    <3>1. storageId[t] \in Address
      BY <1>4 DEF Reserve, AddressKnown
    <3> QED BY <2>2, <3>1 DEF OwnedIsInUse
  <2>5. TokensApart'
    BY <1>a, <2>2 DEF TokensApart
  <2>6. TokensUnclaimed'
    BY <1>a, <2>1, <2>2, <2>3 DEF TokensUnclaimed
  <2>7. ClaimsApart'
    BY <1>a, <2>1, <2>4 DEF ClaimsApart
  <2> QED BY <2>5, <2>6, <2>7, PartsAfter
<1>5. ASSUME NEW t \in Task, Write(t) PROVE NoDoubleAllocation'
  <2>1. \A u \in Task, a \in Address : Claims(u, a)' <=> Claims(u, a) /\ u # t
    BY <1>5 DEF Write, locals, Claims
  <2>2. \A u \in Task : \A x \in tokens'[u] :
          x \in tokens[u] \/ (u = t /\ x = <<storageId[t], data[t]>>)
    BY <1>5 DEF Write
  <2>3. storageId[t] \in Address /\ Claims(t, storageId[t])
    BY <1>5 DEF Write, Claims, AddressKnown
  <2>4. TokensApart'
    BY <1>a, <2>2, <2>3 DEF TokensApart, TokensUnclaimed
  <2>5. TokensUnclaimed'
    <3>1. \A u \in Task : \A x \in tokens'[u] : x[1] \in Address
      BY <2>2, <2>3
    <3> QED BY <1>a, <2>1, <2>2, <2>3, <3>1 DEF TokensUnclaimed, ClaimsApart
  <2>6. ClaimsApart'
    BY <1>a, <2>1 DEF ClaimsApart
  <2> QED BY <2>4, <2>5, <2>6, PartsAfter
<1>6. ASSUME NEW t \in Task, NEW token \in tokens[t], NEW d \in Packet, ModifyData(t, token, d)
      PROVE  NoDoubleAllocation'
  <2>1. \A u \in Task, a \in Address : Claims(u, a)' <=> Claims(u, a)
    BY <1>6 DEF ModifyData, locals, Claims
  <2>2. \A u \in Task : \A x \in tokens'[u] :
          (x \in tokens[u] /\ ~(u = t /\ x = token)) \/ (u = t /\ x = <<token[1], d>>)
    BY <1>6 DEF ModifyData
  <2>3. \A u \in Task : \A x \in tokens'[u] : x[1] \in Address
    BY <2>2
  <2>4. TokensApart'
    <3>1. SUFFICES ASSUME NEW u \in Task, NEW v \in Task, NEW x \in tokens'[u],
                          NEW y \in tokens'[v], x[1] = y[1]
                   PROVE  u = v /\ x = y
      BY DEF TokensApart
    <3>2. CASE u = t /\ x = <<token[1], d>>
      <4>1. y \in tokens[v] => v = t /\ y = token
        BY <1>a, <3>1, <3>2 DEF TokensApart
      <4> QED BY <2>2, <3>2, <4>1
    <3>3. CASE v = t /\ y = <<token[1], d>>
      <4>1. x \in tokens[u] => u = t /\ x = token
        BY <1>a, <3>1, <3>3 DEF TokensApart
      <4> QED BY <2>2, <3>3, <4>1
    <3>4. CASE x \in tokens[u] /\ y \in tokens[v]
      BY <1>a, <3>1, <3>4 DEF TokensApart
    <3> QED BY <2>2, <3>2, <3>3, <3>4
  <2>5. TokensUnclaimed' /\ ClaimsApart'
    BY <1>a, <2>1, <2>2, <2>3 DEF TokensUnclaimed, ClaimsApart
  <2> QED BY <2>4, <2>5, PartsAfter
<1>7. ASSUME NEW t \in Task, NEW token \in tokens[t], NEW u \in Task, Pass(t, u, token)
      PROVE  NoDoubleAllocation'
  <2>1. \A v \in Task, a \in Address : Claims(v, a)' <=> Claims(v, a)
    BY <1>7 DEF Pass, locals, Claims
  <2>2. \A v \in Task : \A x \in tokens'[v] :
          (x \in tokens[v] /\ ~(v = t /\ x = token)) \/ (v = u /\ x = token)
    BY <1>7 DEF Pass
  <2>3. \A v \in Task : \A x \in tokens'[v] : x[1] \in Address
    BY <2>2
  <2>4. TokensApart'
    BY <1>a, <2>2 DEF TokensApart
  <2>5. TokensUnclaimed' /\ ClaimsApart'
    BY <1>a, <2>1, <2>2, <2>3 DEF TokensUnclaimed, ClaimsApart
  <2> QED BY <2>4, <2>5, PartsAfter
<1>8. ASSUME NEW t \in Task, NEW token \in tokens[t], DeleteData(t, token)
      PROVE  NoDoubleAllocation'
  <2>1. \A u \in Task, a \in Address : Claims(u, a)' => Claims(u, a) \/ (u = t /\ a = token[1])
    BY <1>8 DEF DeleteData, Claims
  <2>2. \A u \in Task : \A x \in tokens'[u] : x \in tokens[u] /\ ~(u = t /\ x = token)
    BY <1>8 DEF DeleteData
  <2>3. \A u \in Task : \A x \in tokens'[u] : x[1] \in Address
    BY <2>2
  <2>4. TokensApart'
    BY <1>a, <2>2 DEF TokensApart
  <2>5. TokensUnclaimed'
    BY <1>a, <2>1, <2>2, <2>3 DEF TokensApart, TokensUnclaimed
  <2>6. ClaimsApart'
    BY <1>a, <2>1 DEF TokensUnclaimed, ClaimsApart
  <2> QED BY <2>4, <2>5, <2>6, PartsAfter
<1>9. ASSUME NEW t \in Task, ClearPage(t) \/ Release(t) PROVE NoDoubleAllocation'
  BY <1>9, NothingNew DEF ClearPage, Release, locals, Claims
<1>10. CASE UNCHANGED vars
  BY <1>10, NothingNew DEF vars, Claims
<1> QED BY <1>1, <1>2, <1>3, <1>4, <1>5, <1>6, <1>7, <1>8, <1>9, <1>10 DEF Next

LEMMA PoolInvariance == ASSUME ~LockTimesOut PROVE Spec => []PoolInv
<1>1. Init => PoolInv
  BY InitInv
<1>2. PoolInv /\ [Next]_vars => PoolInv'
  BY TypeStep, AddressStep, LockStep, StillFreeStep, OwnedStep, SingleOwnerStep
     DEF PoolInv, Exclusion
<1> QED BY <1>1, <1>2, PTL DEF Spec

(* No element is ever given out twice. *)
THEOREM SingleOwner == ASSUME ~LockTimesOut PROVE Spec => []NoDoubleAllocation
<1>1. PoolInv => NoDoubleAllocation
  BY DEF PoolInv
<1> QED BY <1>1, PoolInvariance, PTL
-----------------------------------------------------------------------------
(* Nobody else's step touches a packet that somebody holds.                *)
LEMMA IntactStep ==
  ASSUME PositionsFit, PoolInv, TokensIntact, [Next]_vars
  PROVE  TokensIntact'
<1>a. TypeOK /\ StillFree /\ AddressKnown /\ OwnedIsInUse
  BY DEF PoolInv, Exclusion
<1>b. TokensApart /\ TokensUnclaimed /\ ClaimsApart
  BY Parts DEF PoolInv
<1>c. \A t \in Task : \A x \in tokens[t] :
        x[1] \in Address /\ x[2] \in Packet /\ x = <<x[1], x[2]>>
  BY <1>a DEF TypeOK
<1> USE Basics, <1>a DEF TypeOK
<1>1. ASSUME NEW t \in Task, NEW d \in Packet, AddData(t, d) PROVE TokensIntact'
  BY <1>1 DEF AddData, pool, TokensIntact
<1>2. ASSUME NEW t \in Task, LockForAdd(t) \/ LockForDelete(t) PROVE TokensIntact'
  BY <1>2 DEF LockForAdd, LockForDelete, pool, TokensIntact
<1>3. ASSUME NEW t \in Task, Search(t) \/ SearchFails(t) PROVE TokensIntact'
  BY <1>3 DEF Search, SearchFails, pool, TokensIntact
<1>4. ASSUME NEW t \in Task, Reserve(t) PROVE TokensIntact'
  <2>1. storageId[t] \in Address /\ size_list[storageId[t]] = FREE
    BY <1>4 DEF Reserve, AddressKnown, StillFree
  <2>2. \A u \in Task : \A x \in tokens[u] : x[1] # storageId[t]
    BY <2>1, <1>c DEF OwnedIsInUse
  <2> QED BY <1>4, <2>1, <2>2, <1>c DEF Reserve, TokensIntact
<1>5. ASSUME NEW t \in Task, Write(t) PROVE TokensIntact'
  <2>1. storageId[t] \in Address /\ Claims(t, storageId[t])
    BY <1>5 DEF Write, AddressKnown, Claims
  <2>2. \A u \in Task : \A x \in tokens[u] : x[1] # storageId[t]
    BY <2>1, <1>b DEF TokensUnclaimed
  <2>3. \A u \in Task : \A x \in tokens'[u] :
          x \in tokens[u] \/ x = <<storageId[t], data[t]>>
    BY <1>5 DEF Write
  <2> QED BY <1>5, <2>1, <2>2, <2>3, <1>c DEF Write, TokensIntact
<1>6. ASSUME NEW t \in Task, NEW token \in tokens[t], NEW d \in Packet, ModifyData(t, token, d)
      PROVE  TokensIntact'
  <2>1. \A u \in Task : \A x \in tokens'[u] :
          (x \in tokens[u] /\ ~(u = t /\ x = token)) \/ x = <<token[1], d>>
    BY <1>6 DEF ModifyData
  <2>2. \A u \in Task : \A x \in tokens[u] : ~(u = t /\ x = token) => x[1] # token[1]
    BY <1>b DEF TokensApart
  <2> QED BY <1>6, <2>1, <2>2, <1>c DEF ModifyData, TokensIntact
<1>7. ASSUME NEW t \in Task, NEW token \in tokens[t], NEW u \in Task, Pass(t, u, token)
      PROVE  TokensIntact'
  BY <1>7 DEF Pass, pool, TokensIntact
<1>8. ASSUME NEW t \in Task, NEW token \in tokens[t], DeleteData(t, token)
      PROVE  TokensIntact'
  BY <1>8 DEF DeleteData, pool, TokensIntact
<1>9. ASSUME NEW t \in Task, ClearPage(t) PROVE TokensIntact'
  <2>1. storageId[t] \in Address /\ Claims(t, storageId[t])
    BY <1>9 DEF ClearPage, AddressKnown, Claims
  <2>2. \A u \in Task : \A x \in tokens[u] : x[1] \notin Cleared(storageId[t])
    BY <2>1, <1>b, ClearedIsOnePage DEF TokensUnclaimed
  <2> QED BY <1>9, <2>2, <1>c DEF ClearPage, locals, TokensIntact
<1>10. ASSUME NEW t \in Task, Release(t) PROVE TokensIntact'
  <2>1. storageId[t] \in Address /\ Claims(t, storageId[t])
    BY <1>10 DEF Release, AddressKnown, Claims
  <2>2. \A u \in Task : \A x \in tokens[u] : x[1] # storageId[t]
    BY <2>1, <1>b DEF TokensUnclaimed
  <2> QED BY <1>10, <2>1, <2>2, <1>c DEF Release, locals, TokensIntact
<1>11. CASE UNCHANGED vars
  BY <1>11 DEF vars, TokensIntact
<1> QED BY <1>1, <1>2, <1>3, <1>4, <1>5, <1>6, <1>7, <1>8, <1>9, <1>10, <1>11 DEF Next

(* A packet is intact for as long as somebody holds its address, if every  *)
(* position of the pool fits into the uint16_t of deleteData.              *)
THEOREM PacketsStayIntact ==
  ASSUME ~LockTimesOut, PositionsFit PROVE Spec => []TokensIntact
<1>1. Init => TokensIntact
  BY DEF Init, TokensIntact
<1>2. PoolInv /\ TokensIntact /\ [Next]_vars => TokensIntact'
  BY IntactStep
<1> QED BY <1>1, <1>2, PoolInvariance, PTL DEF Spec

-----------------------------------------------------------------------------
(* An element in use always has an owner, whether or not the lock holds:   *)
(* a call that loses the race still writes into or frees what it names.    *)
LEMMA NoLeakStep ==
  ASSUME TypeOK, NoLeak, [Next]_vars PROVE NoLeak'
<1> SUFFICES ASSUME NEW a \in Address, size_list'[a] # FREE
             PROVE  \/ \E t \in Task : \E x \in tokens'[t] : x[1] = a
                    \/ \E t \in Task : Claims(t, a)'
  BY DEF NoLeak
<1>a. size_list[a] # FREE => \/ \E t \in Task : \E x \in tokens[t] : x[1] = a
                             \/ \E t \in Task : Claims(t, a)
  BY DEF NoLeak
<1> DEFINE Owned == \/ \E t \in Task : \E x \in tokens'[t] : x[1] = a
                    \/ \E t \in Task : Claims(t, a)'
<1> USE Basics DEF TypeOK
<1>1. ASSUME NEW t \in Task, NEW d \in Packet, AddData(t, d) PROVE Owned
  BY <1>1, <1>a DEF AddData, pool, Claims
<1>2. ASSUME NEW t \in Task, LockForAdd(t) \/ LockForDelete(t) PROVE Owned
  BY <1>2, <1>a DEF LockForAdd, LockForDelete, Enter, pool, locals, Claims
<1>3. ASSUME NEW t \in Task, Search(t) \/ SearchFails(t) PROVE Owned
  BY <1>3, <1>a DEF Search, SearchFails, pool, Claims
<1>4. ASSUME NEW t \in Task, Reserve(t) PROVE Owned
  <2>1. CASE storageId[t] = a
    BY <1>4, <2>1 DEF Reserve, locals, Claims
  <2>2. CASE storageId[t] # a
    BY <1>4, <2>2, <1>a DEF Reserve, locals, Claims
  <2> QED BY <2>1, <2>2
<1>5. ASSUME NEW t \in Task, Write(t) PROVE Owned
  <2>1. CASE storageId[t] = a
    <3>1. <<storageId[t], data[t]>> \in tokens'[t]
      BY <1>5 DEF Write
    <3> QED BY <2>1, <3>1
  <2>2. CASE storageId[t] # a
    BY <1>5, <2>2, <1>a DEF Write, locals, Claims
  <2> QED BY <2>1, <2>2
<1>6. ASSUME NEW t \in Task, NEW token \in tokens[t], NEW d \in Packet, ModifyData(t, token, d)
      PROVE  Owned
  <2>1. <<token[1], d>> \in tokens'[t]
    BY <1>6 DEF ModifyData
  <2>2. \A u \in Task : \A x \in tokens[u] : x \in tokens'[u] \/ x = token
    BY <1>6 DEF ModifyData
  <2> QED BY <1>6, <2>1, <2>2, <1>a DEF ModifyData, locals, Claims
<1>7. ASSUME NEW t \in Task, NEW token \in tokens[t], NEW u \in Task, Pass(t, u, token)
      PROVE  Owned
  <2>1. token \in tokens'[u]
    BY <1>7 DEF Pass
  <2>2. \A v \in Task : \A x \in tokens[v] : x \in tokens'[v] \/ x = token
    BY <1>7 DEF Pass
  <2> QED BY <1>7, <2>1, <2>2, <1>a DEF Pass, pool, locals, Claims
<1>8. ASSUME NEW t \in Task, NEW token \in tokens[t], DeleteData(t, token) PROVE Owned
  <2>1. token[1] = a => Claims(t, a)'
    BY <1>8 DEF DeleteData, Claims
  <2>2. \A v \in Task : \A x \in tokens[v] : x \in tokens'[v] \/ x = token
    BY <1>8 DEF DeleteData
  <2> QED BY <1>8, <2>1, <2>2, <1>a DEF DeleteData, pool, Claims
<1>9. ASSUME NEW t \in Task, ClearPage(t) PROVE Owned
  BY <1>9, <1>a DEF ClearPage, locals, Claims
<1>10. ASSUME NEW t \in Task, Release(t) PROVE Owned
  <2>1. storageId[t] # a
    BY <1>10 DEF Release
  <2> QED BY <1>10, <2>1, <1>a DEF Release, locals, Claims
<1>11. CASE UNCHANGED vars
  BY <1>11, <1>a DEF vars, Claims
<1> QED BY <1>1, <1>2, <1>3, <1>4, <1>5, <1>6, <1>7, <1>8, <1>9, <1>10, <1>11 DEF Next

(* No element of the pool is lost: what is not free has somebody who can   *)
(* free it.                                                                *)
THEOREM NothingLeaks == Spec => []NoLeak
<1>1. Init => NoLeak
  BY DEF Init, NoLeak
<1>2. TypeOK /\ NoLeak /\ [Next]_vars => NoLeak'
  BY NoLeakStep
<1> QED BY <1>1, <1>2, TypeCorrect, PTL DEF Spec

-----------------------------------------------------------------------------
(***************************************************************************)
(* The pool implements TokenStore.  The abstract holder of an element is   *)
(* its one owner, and what the abstract store contains is in the element   *)
(* from the memcpy to the memset.                                          *)
(***************************************************************************)
StoreInv == PoolInv /\ TokensIntact /\ NoLeak

LEMMA HolderIs ==
  ASSUME StoreInv, NEW a \in Address, NEW t \in Task, InUse(a), Holds(t, a)
  PROVE  HolderOf(a) = t
<1>1. \A u \in Task : Holds(u, a) => u = t
  BY DEF StoreInv, PoolInv, NoDoubleAllocation, Holds
<1> QED BY <1>1 DEF HolderOf

LEMMA HolderNext ==
  ASSUME StoreInv', NEW a \in Address, NEW t \in Task, InUse(a)', Holds(t, a)'
  PROVE  HolderOf(a)' = t
<1>1. \A u \in Task : Holds(u, a)' => u = t
  BY DEF StoreInv, PoolInv, NoDoubleAllocation, Holds
<1> QED BY <1>1 DEF HolderOf

LEMMA SomeHolder ==
  ASSUME StoreInv, NEW a \in Address, InUse(a)
  PROVE  \E t \in Task : Holds(t, a)
BY DEF StoreInv, NoLeak, InUse, Holds

LEMMA NotInUse ==
  ASSUME NEW a
  PROVE  /\ ~InUse(a) => ContentOf(a) = Free /\ HolderOf(a) = NoTask
         /\ ~InUse(a)' => ContentOf(a)' = Free /\ HolderOf(a)' = NoTask
BY DEF ContentOf, HolderOf

(* An element that has kept its owner and its data.                        *)
LEMMA SameElement ==
  ASSUME StoreInv, StoreInv', NEW a \in Address, InUse(a)' <=> InUse(a),
         InUse(a) => /\ store'[a] = store[a]
                     /\ \A t \in Task : Holds(t, a) => Holds(t, a)'
  PROVE  ContentOf(a)' = ContentOf(a) /\ HolderOf(a)' = HolderOf(a)
<1>1. CASE ~InUse(a)
  BY <1>1 DEF ContentOf, HolderOf
<1>2. CASE InUse(a)
  <2>1. PICK t \in Task : Holds(t, a)
    BY <1>2, SomeHolder
  <2>2. HolderOf(a) = t
    BY <1>2, <2>1, HolderIs
  <2>3. HolderOf(a)' = t
    <3>1. \A u \in Task : Holds(u, a)' => u = t
      BY <1>2, <2>1 DEF StoreInv, PoolInv, NoDoubleAllocation, Holds
    <3> QED BY <1>2, <2>1, <3>1 DEF HolderOf
  <2> QED BY <1>2, <2>2, <2>3 DEF ContentOf
<1> QED BY <1>1, <1>2

LEMMA NoElement ==
  ASSUME \A a \in Address : ContentOf(a)' = ContentOf(a) /\ HolderOf(a)' = HolderOf(a)
  PROVE  UNCHANGED Abstract!vars
BY DEF Abstract!vars

LEMMA OneElement ==
  ASSUME NEW s \in Address,
         \A a \in Address \ {s} : ContentOf(a)' = ContentOf(a) /\ HolderOf(a)' = HolderOf(a),
         Abstract!Allocate(s) \/ Abstract!Fill(s) \/ Abstract!Pass(s) \/ Abstract!Delete(s)
  PROVE  Abstract!Next
BY DEF Abstract!Next

(* What no call touches stays as it is.                                    *)
LEMMA Bystander ==
  ASSUME StoreInv, StoreInv', NEW t \in Task, NEW a \in Address,
         size_list'[a] = size_list[a], store'[a] = store[a],
         \A u \in Task \ {t} : /\ pc'[u] = pc[u] /\ storageId'[u] = storageId[u]
                               /\ \A x \in tokens[u] : x[1] = a => x \in tokens'[u],
         Holds(t, a) => Holds(t, a)',
         pc[t] # "release" \/ storageId[t] # a, pc'[t] # "release" \/ storageId'[t] # a
  PROVE  ContentOf(a)' = ContentOf(a) /\ HolderOf(a)' = HolderOf(a)
<1>1. InUse(a)' <=> InUse(a)
  BY DEF InUse
<1>2. \A u \in Task : Holds(u, a) => Holds(u, a)'
  BY DEF Holds, Claims
<1> QED BY <1>1, <1>2, SameElement

(* Most of the steps of a call happen inside of it: they change no packet  *)
(* and no owner.                                                           *)
LEMMA InsideCall ==
  ASSUME StoreInv, StoreInv', NEW t \in Task,
         \/ \E d \in Packet : AddData(t, d)
         \/ LockForAdd(t) \/ Search(t) \/ SearchFails(t)
         \/ \E token \in tokens[t] : DeleteData(t, token)
         \/ LockForDelete(t)
  PROVE  UNCHANGED Abstract!vars
<1> USE DEF StoreInv, PoolInv, Exclusion, TypeOK
<1>1. ASSUME NEW a \in Address
      PROVE  ContentOf(a)' = ContentOf(a) /\ HolderOf(a)' = HolderOf(a)
  <2>1. size_list'[a] = size_list[a] /\ store'[a] = store[a]
    BY DEF AddData, LockForAdd, Search, SearchFails, DeleteData, LockForDelete, pool
  <2>2. pc[t] # "release" /\ pc'[t] # "release"
    BY DEF AddData, LockForAdd, Search, SearchFails, DeleteData, LockForDelete, Enter
  <2>3. \A u \in Task \ {t} : /\ pc'[u] = pc[u] /\ storageId'[u] = storageId[u]
                              /\ tokens'[u] = tokens[u]
    BY DEF AddData, LockForAdd, Search, SearchFails, DeleteData, LockForDelete, Enter, locals
  <2>4. Holds(t, a) => Holds(t, a)'
    <3>1. CASE (\E d \in Packet : AddData(t, d)) \/ Search(t) \/ SearchFails(t)
      BY <3>1 DEF AddData, Search, SearchFails, Holds, Claims
    <3>2. CASE LockForAdd(t) \/ LockForDelete(t)
      BY <3>2 DEF LockForAdd, LockForDelete, Enter, locals, Holds, Claims
    <3>3. ASSUME NEW token \in tokens[t], DeleteData(t, token) PROVE Holds(t, a) => Holds(t, a)'
      BY <3>3 DEF DeleteData, Holds, Claims
    <3> QED BY <3>1, <3>2, <3>3
  <2> QED BY <2>1, <2>2, <2>3, <2>4, Bystander
<1> QED BY <1>1, NoElement

(* The reservation is the allocation of the abstract store, ...            *)
LEMMA ReserveAllocates ==
  ASSUME StoreInv, StoreInv', NEW t \in Task, Reserve(t)
  PROVE  Abstract!Next
<1> USE DEF StoreInv, PoolInv, Exclusion, TypeOK
<1>0. PICK s \in Address : s = storageId[t]
  BY DEF Reserve, AddressKnown
<1>1. /\ s = storageId[t] /\ pc[t] = "reserve" /\ size_list[s] = FREE /\ size_list'[s] # FREE
      /\ pc'[t] = "write" /\ storageId'[t] = s /\ UNCHANGED <<store, tokens>>
      /\ \A a \in Address \ {s} : size_list'[a] = size_list[a]
      /\ \A u \in Task \ {t} : pc'[u] = pc[u] /\ storageId'[u] = storageId[u]
  BY <1>0, Basics DEF Reserve, StillFree, locals
<1>2. ~InUse(s) /\ InUse(s)' /\ Holds(t, s)'
  <2>1. \A u \in Task \ {t} : ~(pc[u] = "release" /\ storageId[u] = s)
    BY <1>1 DEF OwnedIsInUse, Claims
  <2> QED BY <1>1, <2>1 DEF InUse, Holds, Claims
<1>3. HolderOf(s) = NoTask /\ HolderOf(s)' = t
  BY <1>1, <1>2, NotInUse, HolderNext
<1>4. ContentOf(s)' \in Packet \cup {Reserved}
  BY <1>1, <1>2 DEF ContentOf
<1>5. Abstract!Allocate(s)
  BY <1>1, <1>3, <1>4 DEF Abstract!Allocate
<1>6. ASSUME NEW a \in Address \ {s}
      PROVE  ContentOf(a)' = ContentOf(a) /\ HolderOf(a)' = HolderOf(a)
  <2>1. Holds(t, a) => Holds(t, a)'
    BY <1>1 DEF Holds, Claims
  <2> QED BY <1>1, <2>1, Bystander
<1> QED BY <1>1, <1>5, <1>6, OneElement

(* ... the memcpy fills the element, as a change of the packet does, ...   *)
LEMMA WriteFills ==
  ASSUME StoreInv, StoreInv', NEW t \in Task, Write(t)
  PROVE  Abstract!Next
<1> USE DEF StoreInv, PoolInv, Exclusion, TypeOK
<1>0. PICK s \in Address : s = storageId[t]
  BY DEF Write, AddressKnown
<1>1. /\ s = storageId[t] /\ pc[t] = "write" /\ pc'[t] = "idle" /\ size_list'[s] # FREE
      /\ store'[s] = data[t] /\ data[t] \in Packet /\ <<s, data[t]>> \in tokens'[t]
      /\ \A a \in Address \ {s} : size_list'[a] = size_list[a] /\ store'[a] = store[a]
      /\ \A u \in Task \ {t} : /\ pc'[u] = pc[u] /\ storageId'[u] = storageId[u]
                               /\ tokens'[u] = tokens[u]
      /\ tokens[t] \subseteq tokens'[t]
  BY <1>0, Basics DEF Write, locals
<1>2. Claims(t, s) /\ size_list[s] # FREE
  BY <1>1 DEF Claims, OwnedIsInUse
<1>3. \A u \in Task : ~(pc[u] = "release" /\ storageId[u] = s)
  BY <1>1, <1>2 DEF NoDoubleAllocation, Claims
<1>4. InUse(s) /\ Holds(t, s) /\ InUse(s)' /\ Holds(t, s)'
  BY <1>1, <1>2, <1>3 DEF InUse, Holds
<1>5. HolderOf(s) = t /\ HolderOf(s)' = t /\ ContentOf(s)' = data[t]
  BY <1>1, <1>4, HolderIs, HolderNext, PoolAssumption DEF ContentOf
<1>6. Abstract!Fill(s)
  BY <1>1, <1>5, Basics DEF Abstract!Fill
<1>7. ASSUME NEW a \in Address \ {s}
      PROVE  ContentOf(a)' = ContentOf(a) /\ HolderOf(a)' = HolderOf(a)
  <2>1. Holds(t, a) => Holds(t, a)'
    BY <1>1 DEF Holds, Claims
  <2> QED BY <1>1, <2>1, Bystander
<1> QED BY <1>1, <1>6, <1>7, OneElement

LEMMA ModifyFills ==
  ASSUME StoreInv, StoreInv', NEW t \in Task, NEW token \in tokens[t], NEW d \in Packet,
         ModifyData(t, token, d)
  PROVE  Abstract!Next
<1> USE DEF StoreInv, PoolInv, Exclusion, TypeOK
<1> DEFINE s == token[1]
<1>1. /\ s \in Address /\ token \in Address \X Packet /\ size_list[s] # FREE
      /\ store'[s] = d /\ <<s, d>> \in tokens'[t]
      /\ UNCHANGED <<size_list, pc, storageId>>
      /\ \A a \in Address \ {s} : store'[a] = store[a]
      /\ \A u \in Task \ {t} : tokens'[u] = tokens[u]
      /\ \A x \in tokens[t] : x[1] # s => x \in tokens'[t]
  BY DEF ModifyData, locals
<1>2. \A u \in Task : ~(pc[u] = "release" /\ storageId[u] = s)
  BY <1>1 DEF NoDoubleAllocation, Claims
<1>3. Holds(t, s) /\ Holds(t, s)'
  BY <1>1 DEF Holds
<1> HIDE DEF s
<1>4. InUse(s) /\ InUse(s)'
  BY <1>1, <1>2 DEF InUse
<1>5. HolderOf(s) = t /\ HolderOf(s)' = t /\ ContentOf(s)' = d
  BY <1>1, <1>3, <1>4, HolderIs, HolderNext, PoolAssumption DEF ContentOf
<1>6. Abstract!Fill(s)
  BY <1>1, <1>5, Basics DEF Abstract!Fill
<1>7. ASSUME NEW a \in Address \ {s}
      PROVE  ContentOf(a)' = ContentOf(a) /\ HolderOf(a)' = HolderOf(a)
  <2>1. InUse(a)' <=> InUse(a)
    BY <1>1 DEF InUse
  <2>2. \A u \in Task : Holds(u, a) => Holds(u, a)'
    BY <1>1 DEF Holds, Claims
  <2> QED BY <1>1, <2>1, <2>2, SameElement
<1> QED BY <1>1, <1>6, <1>7, OneElement

(* ... a message passes the element on, ...                                *)
LEMMA PassPasses ==
  ASSUME StoreInv, StoreInv', NEW t \in Task, NEW token \in tokens[t], NEW u \in Task,
         Pass(t, u, token)
  PROVE  Abstract!Next
<1> USE DEF StoreInv, PoolInv, Exclusion, TypeOK
<1> DEFINE s == token[1]
<1>1. /\ s \in Address /\ token \in tokens'[u] /\ UNCHANGED <<size_list, store, pc, storageId>>
      /\ \A v \in Task : \A x \in tokens[v] : x[1] # s => x \in tokens'[v]
  BY DEF Pass, pool, locals
<1>2. /\ \A v \in Task : ~(pc[v] = "release" /\ storageId[v] = s)
      /\ size_list[s] # FREE
  BY <1>1 DEF NoDoubleAllocation, Claims, OwnedIsInUse
<1>3. Holds(t, s) /\ Holds(u, s)'
  BY <1>1 DEF Holds
<1> HIDE DEF s
<1>4. InUse(s) /\ InUse(s)'
  BY <1>1, <1>2 DEF InUse
<1>5. HolderOf(s) = t /\ HolderOf(s)' = u /\ ContentOf(s)' = ContentOf(s)
  BY <1>1, <1>3, <1>4, HolderIs, HolderNext DEF ContentOf
<1>6. Abstract!Pass(s)
  BY <1>1, <1>5, Basics DEF Abstract!Pass
<1>7. ASSUME NEW a \in Address \ {s}
      PROVE  ContentOf(a)' = ContentOf(a) /\ HolderOf(a)' = HolderOf(a)
  <2>1. InUse(a)' <=> InUse(a)
    BY <1>1 DEF InUse
  <2>2. \A v \in Task : Holds(v, a) => Holds(v, a)'
    BY <1>1 DEF Holds, Claims
  <2> QED BY <1>1, <2>1, <2>2, SameElement
<1> QED BY <1>1, <1>6, <1>7, OneElement

(* ... the memset deletes it, and the reset of the size is not seen.       *)
LEMMA ClearDeletes ==
  ASSUME PositionsFit, StoreInv, StoreInv', NEW t \in Task, ClearPage(t)
  PROVE  Abstract!Next
<1> USE DEF StoreInv, PoolInv, Exclusion, TypeOK
<1>0. PICK s \in Address : s = storageId[t]
  BY DEF ClearPage, AddressKnown
<1>1. /\ s = storageId[t] /\ pc[t] = "clear" /\ pc'[t] = "release"
      /\ UNCHANGED <<size_list, storageId, tokens>>
      /\ \A u \in Task \ {t} : pc'[u] = pc[u]
  BY <1>0 DEF ClearPage, locals
<1>2. \A a \in Address \ {s} : store'[a] = store[a]
  BY <1>1, ClearedIsOnePage DEF ClearPage
<1>3. Claims(t, s) /\ size_list[s] # FREE
  BY <1>1 DEF Claims, OwnedIsInUse
<1>4. \A u \in Task : ~(pc[u] = "release" /\ storageId[u] = s)
  BY <1>1, <1>3 DEF NoDoubleAllocation, Claims
<1>5. InUse(s) /\ Holds(t, s) /\ ~InUse(s)'
  BY <1>1, <1>3, <1>4 DEF InUse, Holds
<1>6. HolderOf(s) = t /\ HolderOf(s)' = NoTask /\ ContentOf(s)' = Free
  BY <1>5, HolderIs, NotInUse
<1>7. Abstract!Delete(s)
  BY <1>1, <1>6, Basics DEF Abstract!Delete
<1>8. ASSUME NEW a \in Address \ {s}
      PROVE  ContentOf(a)' = ContentOf(a) /\ HolderOf(a)' = HolderOf(a)
  <2>1. InUse(a)' <=> InUse(a)
    BY <1>1 DEF InUse
  <2>2. \A u \in Task : Holds(u, a) => Holds(u, a)'
    BY <1>1 DEF Holds, Claims
  <2> QED BY <1>2, <2>1, <2>2, SameElement
<1> QED BY <1>1, <1>7, <1>8, OneElement

LEMMA ReleaseIsSilent ==
  ASSUME StoreInv, StoreInv', NEW t \in Task, Release(t)
  PROVE  UNCHANGED Abstract!vars
<1> USE DEF StoreInv, PoolInv, Exclusion, TypeOK
<1>0. PICK s \in Address : s = storageId[t]
  BY DEF Release, AddressKnown
<1>1. /\ s = storageId[t] /\ pc[t] = "release" /\ pc'[t] = "idle" /\ size_list'[s] = FREE
      /\ UNCHANGED <<store, storageId, tokens>>
      /\ \A a \in Address \ {s} : size_list'[a] = size_list[a]
      /\ \A u \in Task \ {t} : pc'[u] = pc[u]
  BY <1>0 DEF Release, locals
<1>2. ASSUME NEW a \in Address
      PROVE  ContentOf(a)' = ContentOf(a) /\ HolderOf(a)' = HolderOf(a)
  <2>1. CASE a = s
    <3>1. ~InUse(a) /\ ~InUse(a)'
      BY <1>1, <2>1 DEF InUse
    <3> QED BY <3>1, SameElement
  <2>2. CASE a # s
    <3>1. Holds(t, a) => Holds(t, a)'
      BY <1>1, <2>2 DEF Holds, Claims
    <3> QED BY <1>1, <2>2, <3>1, Bystander
  <2> QED BY <2>1, <2>2
<1> QED BY <1>2, NoElement

(* The detailed store implements the abstract one: seen through a task's   *)
(* addresses, the search, the reservation, the memcpy and the memset of    *)
(* one call are as good as one atomic operation on one element, as long as *)
(* no lock times out and every position fits into deleteData's integer.    *)
THEOREM KeepsTokens ==
  ASSUME ~LockTimesOut, PositionsFit PROVE Spec => ImplementsTokenStore
<1>1. Init => Abstract!Init
  <2> SUFFICES ASSUME Init PROVE Abstract!Init
    OBVIOUS
  <2>1. \A a \in Address : ~InUse(a)
    BY DEF Init, InUse
  <2> QED BY <2>1, NotInUse DEF Abstract!Init
<1>2. StoreInv /\ StoreInv' /\ [Next]_vars => [Abstract!Next]_(Abstract!vars)
  <2> SUFFICES ASSUME StoreInv, StoreInv', [Next]_vars
               PROVE  [Abstract!Next]_(Abstract!vars)
    OBVIOUS
  <2>1. CASE UNCHANGED vars
    <3>1. \A a \in Address : ContentOf(a)' = ContentOf(a) /\ HolderOf(a)' = HolderOf(a)
      BY <2>1 DEF vars, ContentOf, HolderOf, InUse, Holds, Claims
    <3> QED BY <3>1, NoElement
  <2>2. CASE Next
    BY <2>2, InsideCall, ReserveAllocates, WriteFills, ModifyFills, PassPasses, ClearDeletes,
       ReleaseIsSilent DEF Next
  <2> QED BY <2>1, <2>2
<1>3. Spec => []StoreInv
  BY PoolInvariance, PacketsStayIntact, NothingLeaks, PTL DEF StoreInv
<1> QED BY <1>1, <1>2, <1>3, PTL DEF Spec, ImplementsTokenStore, Abstract!Spec

(***************************************************************************)
(* What the token discipline is for: an element of the abstract store is   *)
(* free exactly when nobody holds its address.                             *)
(***************************************************************************)
TokenInv == Abstract!TypeOK /\ Abstract!HeldIffInUse

LEMMA TokenInit == Abstract!Init => TokenInv
BY DEF Abstract!Init, TokenInv, Abstract!TypeOK, Abstract!HeldIffInUse

LEMMA TokenStep == TokenInv /\ [Abstract!Next]_(Abstract!vars) => TokenInv'
<1> SUFFICES ASSUME TokenInv, [Abstract!Next]_(Abstract!vars) PROVE TokenInv'
  OBVIOUS
<1> DEFINE content == [a \in Address |-> ContentOf(a)]
           holder == [a \in Address |-> HolderOf(a)]
<1>1. PICK c, h, d, g : c = content /\ h = holder /\ d = content' /\ g = holder'
  OBVIOUS
<1>2. /\ c \in [Address -> Packet \cup {Free, Reserved}] /\ h \in [Address -> Task \cup {NoTask}]
      /\ \A s \in Address : c[s] = Free <=> h[s] = NoTask
  BY <1>1 DEF TokenInv, Abstract!TypeOK, Abstract!HeldIffInUse
<1>3. ASSUME NEW s \in Address, d = [c EXCEPT ![s] = d[s]], g = [h EXCEPT ![s] = g[s]],
             /\ d[s] \in Packet \cup {Free, Reserved} /\ g[s] \in Task \cup {NoTask}
             /\ d[s] = Free <=> g[s] = NoTask
      PROVE  TokenInv'
  <2>1. \A r \in Address : r # s => d[r] = c[r] /\ g[r] = h[r]
    BY <1>2, <1>3
  <2>2. /\ d \in [Address -> Packet \cup {Free, Reserved}]
        /\ g \in [Address -> Task \cup {NoTask}]
    BY <1>2, <1>3
  <2>3. \A r \in Address : d[r] = Free <=> g[r] = NoTask
    BY <1>2, <1>3, <2>1
  <2> QED BY <1>1, <2>2, <2>3 DEF TokenInv, Abstract!TypeOK, Abstract!HeldIffInUse
<1>4. ASSUME Abstract!Next PROVE TokenInv'
  <2>1. PICK s \in Address :
          /\ content' = [content EXCEPT ![s] = content'[s]]
          /\ holder' = [holder EXCEPT ![s] = holder'[s]]
          /\ Abstract!Allocate(s) \/ Abstract!Fill(s) \/ Abstract!Pass(s) \/ Abstract!Delete(s)
    BY <1>4 DEF Abstract!Next
  <2>2. d = [c EXCEPT ![s] = d[s]] /\ g = [h EXCEPT ![s] = g[s]]
    BY <1>1, <2>1
  <2>3. Free \notin Packet /\ Free # Reserved /\ NoTask \notin Task
    BY PoolAssumption
  <2>4. CASE Abstract!Allocate(s)
    <3>1. g[s] \in Task /\ d[s] \in Packet \cup {Reserved}
      BY <1>1, <2>4 DEF Abstract!Allocate
    <3> QED BY <1>3, <2>2, <2>3, <3>1
  <2>5. CASE Abstract!Fill(s)
    <3>1. h[s] # NoTask /\ g[s] = h[s] /\ d[s] \in Packet
      BY <1>1, <2>5 DEF Abstract!Fill
    <3> QED BY <1>2, <1>3, <2>2, <2>3, <3>1
  <2>6. CASE Abstract!Pass(s)
    <3>1. h[s] # NoTask /\ g[s] \in Task /\ d[s] = c[s]
      BY <1>1, <2>6 DEF Abstract!Pass
    <3> QED BY <1>2, <1>3, <2>2, <2>3, <3>1
  <2>7. CASE Abstract!Delete(s)
    <3>1. g[s] = NoTask /\ d[s] = Free
      BY <1>1, <2>7 DEF Abstract!Delete
    <3> QED BY <1>3, <2>2, <3>1
  <2> QED BY <2>1, <2>4, <2>5, <2>6, <2>7
<1>5. ASSUME UNCHANGED Abstract!vars PROVE TokenInv'
  <2>1. d = c /\ g = h
    BY <1>1, <1>5 DEF Abstract!vars
  <2> QED BY <1>1, <1>2, <2>1 DEF TokenInv, Abstract!TypeOK, Abstract!HeldIffInUse
<1> QED BY <1>4, <1>5

(* In any behaviour of the token discipline an element is free exactly     *)
(* when nobody holds it.                                                   *)
THEOREM TokensFreeIffUnheld == Abstract!Spec => []Abstract!HeldIffInUse
<1>1. TokenInv => Abstract!HeldIffInUse
  BY DEF TokenInv
<1> QED BY <1>1, TokenInit, TokenStep, PTL DEF Abstract!Spec

(* So the pool, as its tasks see it, has no element in use that nobody can *)
(* free and no address that outlives its packet.                           *)
THEOREM FreeIffUnheld ==
  ASSUME ~LockTimesOut, PositionsFit PROVE Spec => []Abstract!HeldIffInUse
<1>1. Spec => Abstract!Spec
  BY KeepsTokens DEF ImplementsTokenStore
<1> QED BY <1>1, TokensFreeIffUnheld
=============================================================================
