---------------------------- MODULE StoragePool ----------------------------
(***************************************************************************)
(* fsfw/storagemanager: LocalPool, the fixed-size packet store, and        *)
(* PoolManager, which puts a mutex around its reserveSpace and deleteData. *)
(* The tasks of the program use one pool concurrently and pass the         *)
(* addresses of stored packets to each other as tokens: the holder of a    *)
(* token reads and writes the element without the lock.                    *)
(*                                                                         *)
(* A call is split where another task can interleave: between the search   *)
(* of a free element and its reservation, between the reservation (inside  *)
(* the lock) and the memcpy (outside of it), and between the two           *)
(* assignments of deleteData.                                              *)
(***************************************************************************)
EXTENDS Integers, FiniteSetsExt

CONSTANTS
  Task,                 \* tasks that use the pool
  NumberOfPools,        \* NUMBER_OF_POOLS, the template parameter
  ElementSize,          \* element_sizes: pool -> bytes of one element
  NElements,            \* n_elements: pool -> number of elements
  SpillsToHigherPools,  \* spillsToHigherPools
  Packet,               \* data that tasks store
  SizeOf,               \* packet -> bytes
  PositionModulus,      \* 2^16: deleteData keeps the position in a uint16_t
  LockTimesOut,         \* whether a lock can be waited for over mutexTimeoutMs
  Free, Reserved        \* elements without a packet, of the abstract store

Pool == 0 .. NumberOfPools - 1
Index(p) == 0 .. NElements[p] - 1

(* store_address_t of an element, and the address of no element. *)
Address == {a \in Pool \X UNION {Index(p) : p \in Pool} : a[2] \in Index(a[1])}
NoAddress == <<-1, -1>>

(* STORAGE_FREE and the memset of deleteData *)
FREE == -1
Zero == "zero"
NoTask == "none"

ASSUME PoolAssumption ==
  /\ NumberOfPools \in Nat
  /\ ElementSize \in [Pool -> Nat \ {0}]
  /\ NElements \in [Pool -> Nat]
  /\ SizeOf \in [Packet -> Nat]
  /\ SpillsToHigherPools \in BOOLEAN
  /\ LockTimesOut \in BOOLEAN
  /\ PositionModulus \in Nat \ {0}
  /\ NoTask \notin Task
  /\ {Zero, Free, Reserved} \cap Packet = {} /\ Free # Reserved

(* The position of every element fits into the uint16_t of deleteData. *)
PositionsFit ==
  \A p \in Pool : \A i \in Index(p) : i * ElementSize[p] < PositionModulus

VARIABLES
  size_list,  \* size_list: bytes stored in each element, or FREE
  store,      \* store: the data in each element
  mutex,      \* PoolManager::mutex, its owner
  pc,         \* where each task is in addData or deleteData
  storageId,  \* the address each task's call works on
  data,       \* the data a task is storing
  tokens      \* the packets each task holds: pairs of address and data

vars == <<size_list, store, mutex, pc, storageId, data, tokens>>
pool == <<size_list, store>>
locals == <<storageId, data>>

Init == /\ size_list = [a \in Address |-> FREE]
        /\ store = [a \in Address |-> Zero]
        /\ mutex = NoTask
        /\ pc = [t \in Task |-> "idle"]
        /\ storageId = [t \in Task |-> NoAddress]
        /\ data \in [Task -> Packet]
        /\ tokens = [t \in Task |-> {}]

-----------------------------------------------------------------------------
(* Seeded fault: the lock is not taken. *)
Enter_NoLock(t, from, to) ==
  /\ pc[t] = from
  /\ pc' = [pc EXCEPT ![t] = to]
  /\ UNCHANGED mutex

(* MutexHelper: the constructor waits for the mutex.  When the wait times  *)
(* out it logs the error and the caller goes on without the lock.          *)
Enter(t, from, to) ==
  /\ pc[t] = from
  /\ pc' = [pc EXCEPT ![t] = to]
  /\ \/ mutex = NoTask /\ mutex' = t
     \/ LockTimesOut /\ mutex \notin {NoTask, t} /\ UNCHANGED mutex

(* The destructor unlocks, without knowing whether it owns the mutex.  For *)
(* a mutex of another thread the outcome is undefined: it may be released. *)
Unlock(t) == mutex' \in IF mutex = t THEN {NoTask} ELSE {mutex, NoTask}

(* getPoolIndex *)
FittingPools(size) == {p \in Pool : ElementSize[p] >= size}

(* The pools reserveSpace looks into, in ascending order. *)
PoolsTried(size) ==
  IF SpillsToHigherPools \/ FittingPools(size) = {}
  THEN FittingPools(size)
  ELSE {Min(FittingPools(size))}

FreeElements(size) ==
  {a \in Address : a[1] \in PoolsTried(size) /\ size_list[a] = FREE}

(* findEmpty takes the first free element of the first pool that has one. *)
IsBefore(a, b) == a[1] < b[1] \/ (a[1] = b[1] /\ a[2] <= b[2])
FirstFree(size) ==
  CHOOSE a \in FreeElements(size) : \A b \in FreeElements(size) : IsBefore(a, b)

-----------------------------------------------------------------------------
(* addData and getFreeElement *)
AddData(t, d) == /\ pc[t] = "idle"
                 /\ pc' = [pc EXCEPT ![t] = "add"]
                 /\ data' = [data EXCEPT ![t] = d]
                 /\ storageId' = [storageId EXCEPT ![t] = NoAddress]
                 /\ UNCHANGED <<pool, mutex, tokens>>

LockForAdd(t) == /\ Enter(t, "add", "search")
                 /\ UNCHANGED <<pool, locals, tokens>>

(* reserveSpace finds an element ... *)
Search(t) ==
  /\ pc[t] = "search"
  /\ FreeElements(SizeOf[data[t]]) # {}
  /\ storageId' = [storageId EXCEPT ![t] = FirstFree(SizeOf[data[t]])]
  /\ pc' = [pc EXCEPT ![t] = "reserve"]
  /\ UNCHANGED <<pool, mutex, data, tokens>>

(* Seeded fault: the result of findEmpty is not checked. *)
SearchFails_Unchecked(t) ==
  /\ pc[t] = "search"
  /\ FreeElements(SizeOf[data[t]]) = {}
  /\ pc' = [pc EXCEPT ![t] = "reserve"]
  /\ UNCHANGED <<pool, mutex, locals, tokens>>

(* ... or returns DATA_TOO_LARGE or DATA_STORAGE_FULL.  getPoolIndex has   *)
(* then already overwritten the pool index of the caller's address.        *)
SearchFails(t) ==
  /\ pc[t] = "search"
  /\ FreeElements(SizeOf[data[t]]) = {}
  /\ storageId' = IF PoolsTried(SizeOf[data[t]]) = {} THEN storageId
                  ELSE [storageId EXCEPT ![t][1] = Max(PoolsTried(SizeOf[data[t]]))]
  /\ pc' = [pc EXCEPT ![t] = "idle"]
  /\ Unlock(t)
  /\ UNCHANGED <<pool, data, tokens>>

Reserve(t) ==
  /\ pc[t] = "reserve"
  /\ size_list' = [size_list EXCEPT ![storageId[t]] = SizeOf[data[t]]]
  /\ pc' = [pc EXCEPT ![t] = "write"]
  /\ Unlock(t)
  /\ UNCHANGED <<store, locals, tokens>>

(* write: outside of the lock *)
Write(t) ==
  /\ pc[t] = "write"
  /\ store' = [store EXCEPT ![storageId[t]] = data[t]]
  /\ size_list' = [size_list EXCEPT ![storageId[t]] = SizeOf[data[t]]]
  /\ tokens' = [tokens EXCEPT ![t] = @ \cup {<<storageId[t], data[t]>>}]
  /\ pc' = [pc EXCEPT ![t] = "idle"]
  /\ UNCHANGED <<mutex, locals>>

-----------------------------------------------------------------------------
(* The holder of a token changes the packet through the pointer that       *)
(* modifyData returned: the size stays, the lock is not taken.             *)
ModifyData(t, token, d) ==
  /\ pc[t] = "idle"
  /\ token \in tokens[t]
  /\ size_list[token[1]] # FREE
  /\ SizeOf[d] = size_list[token[1]]
  /\ store' = [store EXCEPT ![token[1]] = d]
  /\ tokens' = [tokens EXCEPT ![t] = (@ \ {token}) \cup {<<token[1], d>>}]
  /\ UNCHANGED <<size_list, mutex, pc, locals>>

(* The address travels to another task in a message. *)
Pass(t, u, token) ==
  /\ t # u
  /\ pc[t] = "idle"
  /\ token \in tokens[t]
  /\ tokens' = [tokens EXCEPT ![t] = @ \ {token}, ![u] = @ \cup {token}]
  /\ UNCHANGED <<pool, mutex, pc, locals>>

-----------------------------------------------------------------------------
(* deleteData, by address or by a pointer into the element *)
DeleteData(t, token) ==
  /\ pc[t] = "idle"
  /\ token \in tokens[t]
  /\ pc' = [pc EXCEPT ![t] = "delete"]
  /\ storageId' = [storageId EXCEPT ![t] = token[1]]
  /\ tokens' = [tokens EXCEPT ![t] = @ \ {token}]
  /\ UNCHANGED <<pool, mutex, data>>

LockForDelete(t) == /\ Enter(t, "delete", "clear")
                    /\ UNCHANGED <<pool, locals, tokens>>

(* Seeded fault: the position is kept in an integer one bit too narrow. *)
Cleared_Narrow(a) ==
  LET page == ElementSize[a[1]]
      from == (a[2] * page) % (PositionModulus \div 2)
  IN  {b \in Address : /\ b[1] = a[1]
                       /\ b[2] * page < from + page
                       /\ from < b[2] * page + page}

(* The elements that a memset of one page, from the truncated position of  *)
(* element a on, writes to.                                                *)
Cleared(a) ==
  LET page == ElementSize[a[1]]
      from == (a[2] * page) % PositionModulus
  IN  {b \in Address : /\ b[1] = a[1]
                       /\ b[2] * page < from + page
                       /\ from < b[2] * page + page}

ClearPage(t) ==
  /\ pc[t] = "clear"
  /\ store' = [a \in Address |-> IF a \in Cleared(storageId[t]) THEN Zero ELSE store[a]]
  /\ pc' = [pc EXCEPT ![t] = "release"]
  /\ UNCHANGED <<size_list, mutex, locals, tokens>>

(* Seeded fault: deleteData does not reset the size. *)
Release_SizeKept(t) ==
  /\ pc[t] = "release"
  /\ pc' = [pc EXCEPT ![t] = "idle"]
  /\ Unlock(t)
  /\ UNCHANGED <<pool, locals, tokens>>

Release(t) ==
  /\ pc[t] = "release"
  /\ size_list' = [size_list EXCEPT ![storageId[t]] = FREE]
  /\ pc' = [pc EXCEPT ![t] = "idle"]
  /\ Unlock(t)
  /\ UNCHANGED <<store, locals, tokens>>

-----------------------------------------------------------------------------
Next ==
  \E t \in Task :
    \/ \E d \in Packet : AddData(t, d)
    \/ LockForAdd(t)
    \/ Search(t)
    \/ SearchFails(t)
    \/ Reserve(t)
    \/ Write(t)
    \/ \E token \in tokens[t] : \/ \E d \in Packet : ModifyData(t, token, d)
                                \/ \E u \in Task : Pass(t, u, token)
                                \/ DeleteData(t, token)
    \/ LockForDelete(t)
    \/ ClearPage(t)
    \/ Release(t)

Spec == Init /\ [][Next]_vars

-----------------------------------------------------------------------------
(* Every variable has its type. *)
TypeOK ==
  /\ size_list \in [Address -> Nat \cup {FREE}]
  /\ store \in [Address -> Packet \cup {Zero}]
  /\ mutex \in Task \cup {NoTask}
  /\ pc \in [Task -> {"idle", "add", "search", "reserve", "write",
                      "delete", "clear", "release"}]
  /\ storageId \in [Task -> (Pool \cup {-1}) \X (Int)]
  /\ data \in [Task -> Packet]
  /\ tokens \in [Task -> SUBSET (Address \X Packet)]

(* A call of t that has an element of the pool to itself. *)
Claims(t, a) == /\ storageId[t] = a
                /\ pc[t] \in {"write", "delete", "clear", "release"}

(* No element is given out twice: two tokens, two running calls, or a      *)
(* token and a running call never name the same element.  This is what     *)
(* PoolManager's lock is for.                                              *)
NoDoubleAllocation ==
  /\ \A t, u \in Task : \A x \in tokens[t], y \in tokens[u] :
        x[1] = y[1] => t = u /\ x = y
  /\ \A t, u \in Task : \A x \in tokens[t] : ~Claims(u, x[1])
  /\ \A t, u \in Task : \A a \in Address : Claims(t, a) /\ Claims(u, a) => t = u

(* A packet is intact for as long as somebody holds its address: nobody    *)
(* else's write, memset or deletion reaches it.                            *)
TokensIntact ==
  \A t \in Task : \A x \in tokens[t] : /\ store[x[1]] = x[2]
                                       /\ size_list[x[1]] = SizeOf[x[2]]

(* An element that is not free belongs to somebody who can free it: the    *)
(* holder of its address or a call that is still running.                  *)
NoLeak ==
  \A a \in Address :
    size_list[a] # FREE => \/ \E t \in Task : \E x \in tokens[t] : x[1] = a
                           \/ \E t \in Task : Claims(t, a)

(* The pool implements the abstract store.  An element whose memcpy is     *)
(* still to come is reserved, and one whose page is cleared is free.       *)
Holds(t, a) == (\E x \in tokens[t] : x[1] = a) \/ Claims(t, a)

InUse(a) == /\ size_list[a] # FREE
            /\ ~\E t \in Task : pc[t] = "release" /\ storageId[t] = a

ContentOf(a) == CASE ~InUse(a) -> Free
                  [] InUse(a) /\ store[a] = Zero -> Reserved
                  [] InUse(a) /\ store[a] # Zero -> store[a]

HolderOf(a) == IF InUse(a) /\ \E t \in Task : Holds(t, a)
               THEN CHOOSE t \in Task : Holds(t, a)
               ELSE NoTask

Abstract == INSTANCE TokenStore WITH
              Slot <- Address, Holder <- Task, Nobody <- NoTask,
              content <- [a \in Address |-> ContentOf(a)],
              holder <- [a \in Address |-> HolderOf(a)]

ImplementsTokenStore == Abstract!Spec
=============================================================================
