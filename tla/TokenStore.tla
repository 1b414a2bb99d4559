----------------------------- MODULE TokenStore -----------------------------
(***************************************************************************)
(* What the packet stores promise, after the class comment of              *)
(* StorageManagerIF: packets travel "token-like" between the tasks.  An    *)
(* element in use has exactly one holder; only its holder fills, changes,  *)
(* hands on or deletes it, and a holder finds in the element what was put  *)
(* there.  StoragePool implements this specification, and so do the        *)
(* pipelines that use the stores, TmDownlink and TcUplink: a queue that    *)
(* contains the address of an element holds it like a task does.           *)
(***************************************************************************)
CONSTANTS Slot,     \* the elements of the store (store_address_t)
          Packet,   \* what an element can contain
          Holder,   \* tasks and queues
          Nobody,   \* the holder of a free element
          Free,     \* the content of a free element
          Reserved  \* the content of an element handed out but not written yet

VARIABLES content,  \* what each element contains
          holder    \* who holds its address

vars == <<content, holder>>

TypeOK == /\ content \in [Slot -> Packet \cup {Free, Reserved}]
          /\ holder \in [Slot -> Holder \cup {Nobody}]

Init == /\ content = [s \in Slot |-> Free]
        /\ holder = [s \in Slot |-> Nobody]

(* getFreeElement (the packet is still to be written) and addData *)
Allocate(s) == /\ holder[s] = Nobody
               /\ holder'[s] \in Holder
               /\ content'[s] \in Packet \cup {Reserved}

(* The memcpy of addData, or a write to what modifyData returned, by the   *)
(* holder; or a message with the address is sent or received.              *)
Fill(s) == /\ holder[s] # Nobody
           /\ holder'[s] = holder[s]
           /\ content'[s] \in Packet

Pass(s) == /\ holder[s] # Nobody
           /\ holder'[s] \in Holder
           /\ content'[s] = content[s]

(* deleteData *)
Delete(s) == /\ holder[s] # Nobody
             /\ holder'[s] = Nobody
             /\ content'[s] = Free

(* A step concerns one element and leaves every other one alone. *)
Next == \E s \in Slot :
          /\ content' = [content EXCEPT ![s] = content'[s]]
          /\ holder' = [holder EXCEPT ![s] = holder'[s]]
          /\ Allocate(s) \/ Fill(s) \/ Pass(s) \/ Delete(s)

Spec == Init /\ [][Next]_vars

(* An element is free exactly when nobody holds it. *)
HeldIffInUse == \A s \in Slot : content[s] = Free <=> holder[s] = Nobody
=============================================================================
