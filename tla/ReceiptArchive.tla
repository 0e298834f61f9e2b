--------------------------- MODULE ReceiptArchive ---------------------------
(***************************************************************************)
(* What the receipt service promises about images, whatever the order of   *)
(* requests, the failures and the crashes: a receipt that is on file shows *)
(* an object key that was offered for that very receipt and under which an *)
(* image is stored.  Nothing is promised about how long a receipt stays on *)
(* file, nor that an image which is stored is ever shown.                  *)
(***************************************************************************)
CONSTANTS
    Id,     \* receipts
    Key,    \* object keys
    None    \* shown by a receipt that is not on file

VARIABLES
    offered,    \* the keys under which clients handed in images, by receipt
    stored,     \* the keys under which an image lies
    shown       \* the key each receipt shows

vars == <<offered, stored, shown>>

Init == /\ offered = [i \in Id |-> {}]
        /\ stored  = {}
        /\ shown   = [i \in Id |-> None]

(* A client hands in an image for a receipt. *)
Offer(i, k) == /\ offered' = [offered EXCEPT ![i] = @ \cup {k}]
               /\ UNCHANGED <<stored, shown>>

(* An image that was handed in reaches the bucket; it never leaves it. *)
Store(k) == /\ \E i \in Id : k \in offered[i]
            /\ stored' = stored \cup {k}
            /\ UNCHANGED <<offered, shown>>

(* A receipt is put on file, or the image of one on file is replaced. *)
Show(i, k) == /\ k \in offered[i] \cap stored
              /\ shown' = [shown EXCEPT ![i] = k]
              /\ UNCHANGED <<offered, stored>>

(* A receipt is taken off file. *)
Retire(i) == /\ shown' = [shown EXCEPT ![i] = None]
             /\ UNCHANGED <<offered, stored>>

Next == \/ \E i \in Id, k \in Key : Offer(i, k) \/ Show(i, k)
        \/ \E k \in Key : Store(k)
        \/ \E i \in Id : Retire(i)

Spec == Init /\ [][Next]_vars
=============================================================================
