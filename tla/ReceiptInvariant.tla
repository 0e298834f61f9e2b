-------------------------- MODULE ReceiptInvariant --------------------------
(***************************************************************************)
(* The inductive invariant behind the safety properties of ReceiptService. *)
(***************************************************************************)
EXTENDS ReceiptService

(* What a handler is doing when it is suspended at a phase. *)
PhaseOf ==
    \A r \in Request :
        /\ pc[r] = "idle" => req[r].op = "none" /\ response[r] = "none"
        /\ pc[r] \in {"save", "truncate", "write", "read"} => IsUpload(r)
        /\ pc[r] = "put" => IsUpload(r) \/ HasFile(r)
        /\ pc[r] = "lookup" => req[r].op = "update" /\ ~HasFile(r)
        /\ pc[r] = "modify" => req[r].op = "update"
        /\ pc[r] = "remove" => req[r].op = "delete"
        /\ pc[r] = "query" => req[r].op = "period"
        /\ pc[r] \notin {"idle", "query", "done"} => response[r] = "none"

(* An id is issued by the upload it is named after; every other id a       *)
(* request mentions was issued before the request came.                    *)
IdsIssued ==
    /\ \A i \in Issued : /\ IsUpload(i) /\ req[i].id = i
                         /\ pc[i] \notin {"idle", "put", "save"}
    /\ \A r \in Request : /\ IsUpload(r) => req[r].id \in Issued \cup {r}
                          /\ req[r].op = "update" => req[r].id \in Issued
                          /\ req[r].ids \subseteq Issued

(* Key k was brought for document i. *)
Brought(i, k) == \E w \in Request : Brings(w, i) /\ UploadKey(w) = k

(* The upload of q to key k is over. *)
Owns(q, k) ==
    /\ IsUpload(q) \/ HasFile(q)
    /\ UploadKey(q) = k
    /\ pc[q] \notin {"idle", "put"}
    /\ IsUpload(q) /\ pc[q] = "done" => response[q] \in {"created", "lost"}

(* An object lies under the key its uploader brought. *)
BlobsOwned == \A k \in Key, q \in Request : blobs[k] = q => Owns(q, k)

(* Key k was brought for document i and holds an image. *)
Usable(i, k) == k \in Key /\ blobs[k] # None /\ Brought(i, k)

(* The local imgPath of a handler about to write it to the database. *)
PathsUsable ==
    \A r \in Request : pc[r] \in {"save", "modify"} =>
        /\ Usable(req[r].id, path[r])
        /\ IsUpload(r) \/ HasFile(r) => path[r] = UploadKey(r)

(* The image of a stored receipt. *)
DocumentsUsable == \A i \in Live : Usable(i, receipts[i])

(* Nobody has removed document i or brought a file to change it. *)
Undisturbed(i) == /\ i \notin deleted
                  /\ \A u \in Request : ~(HasFile(u) /\ req[u].id = i)

(* A document nobody disturbs shows the key of the upload that made it. *)
UndisturbedKeepsKey ==
    \A i \in Request : Undisturbed(i) =>
        /\ i \in Live => receipts[i] = GeneratedKey(i)
        /\ \A u \in Request :
              pc[u] = "modify" /\ req[u].id = i => path[u] = GeneratedKey(i)

(* A complete upload that got past the insert is, or was, in the database. *)
InsertHappened ==
    \A r \in Request :
        /\ IsUpload(r) /\ req[r].people /\ req[r].id = r /\ r \notin failed
        /\ pc[r] \in {"truncate", "write", "read"} \/ response[r] = "created"
        => r \in Issued

(* What a deletion names and will not come to has been removed before. *)
DeletionsAdvance ==
    \A r \in Request : req[r].op = "delete" =>
        /\ req[r].ids \subseteq due[r] \cup deleted
        /\ response[r] = "ok" => due[r] = {}

(* The inductive invariant: the facts about handlers, ids, objects and     *)
(* documents that the safety properties follow from, whatever the step of  *)
(* receipt.service.ts that comes next.                                     *)
IndInv ==
    /\ TypeOK
    /\ PhaseOf
    /\ IdsIssued
    /\ BlobsOwned
    /\ PathsUsable
    /\ DocumentsUsable
    /\ UndisturbedKeepsKey
    /\ InsertHappened
    /\ RemovedStaysRemoved
    /\ DeletionsAdvance
    /\ StaleImageNeedsOverlap
=============================================================================
