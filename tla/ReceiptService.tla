--------------------------- MODULE ReceiptService ---------------------------
(***************************************************************************)
(* The receipt service (src/apps/receipt): HTTP handlers that keep a       *)
(* receipt document in MongoDB, its image in an S3 bucket and a scratch    *)
(* copy of the image on the local disk.  The three stores share no         *)
(* transaction, the handlers of one process interleave at every await, and *)
(* any awaited call may fail, with or without having had its effect.       *)
(*                                                                         *)
(* A request is served once, so what a request produces is named after it: *)
(* the fresh ObjectId of a document, the generated object key and the      *)
(* image are those of the request that made them.                          *)
(***************************************************************************)

CONSTANTS
    Request,    \* the HTTP requests that may reach the service
    FileName,   \* the original names of the files clients send
    None,       \* no document, no object, no file
    Torn        \* file contents that are no client's image

ASSUME NullAssumption == /\ None \notin Request
                         /\ Torn \notin Request \cup {None}

VARIABLES
    up,         \* the service process is running
    pc,         \* where the handler of each request is suspended
    req,        \* what each request asks for
    path,       \* the handler's local variable imgPath
    due,        \* the documents each deletion is still sure to come to
    receipts,   \* MongoDB: imgPath of the document with each id, or None
    blobs,      \* S3: whose image lies under each object key, or None
    scratch,    \* the contents of receipt-uploads/receipt
    readBack,   \* what each upload read back from the scratch file
    response,   \* what each client was told
    failed,     \* history: the requests that met a failing call
    deleted     \* history: the ids that were removed at least once

handlers == <<up, pc, req, path, due, response, failed>>
disk     == <<scratch, readBack>>
stores   == <<receipts, blobs, deleted>>
vars     == <<handlers, disk, stores>>
-----------------------------------------------------------------------------
(* Variants of some definitions, each with one plausible mistake in it, end  *)
(* in "Mistaken"; no action uses them.  The properties must tell them from   *)
(* the definition that follows each of them.                                 *)

(* ... the random code left out: two uploads of one second share a key.      *)
GeneratedKeyMistaken(r) == <<"receipt", "now">>

(* `receipt_<time>_<code>` with a 17 character random code: unique. *)
GeneratedKey(r) == <<"receipt", r>>

Key == {GeneratedKey(r) : r \in Request} \cup FileName

ASSUME KeyAssumption == None \notin Key

Input == [op     : {"none", "create", "update", "delete", "period"},
          id     : Request,                 \* the document it is about
          ids    : SUBSET Request,          \* the documents to delete
          file   : FileName \cup {None},    \* the file an update carries
          people : BOOLEAN]                 \* numberOfPeople was sent

NoInput(r) == [op |-> "none", id |-> r, ids |-> {}, file |-> None,
               people |-> FALSE]

(* The object key under which a request uploads its image. *)
UploadKey(r) == IF req[r].op = "create" THEN GeneratedKey(r) ELSE req[r].file

Live   == {i \in Request : receipts[i] # None}
Issued == Live \cup deleted        \* the ids a client can have seen

Phase == {"idle", "put", "save", "truncate", "write", "read",
          "lookup", "modify", "remove", "query", "done"}

Active(r) == pc[r] \notin {"idle", "done"}

Init ==
    /\ up       = TRUE
    /\ pc       = [r \in Request |-> "idle"]
    /\ req      = [r \in Request |-> NoInput(r)]
    /\ path     = [r \in Request |-> None]
    /\ due      = [r \in Request |-> {}]
    /\ receipts = [r \in Request |-> None]
    /\ blobs    = [k \in Key |-> None]
    /\ scratch  = None
    /\ readBack = [r \in Request |-> None]
    /\ response = [r \in Request |-> "none"]
    /\ failed   = {}
    /\ deleted  = {}
-----------------------------------------------------------------------------
(* Steps of a handler, as far as the handler's own variables go. *)
Arrive(r, input, next) ==
    /\ up
    /\ pc[r] = "idle"
    /\ pc'  = [pc EXCEPT ![r] = next]
    /\ req' = [req EXCEPT ![r] = input]
    /\ due' = [due EXCEPT ![r] = input.ids \cap Live]
    /\ UNCHANGED <<up, path, failed, disk, stores>>

GoTo(r, from, to) ==
    /\ pc[r] = from
    /\ pc' = [pc EXCEPT ![r] = to]
    /\ UNCHANGED <<up, req, due>>

(* The request r is answered; for an upload the catch block of            *)
(* createReceipt has swallowed whatever went wrong.                        *)
Answer(r, from, code) ==
    /\ GoTo(r, from, "done")
    /\ response' = [response EXCEPT ![r] = code]

Swallow(r, from) ==
    /\ Answer(r, from, "created")
    /\ failed' = failed \cup {r}
    /\ UNCHANGED path

Refuse(r, from) ==
    /\ Answer(r, from, "error")
    /\ failed' = failed \cup {r}
    /\ UNCHANGED path
-----------------------------------------------------------------------------
(* POST /receipt/upload.  The raw body is stored after the fresh _id, so a *)
(* body that carries an _id overrides it.                                  *)
UploadReceipt(r) ==
    /\ \E people \in BOOLEAN, i \in Issued \cup {r} :
          Arrive(r, [NoInput(r) EXCEPT !.op = "create", !.id = i,
                                       !.people = people], "put")
    /\ UNCHANGED response

(* A request without a file fails in the parameter list; an invalid body   *)
(* is answered 201 with the exception as the body (it is returned).        *)
RejectUpload(r) ==
    /\ Arrive(r, NoInput(r), "done")
    /\ \E code \in {"error", "exception"} :
          response' = [response EXCEPT ![r] = code]

StoreImage(r) == blobs' = [blobs EXCEPT ![UploadKey(r)] = r]

(* ... the upload not awaited.                                             *)
PutImageMistaken(r) ==
    /\ req[r].op = "create"
    /\ GoTo(r, "put", "save")
    /\ path' = [path EXCEPT ![r] = UploadKey(r)]
    /\ UNCHANGED <<response, failed, disk, stores>>

PutImage(r) ==
    /\ req[r].op = "create"
    /\ GoTo(r, "put", "save")
    /\ StoreImage(r)
    /\ path' = [path EXCEPT ![r] = UploadKey(r)]
    /\ UNCHANGED <<response, failed, disk, receipts, deleted>>

(* The upload throws or reports no Location; the object may be there.      *)
PutImageFails(r) ==
    /\ req[r].op = "create"
    /\ Swallow(r, "put")
    /\ StoreImage(r) \/ UNCHANGED blobs
    /\ UNCHANGED <<disk, receipts, deleted>>

(* ... an upsert in place of the insert.                                   *)
InsertMistaken(r) == receipts' = [receipts EXCEPT ![req[r].id] = path[r]]

(* The insert of SaveReceipt: a second document with the same _id is       *)
(* refused by the primary index.                                           *)
Insert(r) ==
    /\ receipts[req[r].id] = None
    /\ receipts' = [receipts EXCEPT ![req[r].id] = path[r]]

(* ... the insert forgotten.                                               *)
SaveReceiptMistaken(r) ==
    /\ req[r].people
    /\ GoTo(r, "save", "truncate")
    /\ UNCHANGED <<path, response, failed, disk, stores>>

SaveReceipt(r) ==
    /\ req[r].people
    /\ GoTo(r, "save", "truncate")
    /\ Insert(r)
    /\ UNCHANGED <<path, response, failed, disk, blobs, deleted>>

(* Number(undefined) is NaN, which the schema cannot cast to a Number: the *)
(* document is never sent to the database.                                 *)
SaveReceiptNaN(r) ==
    /\ ~req[r].people
    /\ Answer(r, "save", "created")
    /\ UNCHANGED <<path, failed, disk, stores>>

(* The _id of the body is already taken.                                   *)
SaveReceiptDuplicate(r) ==
    /\ req[r].people
    /\ receipts[req[r].id] # None
    /\ Answer(r, "save", "created")
    /\ UNCHANGED <<path, failed, disk, stores>>

(* The insert fails; it may have been applied all the same.                *)
SaveReceiptFails(r) ==
    /\ req[r].people
    /\ Swallow(r, "save")
    /\ Insert(r) \/ UNCHANGED receipts
    /\ UNCHANGED <<disk, blobs, deleted>>

(* writeFile opens the one shared path with O_TRUNC, then writes at its    *)
(* own offset: over what another upload has written since, it may leave a  *)
(* mixture.  (A file of up to 512 KB is written in one piece.)             *)
TruncateScratch(r) ==
    /\ GoTo(r, "truncate", "write")
    /\ scratch' = None
    /\ UNCHANGED <<path, response, failed, readBack, stores>>

(* ... the file opened for appending.                                      *)
WriteScratchMistaken(r) ==
    /\ GoTo(r, "write", "read")
    /\ scratch' = <<scratch, r>>
    /\ UNCHANGED <<path, response, failed, readBack, stores>>

WriteScratch(r) ==
    /\ GoTo(r, "write", "read")
    /\ scratch' \in (IF scratch = None THEN {r} ELSE {r, Torn})
    /\ UNCHANGED <<path, response, failed, readBack, stores>>

ReadScratch(r) ==
    /\ Answer(r, "read", "created")
    /\ readBack' = [readBack EXCEPT ![r] = scratch]
    /\ UNCHANGED <<path, failed, scratch, stores>>

(* A file operation throws: the write may have been applied in part.       *)
ScratchFails(r) ==
    /\ \E phase \in {"truncate", "write", "read"} : Swallow(r, phase)
    /\ \/ UNCHANGED scratch
       \/ pc[r] = "write" /\ scratch' = Torn
    /\ UNCHANGED <<readBack, stores>>
-----------------------------------------------------------------------------
(* PUT /receipt.  An image is stored under the client's own file name.     *)
UpdateReceipt(r) ==
    /\ \E i \in Issued, f \in FileName \cup {None} :
          Arrive(r, [NoInput(r) EXCEPT !.op = "update", !.id = i, !.file = f],
                 IF f = None THEN "lookup" ELSE "put")
    /\ UNCHANGED response

(* ... the upload not awaited.                                             *)
PutNamedImageMistaken(r) ==
    /\ req[r].op = "update"
    /\ GoTo(r, "put", "modify")
    /\ path' = [path EXCEPT ![r] = UploadKey(r)]
    /\ UNCHANGED <<response, failed, disk, stores>>

PutNamedImage(r) ==
    /\ req[r].op = "update"
    /\ GoTo(r, "put", "modify")
    /\ StoreImage(r)
    /\ path' = [path EXCEPT ![r] = UploadKey(r)]
    /\ UNCHANGED <<response, failed, disk, receipts, deleted>>

PutNamedImageFails(r) ==
    /\ req[r].op = "update"
    /\ Refuse(r, "put")
    /\ StoreImage(r) \/ UNCHANGED blobs
    /\ UNCHANGED <<disk, receipts, deleted>>

(* ... the filter of findOne without the _id.                              *)
ReadDetailMistaken(r) ==
    /\ receipts[req[r].id] # None
    /\ GoTo(r, "lookup", "modify")
    /\ \E i \in Live : path' = [path EXCEPT ![r] = receipts[i]]
    /\ UNCHANGED <<response, failed, disk, stores>>

ReadDetail(r) ==
    /\ receipts[req[r].id] # None
    /\ GoTo(r, "lookup", "modify")
    /\ path' = [path EXCEPT ![r] = receipts[req[r].id]]
    /\ UNCHANGED <<response, failed, disk, stores>>

(* ... a missing receipt awaited.                                          *)
ReadDetailMissingMistaken(r) ==
    /\ pc[r] = "lookup"
    /\ receipts[req[r].id] = None
    /\ UNCHANGED vars

(* findOne yields null, whose imgPath cannot be read.                      *)
ReadDetailMissing(r) ==
    /\ receipts[req[r].id] = None
    /\ Answer(r, "lookup", "error")
    /\ UNCHANGED <<path, failed, disk, stores>>

ReadDetailFails(r) ==
    /\ Refuse(r, "lookup")
    /\ UNCHANGED <<disk, stores>>

(* ... with upsert, or without the _id in the filter.                      *)
SetImgPathMistaken(r) == receipts' = [receipts EXCEPT ![req[r].id] = path[r]]

SetAnyImgPathMistaken(r) ==
    IF Live = {} THEN UNCHANGED receipts
    ELSE \E i \in Live : receipts' = [receipts EXCEPT ![i] = path[r]]

(* updateOne without upsert: no document, no effect.                       *)
SetImgPath(r) ==
    receipts' = IF receipts[req[r].id] = None THEN receipts
                ELSE [receipts EXCEPT ![req[r].id] = path[r]]

WriteUpdate(r) ==
    /\ Answer(r, "modify", "ok")
    /\ SetImgPath(r)
    /\ UNCHANGED <<path, failed, disk, blobs, deleted>>

(* A failing call, or a field of the body that cannot be cast.             *)
WriteUpdateFails(r) ==
    /\ Refuse(r, "modify")
    /\ SetImgPath(r) \/ UNCHANGED receipts
    /\ UNCHANGED <<disk, blobs, deleted>>
-----------------------------------------------------------------------------
(* DELETE /receipt: one deleteMany, which removes document after document. *)
(* It comes to all that were there when it began; one that is stored       *)
(* meanwhile may lie behind its cursor.  The image of a removed receipt    *)
(* stays in the bucket.                                                    *)
DeleteReceipt(r) ==
    /\ \E ids \in SUBSET Issued :
          Arrive(r, [NoInput(r) EXCEPT !.op = "delete", !.ids = ids], "remove")
    /\ UNCHANGED response

RemoveOne(r) ==
    /\ pc[r] = "remove"
    /\ \E i \in req[r].ids \cap Live :
          /\ receipts' = [receipts EXCEPT ![i] = None]
          /\ deleted'  = deleted \cup {i}
          /\ due'      = [q \in Request |-> due[q] \ {i}]
    /\ UNCHANGED <<up, pc, req, path, response, failed, disk, blobs>>

(* ... deleteOne in place of deleteMany.                                   *)
RemoveDoneMistaken(r) ==
    /\ Answer(r, "remove", "ok")
    /\ UNCHANGED <<path, failed, disk, stores>>

RemoveDone(r) ==
    /\ due[r] = {}
    /\ Answer(r, "remove", "ok")
    /\ UNCHANGED <<path, failed, disk, stores>>

(* The command fails: after none, some or all of the documents.            *)
RemoveFails(r) ==
    /\ Refuse(r, "remove")
    /\ UNCHANGED <<disk, stores>>
-----------------------------------------------------------------------------
(* GET /receipt/list/period: the query is not awaited, the answer leaves   *)
(* at once and a rejection later has no handler.                           *)
GetReceiptByPeriod(r) ==
    /\ Arrive(r, [NoInput(r) EXCEPT !.op = "period"], "query")
    /\ response' = [response EXCEPT ![r] = "ok"]

PeriodQueryDone(r) ==
    /\ GoTo(r, "query", "done")
    /\ UNCHANGED <<path, response, failed, disk, stores>>

(* The process ends; every client that still waits loses its answer.       *)
Stop ==
    /\ up
    /\ up' = FALSE
    /\ pc' = [r \in Request |-> IF Active(r) THEN "done" ELSE pc[r]]
    /\ response' = [r \in Request |-> IF Active(r) /\ response[r] = "none"
                                       THEN "lost" ELSE response[r]]
    /\ UNCHANGED <<req, path, due, disk, stores>>

PeriodQueryRejected(r) ==
    /\ pc[r] = "query"
    /\ failed' = failed \cup {r}
    /\ Stop

Crash == Stop /\ UNCHANGED failed

(* No restart policy: somebody starts the service again, or nobody does.   *)
Restart ==
    /\ ~up
    /\ up' = TRUE
    /\ UNCHANGED <<pc, req, path, due, response, failed, disk, stores>>
-----------------------------------------------------------------------------
(* What a handler does when every call it awaits succeeds.                 *)
Progress(r) ==
    \/ PutImage(r)
    \/ SaveReceipt(r) \/ SaveReceiptNaN(r) \/ SaveReceiptDuplicate(r)
    \/ TruncateScratch(r) \/ WriteScratch(r) \/ ReadScratch(r)
    \/ PutNamedImage(r) \/ ReadDetail(r) \/ ReadDetailMissing(r) \/ WriteUpdate(r)
    \/ RemoveOne(r) \/ RemoveDone(r)
    \/ PeriodQueryDone(r)

(* ... and when the one it is awaiting fails.                              *)
Failure(r) ==
    \/ PutImageFails(r) \/ SaveReceiptFails(r) \/ ScratchFails(r)
    \/ PutNamedImageFails(r) \/ ReadDetailFails(r) \/ WriteUpdateFails(r)
    \/ RemoveFails(r)
    \/ PeriodQueryRejected(r)

Arrival(r) ==
    \/ UploadReceipt(r) \/ RejectUpload(r) \/ UpdateReceipt(r)
    \/ DeleteReceipt(r) \/ GetReceiptByPeriod(r)

Next == Crash \/ Restart \/ \E r \in Request : Arrival(r) \/ Progress(r) \/ Failure(r)

(* The event loop resumes every handler whose awaited call has settled,    *)
(* and every call settles: it succeeds unless it fails first.              *)
Fairness == \A r \in Request : WF_vars(Progress(r))

Spec == Init /\ [][Next]_vars /\ Fairness
-----------------------------------------------------------------------------
(* Every variable keeps to the values the handlers and stores can hold.    *)
TypeOK ==
    /\ up \in BOOLEAN
    /\ pc \in [Request -> Phase]
    /\ req \in [Request -> Input]
    /\ path \in [Request -> Key \cup {None}]
    /\ due \in [Request -> SUBSET Request]
    /\ receipts \in [Request -> Key \cup {None}]
    /\ blobs \in [Key -> Request \cup {None}]
    /\ scratch \in Request \cup {None, Torn}
    /\ readBack \in [Request -> Request \cup {None, Torn}]
    /\ response \in [Request -> {"none", "created", "exception", "ok", "error",
                                 "lost"}]
    /\ failed \subseteq Request
    /\ deleted \subseteq Request

IsUpload(r) == req[r].op = "create"
HasFile(r)  == req[r].op = "update" /\ req[r].file # None

(* Requests that brought an image for document i.                          *)
Brings(r, i) == (IsUpload(r) \/ HasFile(r)) /\ req[r].id = i

(* The requests that have had the chance to change the image of i, other
   than the one that made i.                                               *)
Rewrote(r, i) == /\ Brings(r, i)
                 /\ r # i
                 /\ pc[r] \notin {"idle", "put", "save"}

(* The image URL of a stored receipt always leads to an image: a document  *)
(* is written only after its upload is done, whatever fails or crashes in  *)
(* between and whichever updates and deletions interleave.                 *)
NoDanglingImage == \A i \in Live : blobs[receipts[i]] # None

(* A receipt shows the image of another receipt only where updates use the *)
(* client's file name as object key: somebody brought an image for this    *)
(* receipt and somebody else one for another receipt under the same key,   *)
(* and at least one of the two was an update.  Two uploads never clash.    *)
ForeignImageNeedsKeyClash ==
    \A i \in Live : LET owner == blobs[receipts[i]] IN
        owner # None /\ req[owner].id # i =>
            \E r \in Request : /\ Brings(r, i)
                               /\ UploadKey(r) = receipts[i]
                               /\ UploadKey(owner) = receipts[i]
                               /\ HasFile(r) \/ HasFile(owner)

(* An update that races a deletion does not bring the receipt back; only   *)
(* an upload whose body carries the removed _id does.                      *)
RemovedStaysRemoved ==
    \A i \in deleted \cap Live :
        \E r \in Request : Rewrote(r, i) /\ IsUpload(r)

(* An update without a file writes back the imgPath it read.  Between the  *)
(* two it undoes somebody's work only if a request brought another image   *)
(* for the same receipt: edits of the other fields alone never do.         *)
StaleImageNeedsOverlap ==
    \A r \in Request : LET i == req[r].id IN
        /\ pc[r] = "modify" /\ ~HasFile(r)
        /\ i \in Live
        /\ receipts[i] # path[r]
        => \E w \in Request \ {r} : Rewrote(w, i)

(* An image nobody can reach any more (its generated key is in no          *)
(* document) has one of the known causes: the upload is still between S3   *)
(* and MongoDB, lost its process there, met a failing call, had no         *)
(* numberOfPeople or a taken _id, or the receipt was removed or changed.   *)
OrphanExplained ==
    \A r \in Request :
        /\ IsUpload(r) /\ GeneratedKey(r) \notin FileName
        /\ blobs[GeneratedKey(r)] # None
        /\ \A i \in Request : receipts[i] # GeneratedKey(r)
        => \/ pc[r] = "save" \/ response[r] = "lost" \/ r \in failed
           \/ ~req[r].people \/ req[r].id # r
           \/ r \in deleted
           \/ \E u \in Request : HasFile(u) /\ req[u].id = r

(* The swallowed errors of createReceipt hide nothing else: an upload that *)
(* sent numberOfPeople and no _id of its own, met no failing call and was  *)
(* answered is in the database, unless it was removed since.               *)
CompleteUploadStored ==
    \A r \in Request :
        /\ IsUpload(r) /\ response[r] = "created"
        /\ req[r].people /\ req[r].id = r /\ r \notin failed
        => r \in Issued

(* A deletion that was answered 200 has left none of its documents, except *)
(* those that an upload carrying the same _id has stored since.            *)
RemovalComplete ==
    \A r \in Request :
        req[r].op = "delete" /\ response[r] = "ok" =>
            \A i \in req[r].ids \cap Live :
                \E w \in Request : Rewrote(w, i) /\ IsUpload(w)

(* Once a handler has started, its client is answered or, if the process   *)
(* goes down, loses the connection: no path through the handlers waits for *)
(* a document, a file or another request.                                  *)
EveryRequestAnswered ==
    \A r \in Request : Active(r) ~> response[r] # "none"

(* The keys under which images were brought, by document.                  *)
Offered == [i \in Request |-> {UploadKey(r) : r \in {q \in Request : Brings(q, i)}}]

(* The service implements the archive of ReceiptArchive.                   *)
Archive == INSTANCE ReceiptArchive WITH
    Id      <- Request,
    offered <- Offered,
    stored  <- {k \in Key : blobs[k] # None},
    shown   <- receipts

(* Every step of the service is a step of the archive or none: a receipt   *)
(* on file shows a key that was offered for it and holds an image.         *)
ArchiveSpec == Archive!Spec
-----------------------------------------------------------------------------
(* upload-receipt.dto.ts:22 declares numberOfPeople optional: an upload    *)
(* without it that met no failing call is stored like any other.           *)
UploadWithoutPeopleStored ==
    \A r \in Request :
        /\ IsUpload(r) /\ response[r] = "created"
        /\ ~req[r].people /\ req[r].id = r /\ r \notin failed
        => r \in Issued

(* receipt.service.ts:285 says that the file read back for OCR is the file *)
(* this upload has written.                                                *)
ReadsOwnUpload == \A r \in Request : readBack[r] \in {None, r}
=============================================================================
