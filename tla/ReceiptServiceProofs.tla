------------------------ MODULE ReceiptServiceProofs ------------------------
(***************************************************************************)
(* Theorems about ReceiptService, for every set of requests and names.     *)
(*                                                                         *)
(* The actions are first sorted by what they do to the facts of IndInv     *)
(* (StepKinds); each conjunct of IndInv is then shown to survive each kind *)
(* of step, and the safety properties follow from IndInv.                  *)
(***************************************************************************)
EXTENDS ReceiptInvariant, TLAPS

(* The inputs the handlers are given are inputs.                           *)
LEMMA InputType ==
    ASSUME NEW r \in Request, NEW i \in Request, NEW f \in FileName \cup {None},
           NEW people \in BOOLEAN, NEW ids \in SUBSET Request
    PROVE  /\ NoInput(r) \in Input
           /\ [NoInput(r) EXCEPT !.op = "create", !.id = i, !.people = people] \in Input
           /\ [NoInput(r) EXCEPT !.op = "update", !.id = i, !.file = f] \in Input
           /\ [NoInput(r) EXCEPT !.op = "delete", !.ids = ids] \in Input
           /\ [NoInput(r) EXCEPT !.op = "period"] \in Input
BY DEF NoInput, Input

(* The types hold initially ...                                            *)
LEMMA TypeInit == Init => TypeOK
<1> SUFFICES ASSUME Init PROVE TypeOK
    OBVIOUS
<1>1. \A r \in Request : NoInput(r) \in Input
  BY DEF NoInput, Input
<1>2. req \in [Request -> Input] /\ due \in [Request -> SUBSET Request]
  BY <1>1 DEF Init
<1> QED BY <1>2 DEF Init, TypeOK, Phase

(* The handler of a request starts.                                        *)
LEMMA ArriveType ==
    ASSUME TypeOK, NEW r \in Request, NEW input \in Input, NEW next \in Phase,
           Arrive(r, input, next),
           response' \in [Request -> {"none", "created", "exception", "ok", "error",
                                     "lost"}]
    PROVE  TypeOK'
<1>1. input.ids \cap Live \in SUBSET Request
  BY DEF Input
<1>2. due' \in [Request -> SUBSET Request]
  BY <1>1 DEF Arrive, TypeOK
<1> QED BY <1>2 DEF Arrive, TypeOK, disk, stores

(* ... and every step keeps them.                                          *)
LEMMA TypeStep == TypeOK /\ [Next]_vars => TypeOK'
<1> SUFFICES ASSUME TypeOK, [Next]_vars PROVE TypeOK'
    OBVIOUS
<1> USE DEF vars, handlers, disk, stores, TypeOK, Phase
<1>1. CASE UNCHANGED vars
  BY <1>1
<1>2. CASE Crash
  BY <1>2 DEF Crash, Stop, Active
<1>3. CASE Restart
  BY <1>3 DEF Restart
<1>4. ASSUME NEW r \in Request, Arrival(r)
      PROVE  TypeOK'
  <2>1. CASE UploadReceipt(r)
    <3>1. PICK people \in BOOLEAN, i \in Issued \cup {r} :
             Arrive(r, [NoInput(r) EXCEPT !.op = "create", !.id = i,
                                          !.people = people], "put")
      BY <2>1 DEF UploadReceipt
    <3>2. i \in Request
      BY DEF Issued, Live
    <3> QED BY <2>1, <3>1, <3>2, InputType, ArriveType DEF UploadReceipt
  <2>2. CASE RejectUpload(r)
    <3>1. response' \in [Request -> {"none", "created", "exception", "ok", "error",
                                    "lost"}]
      BY <2>2 DEF RejectUpload
    <3> QED BY <2>2, <3>1, InputType, ArriveType DEF RejectUpload
  <2>3. CASE UpdateReceipt(r)
    <3>1. PICK i \in Issued, f \in FileName \cup {None} :
             Arrive(r, [NoInput(r) EXCEPT !.op = "update", !.id = i, !.file = f],
                    IF f = None THEN "lookup" ELSE "put")
      BY <2>3 DEF UpdateReceipt
    <3>2. i \in Request
      BY DEF Issued, Live
    <3> QED BY <2>3, <3>1, <3>2, InputType, ArriveType DEF UpdateReceipt
  <2>4. CASE DeleteReceipt(r)
    <3>1. PICK ids \in SUBSET Issued :
             Arrive(r, [NoInput(r) EXCEPT !.op = "delete", !.ids = ids], "remove")
      BY <2>4 DEF DeleteReceipt
    <3>2. ids \in SUBSET Request
      BY DEF Issued, Live
    <3> QED BY <2>4, <3>1, <3>2, InputType, ArriveType DEF DeleteReceipt
  <2>5. CASE GetReceiptByPeriod(r)
    <3>1. response' \in [Request -> {"none", "created", "exception", "ok", "error",
                                    "lost"}]
      BY <2>5 DEF GetReceiptByPeriod
    <3> QED BY <2>5, <3>1, InputType, ArriveType DEF GetReceiptByPeriod
  <2> QED BY <1>4, <2>1, <2>2, <2>3, <2>4, <2>5 DEF Arrival
<1>5. ASSUME NEW r \in Request, Progress(r)
      PROVE  TypeOK'
  <2> USE DEF GoTo, Answer, StoreImage
  <2>1. CASE PutImage(r)
    BY <2>1 DEF PutImage, UploadKey, Key
  <2>2. CASE SaveReceipt(r)
    BY <2>2 DEF SaveReceipt, Insert
  <2>3. CASE SaveReceiptNaN(r) \/ SaveReceiptDuplicate(r)
    BY <2>3 DEF SaveReceiptNaN, SaveReceiptDuplicate
  <2>4. CASE TruncateScratch(r) \/ WriteScratch(r) \/ ReadScratch(r)
    BY <2>4 DEF TruncateScratch, WriteScratch, ReadScratch
  <2>5. CASE PutNamedImage(r)
    BY <2>5 DEF PutNamedImage, UploadKey, Key, Input
  <2>6. CASE ReadDetail(r)
    BY <2>6 DEF ReadDetail, Input
  <2>7. CASE ReadDetailMissing(r)
    BY <2>7 DEF ReadDetailMissing
  <2>8. CASE WriteUpdate(r)
    BY <2>8 DEF WriteUpdate, SetImgPath
  <2>9. CASE RemoveOne(r) \/ RemoveDone(r)
    BY <2>9 DEF RemoveOne, RemoveDone, Live
  <2>10. CASE PeriodQueryDone(r)
    BY <2>10 DEF PeriodQueryDone
  <2> QED BY <1>5, <2>1, <2>2, <2>3, <2>4, <2>5, <2>6, <2>7, <2>8, <2>9, <2>10
          DEF Progress
<1>6. ASSUME NEW r \in Request, Failure(r)
      PROVE  TypeOK'
  <2> USE DEF GoTo, Answer, Swallow, Refuse, StoreImage
  <2>1. CASE PutImageFails(r)
    BY <2>1 DEF PutImageFails
  <2>2. CASE SaveReceiptFails(r)
    BY <2>2 DEF SaveReceiptFails, Insert
  <2>3. CASE ScratchFails(r)
    BY <2>3 DEF ScratchFails
  <2>4. CASE PutNamedImageFails(r)
    BY <2>4 DEF PutNamedImageFails
  <2>5. CASE ReadDetailFails(r) \/ RemoveFails(r)
    BY <2>5 DEF ReadDetailFails, RemoveFails
  <2>6. CASE WriteUpdateFails(r)
    BY <2>6 DEF WriteUpdateFails, SetImgPath
  <2>7. CASE PeriodQueryRejected(r)
    BY <2>7 DEF PeriodQueryRejected, Stop, Active
  <2> QED BY <1>6, <2>1, <2>2, <2>3, <2>4, <2>5, <2>6, <2>7 DEF Failure
<1> QED BY <1>1, <1>2, <1>3, <1>4, <1>5, <1>6 DEF Next

(* Every variable keeps to its type in every reachable state.              *)
THEOREM TypeCorrect == Spec => []TypeOK
BY TypeInit, TypeStep, PTL DEF Spec
-----------------------------------------------------------------------------
(* The kinds of step.                                                      *)

(* A handler moves on, or the process stops or starts: no document, no     *)
(* object, no input and no local imgPath changes.                          *)
Quiet ==
    /\ UNCHANGED <<req, path, stores>>
    /\ failed \subseteq failed'
    /\ \A q \in Request :
          /\ \/ pc'[q] = pc[q]
             \/ pc[q] = "save" /\ pc'[q] = "done"
             \/ pc[q] = "truncate" /\ pc'[q] \in {"write", "done"}
             \/ pc[q] = "write" /\ pc'[q] \in {"read", "done"}
             \/ pc[q] \notin {"idle", "done"} /\ pc'[q] = "done"
          /\ \/ response'[q] = response[q]
             \/ pc[q] # "idle" /\ pc'[q] = "done"
          /\ pc'[q] = "done" => \/ pc[q] \in {"query", "done"}
                                \/ response'[q] # response[q]
          /\ IsUpload(q) /\ response'[q] # response[q]
                => response'[q] \in {"created", "lost"}
          /\ IsUpload(q) /\ req[q].people /\ response'[q] = "created"
                => \/ pc[q] = "read" \/ response[q] = "created"
                   \/ receipts[req[q].id] # None \/ q \in failed'

(* What a request may ask for, and the phase its handler starts in.        *)
Asks(r, input, next) ==
    \/ input = NoInput(r) /\ next = "done"
    \/ /\ input.op = "create" /\ next = "put"
       /\ input.id \in Issued \cup {r} /\ input.ids = {}
    \/ /\ input.op = "update" /\ next = IF input.file = None THEN "lookup" ELSE "put"
       /\ input.id \in Issued /\ input.ids = {}
    \/ input.op = "delete" /\ next = "remove" /\ input.ids \subseteq Issued
    \/ input.op = "period" /\ next = "query" /\ input.ids = {}

Arrives(r) ==
    \E input \in Input, next \in Phase :
        /\ Asks(r, input, next)
        /\ Arrive(r, input, next)
        /\ \A q \in Request \ {r} : response'[q] = response[q]
        /\ \/ response'[r] = response[r] /\ input.op # "none"
           \/ response'[r] \in {"error", "exception"} /\ next = "done"
           \/ response'[r] = "ok" /\ next = "query"

(* An upload ends, or fails with or without having stored its object.      *)
Uploads(r) ==
    /\ pc[r] = "put"
    /\ UNCHANGED <<req, receipts, deleted>>
    /\ \/ /\ pc' = [pc EXCEPT ![r] = IF IsUpload(r) THEN "save" ELSE "modify"]
          /\ StoreImage(r)
          /\ path' = [path EXCEPT ![r] = UploadKey(r)]
          /\ UNCHANGED <<response, failed>>
       \/ /\ pc' = [pc EXCEPT ![r] = "done"]
          /\ StoreImage(r) \/ UNCHANGED blobs
          /\ response' = [response EXCEPT
                            ![r] = IF IsUpload(r) THEN "created" ELSE "error"]
          /\ UNCHANGED path
          /\ failed' = failed \cup {r}

Inserts(r) ==
    /\ pc[r] = "save"
    /\ Insert(r)
    /\ UNCHANGED <<req, path, blobs, deleted>>
    /\ \/ /\ pc' = [pc EXCEPT ![r] = "truncate"]
          /\ UNCHANGED <<response, failed>>
       \/ /\ pc' = [pc EXCEPT ![r] = "done"]
          /\ response' = [response EXCEPT ![r] = "created"]
          /\ failed' = failed \cup {r}

Looks(r) ==
    /\ pc[r] = "lookup"
    /\ receipts[req[r].id] # None
    /\ pc' = [pc EXCEPT ![r] = "modify"]
    /\ path' = [path EXCEPT ![r] = receipts[req[r].id]]
    /\ UNCHANGED <<req, response, failed, stores>>

Amends(r) ==
    /\ pc[r] = "modify"
    /\ pc' = [pc EXCEPT ![r] = "done"]
    /\ SetImgPath(r) \/ UNCHANGED receipts
    /\ \E code \in {"ok", "error"} : response' = [response EXCEPT ![r] = code]
    /\ failed \subseteq failed'
    /\ UNCHANGED <<req, path, blobs, deleted>>

Removes(r) ==
    /\ \E i \in Live : /\ receipts' = [receipts EXCEPT ![i] = None]
                       /\ deleted'  = deleted \cup {i}
    /\ UNCHANGED <<pc, req, path, response, failed, blobs>>

Kind == \/ Quiet
        \/ \E r \in Request : \/ Arrives(r) \/ Uploads(r) \/ Inserts(r)
                               \/ Looks(r) \/ Amends(r) \/ Removes(r)

(* A request that arrives touches nothing but itself.                      *)
LEMMA ArrivalKind ==
    ASSUME TypeOK, PhaseOf, NEW r \in Request, Arrival(r)
    PROVE  Arrives(r)
<1> USE DEF handlers, stores, TypeOK, Asks
<1>0. Issued \subseteq Request
  BY DEF Issued, Live
<1>1. CASE UploadReceipt(r)
  <2>1. PICK people \in BOOLEAN, i \in Issued \cup {r} :
           Arrive(r, [NoInput(r) EXCEPT !.op = "create", !.id = i,
                                        !.people = people], "put")
    BY <1>1 DEF UploadReceipt
  <2> DEFINE input == [NoInput(r) EXCEPT !.op = "create", !.id = i, !.people = people]
  <2>2. input \in Input /\ Asks(r, input, "put") /\ input.op # "none"
    BY <1>0, InputType DEF NoInput
  <2> HIDE DEF input
  <2> QED BY <1>1, <2>1, <2>2 DEF input, UploadReceipt, Arrives, Phase
<1>2. CASE RejectUpload(r)
  BY <1>2, InputType DEF RejectUpload, Arrives, Arrive, Phase
<1>3. CASE UpdateReceipt(r)
  <2>1. PICK i \in Issued, f \in FileName \cup {None} :
           Arrive(r, [NoInput(r) EXCEPT !.op = "update", !.id = i, !.file = f],
                  IF f = None THEN "lookup" ELSE "put")
    BY <1>3 DEF UpdateReceipt
  <2> DEFINE input == [NoInput(r) EXCEPT !.op = "update", !.id = i, !.file = f]
             next  == IF f = None THEN "lookup" ELSE "put"
  <2>2. input \in Input /\ Asks(r, input, next) /\ input.op # "none"
    BY <1>0, InputType DEF NoInput
  <2> HIDE DEF input
  <2> QED BY <1>3, <2>1, <2>2 DEF input, UpdateReceipt, Arrives, Phase
<1>4. CASE DeleteReceipt(r)
  <2>1. PICK ids \in SUBSET Issued :
           Arrive(r, [NoInput(r) EXCEPT !.op = "delete", !.ids = ids], "remove")
    BY <1>4 DEF DeleteReceipt
  <2> DEFINE input == [NoInput(r) EXCEPT !.op = "delete", !.ids = ids]
  <2>2. ids \in SUBSET Request
    BY <1>0
  <2>3. input \in Input /\ Asks(r, input, "remove") /\ input.op # "none"
    BY <2>2, InputType DEF NoInput
  <2> HIDE DEF input
  <2> QED BY <1>4, <2>1, <2>3 DEF input, DeleteReceipt, Arrives, Phase
<1>5. CASE GetReceiptByPeriod(r)
  <2> DEFINE input == [NoInput(r) EXCEPT !.op = "period"]
  <2>1. input \in Input /\ Asks(r, input, "query") /\ input.op # "none"
    BY InputType DEF NoInput
  <2> HIDE DEF input
  <2> QED BY <1>5, <2>1 DEF input, GetReceiptByPeriod, Arrives, Arrive, Phase
<1> QED BY <1>1, <1>2, <1>3, <1>4, <1>5 DEF Arrival

(* What the steps of a handler do to the stores.                           *)
LEMMA ProgressKind ==
    ASSUME TypeOK, PhaseOf, NEW r \in Request, Progress(r)
    PROVE  Kind
<1> USE DEF GoTo, Answer, handlers, stores, TypeOK
<1>1. CASE PutImage(r)
  BY <1>1 DEF PutImage, Uploads, Kind, IsUpload
<1>2. CASE SaveReceipt(r)
  BY <1>2 DEF SaveReceipt, Inserts, Kind
<1>3. CASE SaveReceiptNaN(r)
  BY <1>3 DEF SaveReceiptNaN, Quiet, Kind, PhaseOf, IsUpload, Phase
<1>4. CASE SaveReceiptDuplicate(r)
  BY <1>4 DEF SaveReceiptDuplicate, Quiet, Kind, PhaseOf, IsUpload
<1>5. CASE TruncateScratch(r)
  BY <1>5 DEF TruncateScratch, Quiet, Kind, PhaseOf, IsUpload
<1>6. CASE WriteScratch(r)
  BY <1>6 DEF WriteScratch, Quiet, Kind, PhaseOf, IsUpload
<1>7. CASE ReadScratch(r)
  BY <1>7 DEF ReadScratch, Quiet, Kind, PhaseOf, IsUpload
<1>8. CASE PutNamedImage(r)
  BY <1>8 DEF PutNamedImage, Uploads, Kind, IsUpload
<1>9. CASE ReadDetail(r)
  BY <1>9 DEF ReadDetail, Looks, Kind
<1>10. CASE ReadDetailMissing(r)
  BY <1>10 DEF ReadDetailMissing, Quiet, Kind, PhaseOf, IsUpload
<1>11. CASE WriteUpdate(r)
  BY <1>11 DEF WriteUpdate, Amends, Kind
<1>12. CASE RemoveOne(r)
  BY <1>12 DEF RemoveOne, Removes, Kind
<1>13. CASE RemoveDone(r)
  BY <1>13 DEF RemoveDone, Quiet, Kind, PhaseOf, IsUpload
<1>14. CASE PeriodQueryDone(r)
  BY <1>14 DEF PeriodQueryDone, Quiet, Kind, PhaseOf, IsUpload
<1> QED BY <1>1, <1>2, <1>3, <1>4, <1>5, <1>6, <1>7, <1>8, <1>9, <1>10, <1>11,
           <1>12, <1>13, <1>14 DEF Progress

(* The end of the process touches no store.                                *)
LEMMA StopKind ==
    ASSUME TypeOK, PhaseOf, Stop, failed \subseteq failed'
    PROVE  Quiet
BY DEF Stop, Active, Quiet, PhaseOf, IsUpload, stores, TypeOK

(* A failing call does what a succeeding one does, or nothing.             *)
LEMMA FailureKind ==
    ASSUME TypeOK, PhaseOf, NEW r \in Request, Failure(r)
    PROVE  Kind
<1> USE DEF GoTo, Answer, Swallow, Refuse, handlers, stores, TypeOK
<1>1. CASE PutImageFails(r)
  BY <1>1 DEF PutImageFails, Uploads, Kind, IsUpload
<1>2. CASE SaveReceiptFails(r)
  <2>1. CASE Insert(r)
    BY <1>2, <2>1 DEF SaveReceiptFails, Inserts, Kind
  <2>2. CASE UNCHANGED receipts
    BY <1>2, <2>2 DEF SaveReceiptFails, Quiet, Kind, PhaseOf, IsUpload
  <2> QED BY <1>2, <2>1, <2>2 DEF SaveReceiptFails
<1>3. CASE ScratchFails(r)
  BY <1>3 DEF ScratchFails, Quiet, Kind, PhaseOf, IsUpload
<1>4. CASE PutNamedImageFails(r)
  BY <1>4 DEF PutNamedImageFails, Uploads, Kind, IsUpload
<1>5. CASE ReadDetailFails(r)
  BY <1>5 DEF ReadDetailFails, Quiet, Kind, PhaseOf, IsUpload
<1>6. CASE WriteUpdateFails(r)
  BY <1>6 DEF WriteUpdateFails, Amends, Kind
<1>7. CASE RemoveFails(r)
  BY <1>7 DEF RemoveFails, Quiet, Kind, PhaseOf, IsUpload
<1>8. CASE PeriodQueryRejected(r)
  BY <1>8, StopKind DEF PeriodQueryRejected, Kind
<1> QED BY <1>1, <1>2, <1>3, <1>4, <1>5, <1>6, <1>7, <1>8 DEF Failure

(* Every step is of one of the kinds.                                      *)
LEMMA StepKinds == TypeOK /\ PhaseOf /\ [Next]_vars => Kind
<1> SUFFICES ASSUME TypeOK, PhaseOf, [Next]_vars PROVE Kind
    OBVIOUS
<1>1. CASE UNCHANGED vars
  BY <1>1 DEF vars, handlers, stores, Quiet, Kind, TypeOK
<1>2. CASE Crash
  BY <1>2, StopKind DEF Crash, Kind
<1>3. CASE Restart
  BY <1>3 DEF Restart, stores, Quiet, Kind, TypeOK
<1>4. CASE \E r \in Request : Arrival(r)
  BY <1>4, ArrivalKind DEF Kind
<1>5. CASE \E r \in Request : Progress(r) \/ Failure(r)
  BY <1>5, ProgressKind, FailureKind
<1> QED BY <1>1, <1>2, <1>3, <1>4, <1>5 DEF Next
-----------------------------------------------------------------------------
(* What no step takes back.                                                *)
LEMMA InputStable ==
    ASSUME TypeOK, PhaseOf, Kind
    PROVE  \A q \in Request :
               \/ req'[q] = req[q]
               \/ pc[q] = "idle" /\ req[q].op = "none" /\ pc'[q] # "idle"
<1>1. CASE Quiet
  BY <1>1 DEF Quiet
<1>2. ASSUME NEW r \in Request, Arrives(r)
      PROVE  \A q \in Request :
                 \/ req'[q] = req[q]
                 \/ pc[q] = "idle" /\ req[q].op = "none" /\ pc'[q] # "idle"
  BY <1>2 DEF Arrives, Arrive, Asks, PhaseOf, TypeOK
<1>3. CASE \E r \in Request :
              Uploads(r) \/ Inserts(r) \/ Looks(r) \/ Amends(r) \/ Removes(r)
  BY <1>3 DEF Uploads, Inserts, Looks, Amends, Removes
<1> QED BY <1>1, <1>2, <1>3 DEF Kind

(* A handler never goes back to an earlier await.                          *)
LEMMA PhaseForward ==
    ASSUME TypeOK, PhaseOf, Kind
    PROVE  \A q \in Request :
               /\ pc[q] # "idle" => pc'[q] # "idle"
               /\ pc[q] \notin {"idle", "put"} => pc'[q] \notin {"idle", "put"}
               /\ pc[q] \notin {"idle", "put", "save"} =>
                       pc'[q] \notin {"idle", "put", "save"}
<1>1. CASE Quiet
  BY <1>1 DEF Quiet
<1>2. ASSUME NEW r \in Request,
             Arrives(r) \/ Uploads(r) \/ Inserts(r) \/ Looks(r) \/ Amends(r) \/ Removes(r)
      PROVE  \A q \in Request :
               /\ pc[q] # "idle" => pc'[q] # "idle"
               /\ pc[q] \notin {"idle", "put"} => pc'[q] \notin {"idle", "put"}
               /\ pc[q] \notin {"idle", "put", "save"} =>
                       pc'[q] \notin {"idle", "put", "save"}
  BY <1>2 DEF Arrives, Arrive, Asks, Uploads, Inserts, Looks, Amends, Removes, TypeOK
<1> QED BY <1>1, <1>2 DEF Kind

(* What a request brought, and for which receipt, does not change.         *)
LEMMA BringsStable ==
    ASSUME TypeOK, PhaseOf, Kind, NEW w \in Request, NEW i \in Request
    PROVE  /\ IsUpload(w) => IsUpload(w)'
           /\ HasFile(w) => HasFile(w)'
           /\ Brings(w, i) => Brings(w, i)' /\ UploadKey(w)' = UploadKey(w)
           /\ Rewrote(w, i) => Rewrote(w, i)'
           /\ \A k : Brought(i, k) => Brought(i, k)'
<1>1. \A q \in Request : Brings(q, i) =>
         /\ req'[q] = req[q] /\ Brings(q, i)' /\ UploadKey(q)' = UploadKey(q)
  BY InputStable DEF Brings, IsUpload, HasFile, UploadKey
<1>2. (IsUpload(w) \/ HasFile(w)) => req'[w] = req[w]
  BY InputStable DEF IsUpload, HasFile
<1>3. Rewrote(w, i) => Rewrote(w, i)'
  BY <1>1, PhaseForward DEF Rewrote
<1> QED BY <1>1, <1>2, <1>3 DEF IsUpload, HasFile, Brought

(* Ids, deletions and failures are remembered, and a usable key stays      *)
(* usable.                                                                 *)
LEMMA StoresStable ==
    ASSUME TypeOK, PhaseOf, PathsUsable, Kind
    PROVE  /\ Issued \subseteq Issued'
           /\ deleted \subseteq deleted'
           /\ failed \subseteq failed'
           /\ \A k \in Key : blobs[k] # None => blobs'[k] # None
<1> USE NullAssumption, KeyAssumption DEF Issued, Live, TypeOK, stores
<1>1. CASE Quiet
  BY <1>1 DEF Quiet
<1>2. CASE \E r \in Request : Arrives(r) \/ Uploads(r) \/ Looks(r) \/ Removes(r)
  BY <1>2 DEF Arrives, Arrive, Uploads, StoreImage, Looks, Removes
<1>3. CASE \E r \in Request : Inserts(r) \/ Amends(r)
  BY <1>3 DEF Inserts, Insert, Amends, SetImgPath, PathsUsable, Usable
<1> QED BY <1>1, <1>2, <1>3 DEF Kind
-----------------------------------------------------------------------------
(* Each conjunct of IndInv survives each kind of step.                     *)
LEMMA PhaseStep ==
    ASSUME TypeOK, PhaseOf, Kind
    PROVE  PhaseOf'
<1> USE DEF TypeOK
<1>1. CASE Quiet
  BY <1>1 DEF Quiet, PhaseOf, IsUpload, HasFile
<1>2. ASSUME NEW r \in Request, Arrives(r)
      PROVE  PhaseOf'
  BY <1>2 DEF Arrives, Arrive, Asks, NoInput, PhaseOf, IsUpload, HasFile
<1>3. CASE \E r \in Request : Uploads(r)
  BY <1>3 DEF Uploads, PhaseOf, IsUpload, HasFile
<1>4. CASE \E r \in Request : Inserts(r)
  BY <1>4 DEF Inserts, PhaseOf, IsUpload, HasFile
<1>5. CASE \E r \in Request : Looks(r)
  BY <1>5 DEF Looks, PhaseOf, IsUpload, HasFile
<1>6. CASE \E r \in Request : Amends(r)
  BY <1>6 DEF Amends, PhaseOf, IsUpload, HasFile
<1>7. CASE \E r \in Request : Removes(r)
  BY <1>7 DEF Removes, PhaseOf, IsUpload, HasFile
<1> QED BY <1>1, <1>2, <1>3, <1>4, <1>5, <1>6, <1>7 DEF Kind

(* Only an insert issues an id, and it issues the one its handler holds.   *)
LEMMA IdsStep ==
    ASSUME IndInv, Kind
    PROVE  IdsIssued'
<1> USE DEF IndInv
<1>1. /\ Issued \subseteq Issued'
      /\ \A q \in Request : \/ req'[q] = req[q]
                            \/ pc[q] = "idle" /\ req[q].op = "none" /\ pc'[q] # "idle"
      /\ \A q \in Request : pc[q] \notin {"idle", "put", "save"} =>
                            pc'[q] \notin {"idle", "put", "save"}
  BY StoresStable, InputStable, PhaseForward
<1>2. ASSUME NEW i \in Issued'
      PROVE  \/ i \in Issued
             \/ \E r \in Request : Inserts(r) /\ req[r].id = i
  <2> USE <1>2 DEF Issued, Live, TypeOK, stores
  <2>1. CASE Quiet
    BY <2>1 DEF Quiet
  <2>2. CASE \E r \in Request : Arrives(r) \/ Uploads(r) \/ Looks(r)
    BY <2>2 DEF Arrives, Arrive, Uploads, Looks
  <2>3. CASE \E r \in Request : Removes(r)
    BY <2>3 DEF Removes
  <2>4. ASSUME NEW r \in Request, Inserts(r), i # req[r].id
        PROVE  i \in Issued
    <3>1. receipts' = [receipts EXCEPT ![req[r].id] = path[r]] /\ deleted' = deleted
      BY <2>4 DEF Inserts, Insert
    <3> QED BY <2>4, <3>1
  <2>5. CASE \E r \in Request : Amends(r)
    BY <2>5 DEF Amends, SetImgPath
  <2> QED BY <2>1, <2>2, <2>3, <2>4, <2>5 DEF Kind
<1>3. ASSUME NEW i \in Issued'
      PROVE  (IsUpload(i) /\ req[i].id = i /\ pc[i] \notin {"idle", "put", "save"})'
  <2>1. CASE i \in Issued
    BY <1>1, <2>1 DEF IdsIssued, IsUpload, Issued, Live, TypeOK
  <2>2. ASSUME NEW r \in Request, Inserts(r), req[r].id = i, i \notin Issued
        PROVE  (IsUpload(i) /\ req[i].id = i /\ pc[i] \notin {"idle", "put", "save"})'
    <3>1. IsUpload(r) /\ i = r
      BY <2>2 DEF Inserts, PhaseOf, IdsIssued
    <3> QED BY <2>2, <3>1 DEF Inserts, IsUpload, TypeOK
  <2> QED BY <1>2, <1>3, <2>1, <2>2
<1>4. ASSUME NEW r \in Request
      PROVE  (/\ IsUpload(r) => req[r].id \in Issued \cup {r}
              /\ req[r].op = "update" => req[r].id \in Issued
              /\ req[r].ids \subseteq Issued)'
  <2>1. CASE req'[r] = req[r]
    BY <1>1, <2>1 DEF IdsIssued, IsUpload
  <2>2. CASE Arrives(r)
    BY <1>1, <2>2 DEF Arrives, Arrive, Asks, NoInput, IsUpload, TypeOK
  <2>3. req'[r] = req[r] \/ Arrives(r)
    BY DEF Kind, Quiet, Arrives, Arrive, Uploads, Inserts, Looks, Amends, Removes, TypeOK
  <2> QED BY <2>1, <2>2, <2>3
<1> QED BY <1>3, <1>4 DEF IdsIssued

(* An image stays with the request that uploaded it.                       *)
LEMMA OwnsStable ==
    ASSUME TypeOK, PhaseOf, Kind, NEW q \in Request, NEW k, Owns(q, k)
    PROVE  Owns(q, k)'
<1>1. /\ req'[q] = req[q] /\ pc'[q] \notin {"idle", "put"}
      /\ IsUpload(q)' \/ HasFile(q)'
      /\ UploadKey(q)' = k
      /\ IsUpload(q)' => IsUpload(q)
  BY InputStable, PhaseForward DEF Owns, IsUpload, HasFile, UploadKey
<1>2. ASSUME IsUpload(q), pc'[q] = "done"
      PROVE  response'[q] \in {"created", "lost"}
  <2> USE <1>2 DEF Owns, TypeOK
  <2>1. CASE Quiet
    BY <2>1 DEF Quiet, PhaseOf, IsUpload
  <2>2. CASE \E r \in Request : Arrives(r) \/ Uploads(r) \/ Looks(r) \/ Removes(r)
    BY <2>2 DEF Arrives, Arrive, Uploads, Looks, Removes
  <2>3. CASE \E r \in Request : Inserts(r) \/ Amends(r)
    BY <2>3 DEF Inserts, Amends, PhaseOf, IsUpload
  <2> QED BY <2>1, <2>2, <2>3 DEF Kind
<1> QED BY <1>1, <1>2 DEF Owns

(* An object changes owner only when an upload to its key ends.            *)
LEMMA BlobChange ==
    ASSUME TypeOK, PhaseOf, Kind, NEW k \in Key, NEW q \in Request, blobs'[k] = q
    PROVE  blobs[k] = q \/ Owns(q, k)'
<1> USE DEF TypeOK
<1>1. CASE \E r \in Request : Uploads(r)
  <2>1. PICK r \in Request : Uploads(r)
    BY <1>1
  <2>2. CASE blobs' = blobs
    BY <2>2
  <2>3. CASE StoreImage(r) /\ k = UploadKey(r)
    <3>1. q = r /\ req' = req
      BY <2>1, <2>3 DEF StoreImage, Uploads
    <3> QED BY <2>1, <2>3, <3>1
            DEF Uploads, Owns, PhaseOf, UploadKey, IsUpload, HasFile
  <2>4. CASE StoreImage(r) /\ k # UploadKey(r)
    BY <2>4 DEF StoreImage
  <2> QED BY <2>1, <2>2, <2>3, <2>4 DEF Uploads
<1>2. CASE ~(\E r \in Request : Uploads(r))
  BY <1>2 DEF Kind, Quiet, Arrives, Arrive, Inserts, Looks, Amends, Removes, stores
<1> QED BY <1>1, <1>2

(* Every object stays under the key its uploader brought.                  *)
LEMMA BlobsStep ==
    ASSUME IndInv, Kind
    PROVE  BlobsOwned'
<1>1. ASSUME NEW k \in Key, NEW q \in Request, blobs'[k] = q
      PROVE  Owns(q, k)'
  BY <1>1, BlobChange, OwnsStable DEF IndInv, BlobsOwned
<1> QED BY <1>1 DEF BlobsOwned

(* A key that is usable for a receipt stays so.                            *)
LEMMA UsableStable ==
    ASSUME IndInv, Kind, NEW i \in Request, NEW k, Usable(i, k)
    PROVE  Usable(i, k)'
BY BringsStable, StoresStable DEF IndInv, Usable

(* A handler is only ever about to write a usable key.                     *)
LEMMA PathsStep ==
    ASSUME IndInv, Kind
    PROVE  PathsUsable'
<1> USE DEF IndInv
<1> SUFFICES ASSUME NEW q \in Request, pc'[q] \in {"save", "modify"}
             PROVE  (/\ Usable(req[q].id, path[q])
                     /\ IsUpload(q) \/ HasFile(q) => path[q] = UploadKey(q))'
    BY DEF PathsUsable
<1> DEFINE i == req[q].id
<1>1. i \in Request
  BY DEF TypeOK, Input
<1>2. CASE pc[q] = pc'[q]
  <2>1. req'[q] = req[q] /\ path'[q] = path[q]
    BY <1>2, InputStable DEF Kind, Quiet, Arrives, Arrive, Uploads, Inserts, Looks,
       Amends, Removes, TypeOK
  <2>2. Usable(i, path[q]) /\ (IsUpload(q) \/ HasFile(q) => path[q] = UploadKey(q))
    BY <1>2 DEF PathsUsable
  <2>3. Usable(i, path[q])'
    BY <1>1, <2>1, <2>2, UsableStable
  <2> QED BY <2>1, <2>2, <2>3 DEF IsUpload, HasFile, UploadKey
<1>3. CASE Uploads(q)
  <2>1. /\ req' = req /\ path'[q] = UploadKey(q) /\ blobs'[UploadKey(q)] = q
        /\ UploadKey(q) \in Key
    BY <1>3 DEF Uploads, StoreImage, TypeOK, PhaseOf, UploadKey, Key, IsUpload, HasFile, Input
  <2>2. Brings(q, i)
    BY <1>3 DEF Uploads, PhaseOf, Brings
  <2> QED BY <2>1, <2>2, NullAssumption
          DEF Usable, Brought, Brings, IsUpload, HasFile, UploadKey
<1>4. CASE Looks(q)
  <2>1. req' = req /\ path'[q] = receipts[i] /\ i \in Live
    BY <1>1, <1>4 DEF Looks, TypeOK, Live
  <2>2. Usable(i, path'[q]) /\ ~IsUpload(q) /\ ~HasFile(q)
    BY <1>4, <2>1 DEF DocumentsUsable, Looks, PhaseOf, IsUpload
  <2>3. PICK k : k = path'[q]
    OBVIOUS
  <2>4. Usable(i, k)'
    BY <1>1, <2>1, <2>2, <2>3, UsableStable
  <2> QED BY <2>1, <2>2, <2>3, <2>4 DEF IsUpload, HasFile, Usable
<1>5. pc[q] = pc'[q] \/ Uploads(q) \/ Looks(q)
  BY DEF Kind, Quiet, Arrives, Arrive, Asks, Uploads, Inserts, Looks, Amends, Removes,
     TypeOK
<1> QED BY <1>2, <1>3, <1>4, <1>5

(* A document is written with the local imgPath of a handler, or not.      *)
LEMMA DocumentsStep ==
    ASSUME IndInv, Kind
    PROVE  DocumentsUsable'
<1> USE DEF IndInv
<1> SUFFICES ASSUME NEW i \in Request, receipts'[i] # None
             PROVE  Usable(i, receipts[i])'
    BY DEF DocumentsUsable, Live
<1>1. \/ receipts'[i] = receipts[i]
      \/ \E r \in Request : /\ pc[r] \in {"save", "modify"}
                            /\ req[r].id = i
                            /\ receipts'[i] = path[r]
  BY DEF Kind, Quiet, Arrives, Arrive, Uploads, Inserts, Insert, Looks, Amends,
     SetImgPath, Removes, TypeOK, stores
<1>2. PICK k : k = receipts'[i]
  OBVIOUS
<1>3. Usable(i, k)
  BY <1>1, <1>2 DEF DocumentsUsable, PathsUsable, Live
<1>4. Usable(i, k)'
  BY <1>3, UsableStable
<1> QED BY <1>2, <1>4 DEF Usable

(* While nobody disturbs i, only its own upload can have written it.       *)
LEMMA UndisturbedStep ==
    ASSUME IndInv, Kind
    PROVE  UndisturbedKeepsKey'
<1> USE DEF IndInv
<1> SUFFICES ASSUME NEW i \in Request, Undisturbed(i)'
             PROVE  (/\ i \in Live => receipts[i] = GeneratedKey(i)
                     /\ \A u \in Request : pc[u] = "modify" /\ req[u].id = i
                                             => path[u] = GeneratedKey(i))'
    BY DEF UndisturbedKeepsKey
<1>1. Undisturbed(i)
  BY StoresStable, BringsStable, InputStable DEF Undisturbed, HasFile
<1>2. /\ i \in Live => receipts[i] = GeneratedKey(i)
      /\ \A u \in Request : pc[u] = "modify" /\ req[u].id = i
                              => path[u] = GeneratedKey(i)
  BY <1>1 DEF UndisturbedKeepsKey
<1>3. ASSUME receipts'[i] # None
      PROVE  receipts'[i] = GeneratedKey(i)
  <2>1. CASE receipts'[i] = receipts[i]
    BY <1>2, <1>3, <2>1 DEF Live
  <2>2. ASSUME NEW r \in Request, Inserts(r), req[r].id = i
        PROVE  receipts'[i] = GeneratedKey(i)
    <3>1. IsUpload(r) /\ receipts[i] = None /\ receipts'[i] = path[r]
      BY <2>2 DEF Inserts, Insert, PhaseOf, TypeOK
    <3>2. i \notin Issued
      BY <1>1, <3>1 DEF Undisturbed, Issued, Live
    <3>3. i = r
      BY <2>2, <3>1, <3>2 DEF IdsIssued
    <3> QED BY <2>2, <3>1, <3>3 DEF Inserts, PathsUsable, UploadKey, IsUpload
  <2>3. ASSUME NEW r \in Request, Amends(r), req[r].id = i,
               receipts'[i] # receipts[i]
        PROVE  receipts'[i] = GeneratedKey(i)
    BY <1>2, <2>3 DEF Amends, SetImgPath, TypeOK
  <2>4. \/ receipts'[i] = receipts[i]
        \/ \E r \in Request : /\ Inserts(r) \/ Amends(r)
                              /\ req[r].id = i
                              /\ receipts'[i] # receipts[i]
    BY <1>3 DEF Kind, Quiet, Arrives, Arrive, Uploads, Inserts, Insert, Looks, Amends,
       SetImgPath, Removes, TypeOK, stores
  <2> QED BY <2>1, <2>2, <2>3, <2>4
<1>4. ASSUME NEW u \in Request, pc'[u] = "modify", req'[u].id = i
      PROVE  path'[u] = GeneratedKey(i)
  <2>1. ~HasFile(u)'
    BY <1>4 DEF Undisturbed
  <2>2. CASE pc[u] = "modify"
    <3>1. req'[u] = req[u] /\ path'[u] = path[u]
      BY <1>4, <2>2, InputStable DEF Kind, Quiet, Arrives, Arrive, Uploads, Inserts, Looks,
         Amends, Removes, TypeOK
    <3> QED BY <1>2, <1>4, <2>2, <3>1
  <2>3. CASE Looks(u)
    BY <1>2, <1>4, <2>3 DEF Looks, TypeOK, Live
  <2>4. CASE Uploads(u)
    BY <1>4, <2>1, <2>4 DEF Uploads, PhaseOf, HasFile, IsUpload, TypeOK
  <2>5. pc[u] = "modify" \/ Looks(u) \/ Uploads(u)
    BY <1>4 DEF Kind, Quiet, Arrives, Arrive, Asks, Uploads, Inserts, Looks, Amends,
       Removes, TypeOK
  <2> QED BY <2>2, <2>3, <2>4, <2>5
<1> QED BY <1>3, <1>4 DEF Live

(* A complete upload past its insert is stored.                            *)
LEMMA InsertStep ==
    ASSUME IndInv, Kind
    PROVE  InsertHappened'
<1> USE DEF IndInv
<1> SUFFICES ASSUME NEW r \in Request,
                    (/\ IsUpload(r) /\ req[r].people /\ req[r].id = r
                     /\ r \notin failed
                     /\ \/ pc[r] \in {"truncate", "write", "read"}
                        \/ response[r] = "created")'
             PROVE  r \in Issued'
    BY DEF InsertHappened
<1>1. r \notin failed /\ Issued \subseteq Issued'
  BY StoresStable
<1>2. CASE req'[r] # req[r]
  BY <1>2, InputStable DEF Kind, Quiet, Arrives, Arrive, Asks, Uploads, Inserts, Looks,
     Amends, Removes, TypeOK, NoInput, IsUpload, PhaseOf
<1>3. CASE req'[r] = req[r]
  <2>1. IsUpload(r) /\ req[r].people /\ req[r].id = r
    BY <1>3 DEF IsUpload
  <2>2. CASE pc[r] \in {"truncate", "write", "read"} \/ response[r] = "created"
    BY <1>1, <2>1, <2>2 DEF InsertHappened
  <2>3. CASE Quiet /\ ~(pc[r] \in {"truncate", "write", "read"} \/ response[r] = "created")
    BY <1>1, <2>1, <2>3 DEF Quiet, Issued, Live, stores
  <2>4. CASE Inserts(r)
    <3>1. receipts'[r] = path[r] /\ path[r] \in Key
      BY <2>1, <2>4 DEF Inserts, Insert, PathsUsable, Usable, TypeOK
    <3> QED BY <3>1, KeyAssumption DEF Issued, Live
  <2>5. CASE Uploads(r)
    BY <2>1, <2>2, <2>5 DEF Uploads, TypeOK
  <2>6. \/ pc[r] \in {"truncate", "write", "read"} \/ response[r] = "created"
        \/ Quiet \/ Inserts(r) \/ Uploads(r)
    BY <2>1 DEF Kind, Arrives, Arrive, Uploads, Inserts, Looks, Amends, Removes, TypeOK,
       PhaseOf, IsUpload
  <2> QED BY <2>2, <2>3, <2>4, <2>5, <2>6
<1> QED BY <1>2, <1>3

(* A document comes into being only by an insert; one whose id was issued  *)
(* before, by the insert of an upload that carries the id.                 *)
LEMMA NewDocument ==
    ASSUME IndInv, Kind, NEW i \in Issued, receipts[i] = None, receipts'[i] # None
    PROVE  \E w \in Request : IsUpload(w)' /\ Rewrote(w, i)'
<1> USE DEF IndInv
<1>1. i \in Request
  BY DEF Issued, Live, TypeOK
<1>2. PICK w \in Request : Inserts(w) /\ req[w].id = i
  BY <1>1 DEF Kind, Quiet, Arrives, Arrive, Uploads, Inserts, Insert, Looks, Amends,
     SetImgPath, Removes, TypeOK, stores
<1>3. IsUpload(w) /\ w # i
  BY <1>2 DEF Inserts, PhaseOf, IdsIssued
<1>4. req' = req /\ pc'[w] \notin {"idle", "put", "save"}
  BY <1>2 DEF Inserts, TypeOK
<1> QED BY <1>2, <1>3, <1>4 DEF Rewrote, Brings, IsUpload

(* A removed receipt does not come back.                                   *)
LEMMA RemovedStep ==
    ASSUME IndInv, Kind
    PROVE  RemovedStaysRemoved'
<1> USE DEF IndInv
<1> SUFFICES ASSUME NEW i \in Request, i \in deleted', receipts'[i] # None
             PROVE  \E w \in Request : IsUpload(w)' /\ Rewrote(w, i)'
    BY DEF RemovedStaysRemoved, Live
<1>1. i \in deleted
  BY NullAssumption DEF Kind, Quiet, Arrives, Arrive, Uploads, Inserts, Looks, Amends, Removes,
     TypeOK, stores, Live
<1>2. CASE receipts[i] # None
  BY <1>1, <1>2, BringsStable DEF RemovedStaysRemoved, Live
<1>3. CASE receipts[i] = None
  BY <1>1, <1>3, NewDocument DEF Issued
<1> QED BY <1>2, <1>3

(* A deletion is answered once nothing of what it was to come to is left,  *)
(* and whatever else it names was removed before.                          *)
LEMMA AdvanceStep ==
    ASSUME TypeOK, PhaseOf, DeletionsAdvance, [Next]_vars
    PROVE  DeletionsAdvance'
<1> USE DEF TypeOK, PhaseOf, DeletionsAdvance, vars, handlers, stores, disk
<1>1. ASSUME NEW r \in Request, NEW input, NEW next, Arrive(r, input, next),
             \A q \in Request \ {r} : response'[q] = response[q],
             input.op = "delete" => response' = response /\ input.ids \subseteq Issued
      PROVE  DeletionsAdvance'
  <2>1. ASSUME NEW q \in Request \ {r}
        PROVE  req'[q] = req[q] /\ due'[q] = due[q] /\ response'[q] = response[q]
    BY <1>1, <2>1 DEF Arrive
  <2>2. req'[r] = input /\ due'[r] = input.ids \cap Live /\ response[r] = "none"
    BY <1>1 DEF Arrive
  <2>3. deleted' = deleted
    BY <1>1 DEF Arrive
  <2> QED BY <1>1, <2>1, <2>2, <2>3 DEF Issued
<1>2. ASSUME req' = req, due' = due, deleted' = deleted,
             \A q \in Request : response'[q] = "ok" =>
                \/ response[q] = "ok" \/ req[q].op # "delete" \/ due[q] = {}
      PROVE  DeletionsAdvance'
  BY <1>2
<1>3. CASE UNCHANGED vars
  BY <1>2, <1>3
<1>4. CASE Stop
  BY <1>2, <1>4 DEF Stop
<1>5. CASE Restart
  BY <1>2, <1>5 DEF Restart
<1>6. ASSUME NEW r \in Request, Arrival(r)
      PROVE  DeletionsAdvance'
  <2> USE DEF NoInput
  <2>1. CASE UploadReceipt(r)
    BY <1>1, <2>1 DEF UploadReceipt
  <2>2. CASE RejectUpload(r)
    BY <1>1, <2>2 DEF RejectUpload
  <2>3. CASE UpdateReceipt(r)
    BY <1>1, <2>3 DEF UpdateReceipt
  <2>4. CASE DeleteReceipt(r)
    BY <1>1, <2>4 DEF DeleteReceipt
  <2>5. CASE GetReceiptByPeriod(r)
    BY <1>1, <2>5 DEF GetReceiptByPeriod
  <2> QED BY <1>6, <2>1, <2>2, <2>3, <2>4, <2>5 DEF Arrival
<1>7. ASSUME NEW r \in Request, Progress(r)
      PROVE  DeletionsAdvance'
  <2> USE DEF GoTo, Answer
  <2>1. CASE PutImage(r) \/ PutNamedImage(r) \/ ReadDetail(r) \/ PeriodQueryDone(r)
    BY <1>2, <2>1 DEF PutImage, PutNamedImage, ReadDetail, PeriodQueryDone
  <2>2. CASE SaveReceipt(r) \/ SaveReceiptNaN(r) \/ SaveReceiptDuplicate(r)
    BY <1>2, <2>2 DEF SaveReceipt, SaveReceiptNaN, SaveReceiptDuplicate
  <2>3. CASE TruncateScratch(r) \/ WriteScratch(r) \/ ReadScratch(r)
    BY <1>2, <2>3 DEF TruncateScratch, WriteScratch, ReadScratch
  <2>4. CASE ReadDetailMissing(r)
    BY <1>2, <2>4 DEF ReadDetailMissing
  <2>5. CASE WriteUpdate(r)
    BY <1>2, <2>5 DEF WriteUpdate
  <2>6. CASE RemoveOne(r)
    <3>1. PICK i \in Request : /\ deleted' = deleted \cup {i}
                               /\ due' = [q \in Request |-> due[q] \ {i}]
      BY <2>6 DEF RemoveOne, Live
    <3>2. UNCHANGED <<req, response>>
      BY <2>6 DEF RemoveOne
    <3> QED BY <3>1, <3>2
  <2>7. CASE RemoveDone(r)
    BY <1>2, <2>7 DEF RemoveDone
  <2> QED BY <1>7, <2>1, <2>2, <2>3, <2>4, <2>5, <2>6, <2>7 DEF Progress
<1>8. ASSUME NEW r \in Request, Failure(r)
      PROVE  DeletionsAdvance'
  <2> USE DEF GoTo, Answer, Swallow, Refuse
  <2>1. CASE PutImageFails(r) \/ SaveReceiptFails(r)
    BY <1>2, <2>1 DEF PutImageFails, SaveReceiptFails
  <2>2. CASE ScratchFails(r)
    BY <1>2, <2>2 DEF ScratchFails
  <2>3. CASE PutNamedImageFails(r) \/ ReadDetailFails(r)
    BY <1>2, <2>3 DEF PutNamedImageFails, ReadDetailFails
  <2>4. CASE WriteUpdateFails(r) \/ RemoveFails(r)
    BY <1>2, <2>4 DEF WriteUpdateFails, RemoveFails
  <2>5. CASE PeriodQueryRejected(r)
    BY <1>4, <2>5 DEF PeriodQueryRejected
  <2> QED BY <1>8, <2>1, <2>2, <2>3, <2>4, <2>5 DEF Failure
<1> QED BY <1>3, <1>4, <1>5, <1>6, <1>7, <1>8 DEF Next, Crash

(* A handler that is about to write back what it read holds the current    *)
(* image, unless a request that brought an image wrote in between.         *)
LEMMA StaleStep ==
    ASSUME IndInv, Kind
    PROVE  StaleImageNeedsOverlap'
<1> USE DEF IndInv
<1> SUFFICES ASSUME NEW u \in Request, NEW i \in Request, i = req'[u].id,
                    pc'[u] = "modify", ~HasFile(u)', receipts'[i] # None,
                    receipts'[i] # path'[u]
             PROVE  \E w \in Request \ {u} : Rewrote(w, i)'
    BY DEF StaleImageNeedsOverlap, Live, TypeOK, Input, Rewrote, Brings, IsUpload, HasFile
<1>1. CASE Looks(u)
  BY <1>1 DEF Looks, TypeOK, stores
<1>2. CASE Uploads(u)
  BY <1>2 DEF Uploads, PhaseOf, HasFile, IsUpload, TypeOK
<1>3. CASE pc[u] = "modify"
  <2>1. /\ req'[u] = req[u] /\ path'[u] = path[u]
        /\ req[u].op = "update" /\ ~HasFile(u) /\ i \in Issued
    BY <1>3, InputStable DEF Kind, Quiet, Arrives, Arrive, Uploads, Inserts, Looks,
       Amends, Removes, TypeOK, PhaseOf, HasFile, IdsIssued
  <2>2. ASSUME NEW w \in Request, Rewrote(w, i) \/ Rewrote(w, i)'
        PROVE  w # u
    BY <2>1, <2>2 DEF Rewrote, Brings, IsUpload, HasFile
  <2>3. CASE receipts[i] = None
    BY <2>1, <2>2, <2>3, NewDocument
  <2>4. CASE receipts[i] # None /\ receipts[i] # path[u]
    <3>1. PICK w \in Request : Rewrote(w, i)
      BY <1>3, <2>1, <2>4 DEF StaleImageNeedsOverlap, Live
    <3> QED BY <2>2, <3>1, BringsStable
  <2>5. CASE receipts[i] # None /\ receipts[i] = path[u]
    <3>1. PICK r \in Request : Amends(r) /\ req[r].id = i /\ receipts'[i] = path[r]
      BY <2>1, <2>5 DEF Kind, Quiet, Arrives, Arrive, Uploads, Inserts, Insert, Looks, Amends,
         SetImgPath, Removes, TypeOK, stores
    <3>2. CASE HasFile(r)
      <4>1. r # i /\ req' = req /\ pc'[r] = "done"
        BY <2>1, <3>1, <3>2 DEF IdsIssued, IsUpload, HasFile, Amends, TypeOK
      <4>2. Rewrote(r, i)'
        BY <3>1, <3>2, <4>1 DEF Rewrote, Brings, HasFile
      <4> QED BY <2>2, <4>2
    <3>3. CASE ~HasFile(r)
      <4>1. PICK w \in Request : Rewrote(w, i)
        BY <2>1, <2>5, <3>1, <3>3 DEF Amends, StaleImageNeedsOverlap, Live
      <4> QED BY <2>2, <4>1, BringsStable
    <3> QED BY <3>2, <3>3
  <2> QED BY <2>3, <2>4, <2>5
<1>4. pc[u] = "modify" \/ Looks(u) \/ Uploads(u)
  BY DEF Kind, Quiet, Arrives, Arrive, Asks, Uploads, Inserts, Looks, Amends, Removes,
     TypeOK
<1> QED BY <1>1, <1>2, <1>3, <1>4
-----------------------------------------------------------------------------
(* The inductive invariant holds initially ...                             *)
LEMMA InvInit == Init => IndInv
<1> SUFFICES ASSUME Init PROVE IndInv
    OBVIOUS
<1>1. TypeOK
  BY TypeInit
<1>2. Live = {} /\ Issued = {} /\ deleted = {}
  BY DEF Init, Live, Issued
<1>3. \A r \in Request : /\ pc[r] = "idle" /\ response[r] = "none"
                        /\ req[r].op = "none" /\ req[r].ids = {}
                        /\ ~IsUpload(r) /\ ~HasFile(r)
  BY DEF Init, NoInput, IsUpload, HasFile
<1>4. PhaseOf /\ IdsIssued
  BY <1>2, <1>3 DEF PhaseOf, IdsIssued
<1>5. BlobsOwned
  BY NullAssumption DEF Init, BlobsOwned
<1>6. PathsUsable /\ DocumentsUsable /\ InsertHappened
  BY <1>2, <1>3 DEF PathsUsable, DocumentsUsable, InsertHappened
<1>7. UndisturbedKeepsKey
  BY <1>2, <1>3 DEF UndisturbedKeepsKey
<1>8. RemovedStaysRemoved /\ DeletionsAdvance /\ StaleImageNeedsOverlap
  BY <1>2, <1>3 DEF RemovedStaysRemoved, DeletionsAdvance, StaleImageNeedsOverlap
<1> QED BY <1>1, <1>4, <1>5, <1>6, <1>7, <1>8 DEF IndInv

(* ... and every step keeps it.                                            *)
LEMMA InvStep == IndInv /\ [Next]_vars => IndInv'
<1> SUFFICES ASSUME IndInv, [Next]_vars PROVE IndInv'
    OBVIOUS
<1>1. Kind
  BY StepKinds DEF IndInv
<1>2. TypeOK'
  BY TypeStep DEF IndInv
<1>3. PhaseOf'
  BY <1>1, PhaseStep DEF IndInv
<1>4. DeletionsAdvance'
  BY AdvanceStep DEF IndInv
<1> QED BY <1>1, <1>2, <1>3, <1>4, IdsStep, BlobsStep, PathsStep, DocumentsStep,
           UndisturbedStep, InsertStep, RemovedStep, StaleStep
        DEF IndInv

(* The inductive invariant holds in every reachable state.                 *)
THEOREM Invariance == Spec => []IndInv
BY InvInit, InvStep, PTL DEF Spec
-----------------------------------------------------------------------------
(* The image URL of a stored receipt always leads to an image.             *)
THEOREM ImagesPresent == Spec => []NoDanglingImage
<1>1. IndInv => NoDanglingImage
  BY DEF IndInv, DocumentsUsable, NoDanglingImage, Usable
<1> QED BY <1>1, Invariance, PTL

(* A receipt shows a foreign image only through a shared object key, and   *)
(* two uploads never share one.                                            *)
THEOREM ImagesOwn == Spec => []ForeignImageNeedsKeyClash
<1>1. IndInv => ForeignImageNeedsKeyClash
  <2> SUFFICES ASSUME IndInv, NEW i \in Live, blobs[receipts[i]] # None,
                      req[blobs[receipts[i]]].id # i
               PROVE  \E r \in Request :
                         /\ Brings(r, i)
                         /\ UploadKey(r) = receipts[i]
                         /\ UploadKey(blobs[receipts[i]]) = receipts[i]
                         /\ HasFile(r) \/ HasFile(blobs[receipts[i]])
      BY DEF ForeignImageNeedsKeyClash
  <2> DEFINE k == receipts[i]
  <2>1. k \in Key /\ Brought(i, k)
    BY DEF IndInv, DocumentsUsable, Usable
  <2>2. PICK owner \in Request : owner = blobs[k]
    BY <2>1 DEF IndInv, TypeOK
  <2>3. Owns(owner, k)
    BY <2>1, <2>2 DEF IndInv, BlobsOwned
  <2>4. PICK r \in Request : Brings(r, i) /\ UploadKey(r) = k
    BY <2>1 DEF Brought
  <2>5. ASSUME ~HasFile(r), ~HasFile(owner) PROVE FALSE
    <3>1. GeneratedKey(r) = GeneratedKey(owner)
      BY <2>3, <2>4, <2>5 DEF Owns, Brings, UploadKey, IsUpload
    <3>2. r = owner
      BY <3>1 DEF GeneratedKey
    <3> QED BY <2>2, <2>4, <3>2 DEF Brings
  <2> QED BY <2>2, <2>3, <2>4, <2>5 DEF Owns
<1> QED BY <1>1, Invariance, PTL

(* An update racing a deletion does not bring the receipt back.            *)
THEOREM NoResurrection == Spec => []RemovedStaysRemoved
<1>1. IndInv => RemovedStaysRemoved
  BY DEF IndInv
<1> QED BY <1>1, Invariance, PTL

(* A deletion answered 200 has left none of its documents, except those an *)
(* upload with the same _id has stored since.                              *)
THEOREM DeletionsComplete == Spec => []RemovalComplete
<1>1. IndInv => RemovalComplete
  BY DEF IndInv, DeletionsAdvance, RemovedStaysRemoved, RemovalComplete
<1> QED BY <1>1, Invariance, PTL

(* Edits without a file do not undo each other's image.                    *)
THEOREM StaleImages == Spec => []StaleImageNeedsOverlap
<1>1. IndInv => StaleImageNeedsOverlap
  BY DEF IndInv
<1> QED BY <1>1, Invariance, PTL

(* A complete upload that met no failure is in the database.               *)
THEOREM UploadsStored == Spec => []CompleteUploadStored
<1>1. IndInv => CompleteUploadStored
  BY DEF IndInv, InsertHappened, CompleteUploadStored
<1> QED BY <1>1, Invariance, PTL

(* Every unreachable image has one of the known causes.                    *)
THEOREM Orphans == Spec => []OrphanExplained
<1>1. IndInv => OrphanExplained
  <2> SUFFICES ASSUME IndInv, NEW r \in Request,
                      IsUpload(r), GeneratedKey(r) \notin FileName,
                      blobs[GeneratedKey(r)] # None,
                      \A i \in Request : receipts[i] # GeneratedKey(r),
                      pc[r] # "save", response[r] # "lost", r \notin failed,
                      req[r].people, req[r].id = r, r \notin deleted,
                      \A u \in Request : ~(HasFile(u) /\ req[u].id = r)
               PROVE  FALSE
      BY DEF OrphanExplained
  <2>1. Owns(r, GeneratedKey(r))
    <3>1. GeneratedKey(r) \in Key
      BY DEF Key
    <3>2. PICK q \in Request : blobs[GeneratedKey(r)] = q
      BY <3>1 DEF IndInv, TypeOK
    <3>3. Owns(q, GeneratedKey(r))
      BY <3>1, <3>2 DEF IndInv, BlobsOwned
    <3>4. IsUpload(q)
      BY <3>3 DEF Owns, HasFile, UploadKey, IndInv, TypeOK, Input, IsUpload
    <3>5. q = r
      BY <3>3, <3>4 DEF Owns, UploadKey, IsUpload, GeneratedKey
    <3> QED BY <3>3, <3>5
  <2>2. pc[r] \in {"truncate", "write", "read"} \/ response[r] = "created"
    BY <2>1 DEF Owns, IndInv, TypeOK, Phase, PhaseOf, IsUpload, HasFile
  <2>3. r \in Issued
    BY <2>2 DEF IndInv, InsertHappened
  <2>4. receipts[r] = GeneratedKey(r)
    BY <2>3 DEF Issued, IndInv, UndisturbedKeepsKey, Undisturbed
  <2> QED BY <2>4
<1> QED BY <1>1, Invariance, PTL
-----------------------------------------------------------------------------
(* The service implements the archive.                                     *)

(* The keys offered for a receipt are those brought for it.                *)
LEMMA OfferedMembers ==
    ASSUME NEW i \in Request, NEW k
    PROVE  k \in Offered[i] <=> Brought(i, k)
BY DEF Offered, Brought

(* The offer depends on the requests alone.                                *)
LEMMA OfferedUnchanged == req' = req => Offered' = Offered
BY DEF Offered, Brings, IsUpload, HasFile, UploadKey

(* Initially nothing is offered, stored or shown.                          *)
LEMMA ArchiveInit == Init => Archive!Init
<1> SUFFICES ASSUME Init PROVE Archive!Init
    OBVIOUS
<1>1. \A q, i \in Request : ~Brings(q, i)
  BY DEF Init, NoInput, Brings, IsUpload, HasFile
<1>2. Offered = [i \in Request |-> {}]
  BY <1>1 DEF Offered
<1>3. {k \in Key : blobs[k] # None} = {}
  BY DEF Init
<1> QED BY <1>2, <1>3 DEF Archive!Init, Init

(* Every step is a step of ReceiptArchive, or none of its business.        *)
LEMMA ArchiveStep == IndInv /\ [Next]_vars => [Archive!Next]_(Archive!vars)
<1> SUFFICES ASSUME IndInv, [Next]_vars PROVE [Archive!Next]_(Archive!vars)
    OBVIOUS
<1> DEFINE Stored == {k \in Key : blobs[k] # None}
<1> USE DEF IndInv
<1>1. Kind
  BY StepKinds
<1>2. CASE Quiet
  BY <1>2, OfferedUnchanged DEF Quiet, stores, Archive!vars
<1>3. ASSUME NEW r \in Request, Arrives(r)
      PROVE  [Archive!Next]_(Archive!vars)
  <2>1. /\ Stored' = Stored /\ receipts' = receipts
        /\ ~IsUpload(r) /\ ~HasFile(r)
        /\ \A q \in Request \ {r} : req'[q] = req[q]
    BY <1>3 DEF Arrives, Arrive, stores, PhaseOf, TypeOK, IsUpload, HasFile
  <2>2. \A i \in Request : \A k :
           Brought(i, k)' <=> \/ Brought(i, k)
                              \/ Brings(r, i)' /\ k = UploadKey(r)'
    BY <2>1 DEF Brought, Brings, IsUpload, HasFile, UploadKey
  <2>3. CASE \E i \in Request : Brings(r, i)'
    <3>1. PICK i \in Request : Brings(r, i)'
      BY <2>3
    <3>2. PICK k \in Key : k = UploadKey(r)'
      BY <3>1, TypeStep DEF TypeOK, Input, UploadKey, Key, Brings, IsUpload, HasFile
    <3>3. \A j \in Request : Offered'[j] = IF j = i THEN Offered[j] \cup {k} ELSE Offered[j]
      BY <2>2, <3>1, <3>2 DEF Offered, Brought, Brings
    <3>4. Offered' = [Offered EXCEPT ![i] = @ \cup {k}]
      BY <3>3 DEF Offered
    <3> QED BY <2>1, <3>4 DEF Archive!Next, Archive!Offer
  <2>4. CASE ~(\E i \in Request : Brings(r, i)')
    <3>1. Offered' = Offered
      BY <2>2, <2>4 DEF Offered, Brought
    <3> QED BY <2>1, <3>1 DEF Archive!vars
  <2> QED BY <2>3, <2>4
<1>4. ASSUME NEW r \in Request, Uploads(r)
      PROVE  [Archive!Next]_(Archive!vars)
  <2>1. req' = req /\ receipts' = receipts /\ Offered' = Offered
    BY <1>4, OfferedUnchanged DEF Uploads
  <2>2. CASE blobs' = blobs
    BY <2>1, <2>2 DEF Archive!vars
  <2>3. CASE StoreImage(r)
    <3>1. UploadKey(r) \in Key /\ req[r].id \in Request
      BY <1>4 DEF Uploads, PhaseOf, TypeOK, Input, UploadKey, Key, IsUpload, HasFile
    <3>2. UploadKey(r) \in Offered[req[r].id]
      BY <1>4, <3>1, OfferedMembers DEF Uploads, PhaseOf, Brought, Brings
    <3>3. Stored' = Stored \cup {UploadKey(r)}
      BY <2>3, <3>1, NullAssumption DEF StoreImage, TypeOK
    <3> QED BY <2>1, <3>1, <3>2, <3>3 DEF Archive!Next, Archive!Store
  <2> QED BY <1>4, <2>2, <2>3 DEF Uploads
<1>5. ASSUME NEW r \in Request, Inserts(r) \/ Amends(r)
      PROVE  [Archive!Next]_(Archive!vars)
  <2>1. Offered' = Offered /\ Stored' = Stored
    BY <1>5, OfferedUnchanged DEF Inserts, Amends
  <2>2. CASE receipts' = receipts
    BY <2>1, <2>2 DEF Archive!vars
  <2>3. CASE receipts' = [receipts EXCEPT ![req[r].id] = path[r]]
    <3>1. req[r].id \in Request /\ path[r] \in Stored /\ path[r] \in Key
      BY <1>5 DEF Inserts, Amends, PathsUsable, Usable, TypeOK, Input
    <3>2. path[r] \in Offered[req[r].id]
      BY <1>5, <3>1, OfferedMembers DEF Inserts, Amends, PathsUsable, Usable
    <3> QED BY <2>1, <2>3, <3>1, <3>2 DEF Archive!Next, Archive!Show
  <2> QED BY <1>5, <2>2, <2>3 DEF Inserts, Insert, Amends, SetImgPath
<1>6. ASSUME NEW r \in Request, Looks(r)
      PROVE  [Archive!Next]_(Archive!vars)
  BY <1>6, OfferedUnchanged DEF Looks, stores, Archive!vars
<1>7. ASSUME NEW r \in Request, Removes(r)
      PROVE  [Archive!Next]_(Archive!vars)
  <2>1. Offered' = Offered /\ Stored' = Stored
    BY <1>7, OfferedUnchanged DEF Removes
  <2>2. PICK i \in Request : receipts' = [receipts EXCEPT ![i] = None]
    BY <1>7 DEF Removes, Live
  <2> QED BY <2>1, <2>2 DEF Archive!Next, Archive!Retire
<1> QED BY <1>1, <1>2, <1>3, <1>4, <1>5, <1>6, <1>7 DEF Kind

(* Every behaviour of the receipt service is one of the archive.           *)
THEOREM Refinement == Spec => ArchiveSpec
BY ArchiveInit, ArchiveStep, Invariance, PTL DEF Spec, ArchiveSpec, Archive!Spec
=============================================================================
