---------------------------- MODULE ReportProofs ----------------------------
(***************************************************************************)
(* Proofs about what the admin report says: it is the grouping of the rows *)
(* the query read (GroupingProofs), and the names in it, asked of another  *)
(* service while accounts come and go, are blank only for removed ones.    *)
(***************************************************************************)
EXTENDS ServicesProofs, GroupingProofs

USE DEF store

(* Owners that were registered stay so.                                    *)
LEMMA OwnersKept ==
    ASSUME NEW q \in Request, OwnersKnown(q), rows'[q] = rows[q], future' \subseteq future
    PROVE  OwnersKnown(q)'
  BY DEF OwnersKnown

(* The users found stay true while no owner of a row comes back.           *)
LEMMA UsersAnswerKept ==
    ASSUME NEW q \in Request, UsersAnswerTrue(q), rows'[q] = rows[q],
           present[q] \subseteq present'[q],
           accounts' \cap UserCodes(rows[q]) \subseteq accounts,
           place'[Users(q)] = "reply" =>
                place[Users(q)] = "reply" /\ answer'[Users(q)] = answer[Users(q)]
    PROVE  UsersAnswerTrue(q)'
  BY DEF UsersAnswerTrue

(* What the client was told stays true likewise.                           *)
LEMMA ReportKept ==
    ASSUME NEW q \in Request, ReportTrue(q), rows'[q] = rows[q],
           present[q] \subseteq present'[q],
           accounts' \cap UserCodes(rows[q]) \subseteq accounts,
           Answered(q, "report")' => Answered(q, "report") /\ body'[q] = body[q]
    PROVE  ReportTrue(q)'
<1> SUFFICES ASSUME Answered(q, "report")'
             PROVE  Faithful(rows[q], body[q])' /\ NamesTrue(q)'
  BY DEF ReportTrue
<1>1. Faithful(rows[q], body[q]) /\ NamesTrue(q) /\ body'[q] = body[q]
  BY DEF ReportTrue
<1>2. \A k \in DOMAIN body[q] : body[q][k].owner \in UserCodes(rows[q])
  BY <1>1 DEF Faithful
<1>3. Faithful(rows[q], body[q])'
  BY <1>1
<1>4. NamesTrue(q)'
  BY <1>1, <1>2 DEF NamesTrue
<1> QED
  BY <1>3, <1>4
-----------------------------------------------------------------------------
(* A step of another request's handler, or of no handler.                  *)
LEMMA ReportFrame ==
    ASSUME NEW q \in Request, ReportInv(q), Kept(q), future' \subseteq future,
           accounts' \cap UserCodes(rows[q]) \subseteq accounts
    PROVE  ReportInv(q)'
<1>1. Users(q) \in CallsOf(q)
  BY DEF CallsOf
<1>2. OwnersKnown(q)'
  BY OwnersKept DEF ReportInv, Kept
<1>3. UsersAnswerTrue(q)'
  BY <1>1, UsersAnswerKept DEF ReportInv, Kept
<1>4. ReportTrue(q)'
  BY ReportKept DEF ReportInv, Kept, Answered
<1> QED
  BY <1>2, <1>3, <1>4 DEF ReportInv

(* A request that arrives has no reply yet and is told nothing.            *)
LEMMA ReportArrives ==
    ASSUME HandlersInv, NEW r \in Request, ReportInv(r), Arrival(r)
    PROVE  ReportInv(r)'
<1> PICK j \in Job : ArriveWithToken(r, j) \/ ArriveWithoutToken(r, j) \/ ArriveAtAuth(r, j)
  BY DEF Arrival
<1> USE CallFacts DEF HandlersInv, TypeOK, Bus!BusInv, Bus!BusTypeOK
<1>1. stage[r] = "idle" /\ status[r] = "none" /\ place[Users(r)] = "unsent"
  BY DEF ArriveWithToken, ArriveWithoutToken, ArriveAtAuth, Arrive,
     RequestInv, WaitsInStage, CallsOf
<1>2. UNCHANGED <<rows, future>>
  BY DEF ArriveWithToken, ArriveWithoutToken, ArriveAtAuth, Arrive
<1>3. status'[r] # "ok" /\ place'[Users(r)] = "unsent"
  BY <1>1 DEF ArriveWithToken, ArriveWithoutToken, ArriveAtAuth, Arrive, Bus!Send, bus
<1>4. OwnersKnown(r)'
  BY <1>2, OwnersKept DEF ReportInv
<1> QED
  BY <1>3, <1>4 DEF ReportInv, UsersAnswerTrue, ReportTrue, Answered

(* The report's query finds receipts of registered members only.           *)
LEMMA ReportReads ==
    ASSUME HandlersInv, NEW r \in Request, ReadReportRows(r)
    PROVE  ReportInv(r)'
<1> USE CallFacts DEF HandlersInv, TypeOK, RowsTypeOK, Bus!BusInv, Bus!BusTypeOK
<1>1. PICK s \in Rows(Members(CodeOf(r)), PageLimit) : rows' = [rows EXCEPT ![r] = s]
  BY DEF ReadReportRows
<1>2. UserCodes(s) \cap future = {}
  BY <1>1 DEF Rows, UserCodes
<1>3. rows'[r] = s /\ future' = future
  BY <1>1 DEF ReadReportRows, Querying
<1>4. OwnersKnown(r)'
  BY <1>2, <1>3 DEF OwnersKnown
<1>5. place'[Users(r)] # "reply"
  BY DEF ReadReportRows, Bus!Send
<1>6. status'[r] = "none"
  BY QueryFacts DEF ReadReportRows, Querying, GoTo
<1> QED
  BY <1>4, <1>5, <1>6 DEF ReportInv, UsersAnswerTrue, ReportTrue, Answered

(* The join names who was found, and the groups are those of the rows.     *)
LEMMA ReportJoins ==
    ASSUME HandlersInv, NEW r \in Request, ReportInv(r), JoinReport(r)
    PROVE  ReportInv(r)'
<1> DEFINE known == answer[Users(r)]
           groups == Group(rows[r], known)
<1>1. /\ place[Users(r)] = "reply" /\ place'[Users(r)] # "reply"
      /\ UNCHANGED <<accounts, future, rows, present>>
  BY CallFacts, JoinFacts DEF JoinReport, Joining, End, Error, CallsOf
<1>2. OwnersKnown(r)' /\ UsersAnswerTrue(r)'
  <2>1. OwnersKnown(r)'
    BY <1>1, OwnersKept DEF ReportInv
  <2> QED
    BY <1>1, <2>1 DEF UsersAnswerTrue
<1>3. CASE known = Failed
  <2>1. status'[r] = "badRequest"
    BY <1>3 DEF JoinReport, Error, End, HandlersInv, TypeOK
  <2> QED
    BY <1>2, <2>1 DEF ReportInv, ReportTrue, Answered
<1>4. CASE known # Failed
  <2>1. body'[r] = groups
    BY <1>4 DEF JoinReport, End, HandlersInv, TypeOK
  <2>2. Grouped(rows[r], known, groups)
    <3>1. rows[r] \in Seq(Receipt)
      BY DEF HandlersInv, TypeOK, RowsTypeOK
    <3> QED
      BY <3>1, GroupFaithful
  <2>3. known \subseteq present[r] /\ accounts \cap UserCodes(rows[r]) \subseteq known
    BY <1>1, <1>4 DEF ReportInv, UsersAnswerTrue
  <2> HIDE DEF groups
  <2>4. ASSUME NEW k \in DOMAIN groups
        PROVE  /\ groups[k].name = Nobody => groups[k].owner \notin accounts
               /\ groups[k].name # Nobody =>
                    groups[k].name = groups[k].owner /\ groups[k].owner \in present[r]
    <3>1. groups[k].name = NameIn(known, groups[k].owner)
      BY <2>2 DEF Grouped
    <3>2. groups[k].owner \in UserCodes(rows[r])
      BY <2>2 DEF Grouped, Faithful
    <3>3. accounts \subseteq Account
      BY DEF HandlersInv, TypeOK
    <3> QED
      BY <2>3, <3>1, <3>2, <3>3, NobodyAssumption DEF NameIn
  <2>5. Faithful(rows[r], groups)
    BY <2>2 DEF Grouped
  <2>6. Faithful(rows[r], body[r])' /\ NamesTrue(r)'
    BY <1>1, <2>1, <2>4, <2>5 DEF NamesTrue
  <2> QED
    BY <1>2, <2>6 DEF ReportInv, ReportTrue
<1> QED
  BY <1>3, <1>4

(* A step that reads no rows, answers no report and gets no users.         *)
LEMMA ReportUntouched ==
    ASSUME HandlersInv, NEW r \in Request, ReportInv(r),
           Progress(r), ~ ReadReportRows(r), ~ JoinReport(r)
    PROVE  ReportInv(r)'
<1> USE CallFacts DEF HandlersInv, TypeOK, Bus!BusTypeOK
<1>1. UNCHANGED <<accounts, future, answer, rows, present, job>>
  BY DEF Progress, GuardPasses, GuardDenies, PassportPasses, PassportDenies,
     ReadOwnRows, ReadOwnRowsFails, ReadReportRowsFails, ReadMembers, ReadMembersFails,
     ReadDetail, ReadDetailFails, Querying, JoinMembers, JoinDetail, Joining,
     ShowMembers, GoTo, End, Error
<1>2. place'[Users(r)] = "reply" => place[Users(r)] = "reply"
  BY DEF Progress, GuardPasses, GuardDenies, PassportPasses, PassportDenies,
     ReadOwnRows, ReadOwnRowsFails, ReadReportRowsFails, ReadMembers, ReadMembersFails,
     ReadDetail, ReadDetailFails, JoinMembers, JoinDetail, Joining,
     Bus!Receive, Bus!Send, bus
<1>3. ~ Answered(r, "report")'
  <2>1. stage[r] # "done" /\ status[r] = "none"
    BY DEF Progress, GuardPasses, GuardDenies, PassportPasses, PassportDenies,
       ReadOwnRows, ReadOwnRowsFails, ReadReportRowsFails, ReadMembers, ReadMembersFails,
       ReadDetail, ReadDetailFails, Querying, JoinMembers, JoinDetail, Joining,
       Bus!Receive, Bus!BusInv, RequestInv, WaitsInStage
  <2>2. status'[r] = "none" \/ status'[r] # "ok" \/ ~ KindIn(r, {"report"})
    BY <2>1 DEF Progress, GuardPasses, GuardDenies, PassportPasses, PassportDenies,
       ReadOwnRows, ReadOwnRowsFails, ReadReportRowsFails, ReadMembers, ReadMembersFails,
       ReadDetail, ReadDetailFails, Querying, JoinMembers, JoinDetail, Joining,
       ShowMembers, GoTo, End, Error, KindIn
  <2> QED
    BY <1>1, <2>2 DEF Answered, KindIn
<1>4. OwnersKnown(r)'
  BY <1>1, OwnersKept DEF ReportInv
<1>5. UsersAnswerTrue(r)'
  BY <1>1, <1>2, UsersAnswerKept DEF ReportInv
<1> QED
  BY <1>3, <1>4, <1>5 DEF ReportInv, ReportTrue
-----------------------------------------------------------------------------
(* The auth service finds every account stored with a code it is asked     *)
(* for, and no other.                                                      *)
LEMMA ReportServed ==
    ASSUME HandlersInv, NEW c \in Call, Handle(c), NEW q \in Request, ReportInv(q)
    PROVE  ReportInv(q)'
<1> USE DEF HandlersInv, TypeOK, Bus!BusTypeOK
<1>1. Bus!Serve(c) /\ UNCHANGED <<store, handlers>>
  BY DEF Handle, HandlerFails, Authenticate, GetUserByUserCode, GetCompany, Reply
<1>2. ASSUME NEW d \in Call, d # c PROVE place'[d] = place[d] /\ answer'[d] = answer[d]
  BY <1>2 DEF Handle, HandlerFails, Authenticate, GetUserByUserCode, GetCompany, Reply,
     Bus!Serve
<1>3. UsersAnswerTrue(q)'
  <2>1. CASE c # Users(q)
    BY <1>1, <1>2, <2>1, CallFacts, UsersAnswerKept DEF handlers, ReportInv
  <2>2. CASE c = Users(q) /\ ~ Bus!Waiting(c)
    BY <1>1, <2>2 DEF Bus!Serve, UsersAnswerTrue
  <2>3. CASE c = Users(q) /\ Bus!Waiting(c)
    <3>1. accounts \subseteq present[q]
      BY <2>3 DEF RequestInv, WaitsInStage, StoredArePresent, Serving
    <3>2. answer'[c] \in {Failed, accounts \cap UserCodes(rows[q])}
      <4>1. \A r \in Request : c = Users(r) => r = q
        BY <2>3 DEF Users
      <4>2. \A r \in Request : c # Guard(r) /\ c # Companies(r)
        BY <2>3 DEF Guard, Users, Companies
      <4> QED
        BY <4>1, <4>2 DEF Handle, HandlerFails, GetUserByUserCode, Reply
    <3> QED
      BY <1>1, <2>3, <3>1, <3>2 DEF handlers, UsersAnswerTrue
  <2> QED
    BY <2>1, <2>2, <2>3
<1>4. OwnersKnown(q)'
  BY <1>1, OwnersKept DEF handlers, ReportInv
<1>5. ReportTrue(q)'
  BY <1>1, ReportKept DEF handlers, ReportInv, Answered
<1> QED
  BY <1>3, <1>4, <1>5 DEF ReportInv

(* Faults put no reply on its way and answer nobody.                       *)
LEMMA ReportDisturbed ==
    ASSUME HandlersInv, NEW q \in Request, ReportInv(q),
           \/ \E c \in Call : Deliver(c)
           \/ \E p \in Service : Crash(p)
           \/ BrokerRestart
    PROVE  ReportInv(q)'
<1> USE CallFacts DEF HandlersInv, TypeOK, Bus!BusTypeOK
<1>1. UNCHANGED <<accounts, future, answer, rows, present, job, body>>
  BY DEF Deliver, Crash, BrokerRestart, handlers
<1>2. place'[Users(q)] = "reply" => place[Users(q)] = "reply"
  BY DEF Deliver, Crash, BrokerRestart, Bus!Deliver, Bus!Crash, Bus!BrokerRestart
<1>3. status'[q] = "ok" => status[q] = "ok"
  BY DEF Deliver, Crash, BrokerRestart, handlers
<1>4. OwnersKnown(q)'
  BY <1>1, OwnersKept DEF ReportInv
<1>5. UsersAnswerTrue(q)'
  BY <1>1, <1>2, UsersAnswerKept DEF ReportInv
<1>6. ReportTrue(q)'
  BY <1>1, <1>3, ReportKept DEF ReportInv, Answered
<1> QED
  BY <1>4, <1>5, <1>6 DEF ReportInv

(* An account that registers owns no row that was read.                    *)
LEMMA ReportRegisters ==
    ASSUME HandlersInv, NEW q \in Request, ReportInv(q), NEW a \in Account, Register(a)
    PROVE  ReportInv(q)'
<1>1. /\ UNCHANGED <<answer, rows, status, body, job, bus>> /\ future' \subseteq future
      /\ accounts' = accounts \cup {a} /\ a \in future
      /\ present'[q] = IF Serving(q) THEN present[q] \cup {a} ELSE present[q]
  BY DEF Register
<1>2. /\ accounts' \cap UserCodes(rows[q]) \subseteq accounts
      /\ present[q] \subseteq present'[q]
  BY <1>1 DEF ReportInv, OwnersKnown
<1>3. OwnersKnown(q)'
  BY <1>1, OwnersKept DEF ReportInv
<1>4. UsersAnswerTrue(q)'
  BY <1>1, <1>2, UsersAnswerKept DEF ReportInv, bus
<1>5. ReportTrue(q)'
  BY <1>1, <1>2, ReportKept DEF ReportInv, Answered
<1> QED
  BY <1>3, <1>4, <1>5 DEF ReportInv
-----------------------------------------------------------------------------
(* The inductive invariant holds initially ...                             *)
LEMMA ReportInit == Init => IndInv
<1> SUFFICES ASSUME Init PROVE IndInv
  OBVIOUS
<1>1. HandlersInv
  BY InitInv
<1>2. ASSUME NEW r \in Request PROVE ReportInv(r)
  BY CallFacts DEF Init, Bus!BusInit, ReportInv, OwnersKnown, UserCodes,
     UsersAnswerTrue, ReportTrue, Answered
<1> QED
  BY <1>1, <1>2 DEF IndInv

(* ... and every step keeps it.                                            *)
LEMMA ReportStep == IndInv /\ [Next]_vars => IndInv'
<1> SUFFICES ASSUME IndInv, [Next]_vars PROVE IndInv'
  OBVIOUS
<1>1. HandlersInv'
  BY StepInv DEF IndInv
<1>2. ASSUME NEW q \in Request PROVE ReportInv(q)'
  <2>0. HandlersInv /\ ReportInv(q)
    BY DEF IndInv
  <2>1. ASSUME NEW r \in Request, Arrival(r) \/ Progress(r), q # r PROVE ReportInv(q)'
    <3>1. Kept(q) /\ accounts' = accounts
      BY <2>0, <2>1, OthersKept
    <3>2. future' \subseteq future
      BY <2>1 DEF Arrival, ArriveWithToken, ArriveWithoutToken, ArriveAtAuth, Arrive,
         Progress, GuardPasses, GuardDenies, PassportPasses, PassportDenies,
         ReadOwnRows, ReadOwnRowsFails, ReadReportRows, ReadReportRowsFails,
         ReadMembers, ReadMembersFails, ReadDetail, ReadDetailFails, Querying,
         JoinReport, JoinMembers, JoinDetail, Joining
    <3> QED
      BY <2>0, <3>1, <3>2, ReportFrame
  <2>2. CASE Arrival(q) \/ Progress(q)
    BY <2>0, <2>2, ReportArrives, ReportReads, ReportJoins, ReportUntouched
  <2>3. ASSUME NEW c \in Call, Deliver(c) \/ Handle(c) PROVE ReportInv(q)'
    BY <2>0, <2>3, ReportDisturbed, ReportServed
  <2>4. ASSUME NEW a \in Account, RemoveAccount(a) PROVE ReportInv(q)'
    BY <2>0, <2>4, ReportFrame DEF RemoveAccount, Kept, handlers, bus
  <2>5. ASSUME NEW p \in Service, Restart(p) PROVE ReportInv(q)'
    BY <2>0, <2>5, ReportFrame DEF Restart, Bus!Restart, Kept, handlers
  <2>6. CASE Environment
    BY <2>0, <2>4, <2>5, <2>6, ReportDisturbed, ReportRegisters DEF Environment
  <2>7. CASE UNCHANGED vars
    BY <2>0, <2>7, ReportFrame DEF vars, bus, handlers, Kept
  <2> QED
    BY <2>1, <2>2, <2>3, <2>6, <2>7 DEF Next
<1> QED
  BY <1>1, <1>2 DEF IndInv

(* All that is known of every request, whatever the others, the removals   *)
(* and the faults do (the run services checks it).                         *)
THEOREM Invariance == Spec => []IndInv
  BY ReportInit, ReportStep, PTL DEF Spec

(* The admin report loses and duplicates no row of the page it read, and   *)
(* has one group per member, in order (receipt.service.ts:85-126).         *)
THEOREM ReportsFaithful == Spec => []ReportFaithful
<1>1. IndInv => ReportFaithful
  BY DEF IndInv, ReportInv, ReportTrue, ReportFaithful
<1> QED
  BY <1>1, Invariance, PTL

(* A name in it is blank only for an account that is gone, also when the   *)
(* account goes, or another comes, between the two services' queries       *)
(* (receipt.service.ts:60-79).                                             *)
THEOREM BlankNames == Spec => []BlankNameNeedsRemoval
<1>1. IndInv => BlankNameNeedsRemoval
  BY DEF IndInv, ReportInv, ReportTrue, BlankNameNeedsRemoval
<1> QED
  BY <1>1, Invariance, PTL
=============================================================================
