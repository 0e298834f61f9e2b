--------------------------- MODULE ServicesProofs ---------------------------
(***************************************************************************)
(* Proofs about Services, for every set of requests, accounts, companies   *)
(* and receipts: the calls keep to what a remote call promises, which of   *)
(* them may never be answered, and the invariants that say what a request  *)
(* may show.                                                               *)
(***************************************************************************)
EXTENDS ServicesInvariant, TLAPS

USE DEF store

-----------------------------------------------------------------------------
(* What is known of the calls of a request.                                *)
LEMMA CallFacts ==
    ASSUME NEW r \in Request
    PROVE  /\ Guard(r) \in Call /\ Users(r) \in Call /\ Companies(r) \in Call
           /\ From[Guard(r)] = "receipt" /\ To[Guard(r)] = "auth"
           /\ From[Users(r)] = "receipt" /\ To[Users(r)] = "auth"
           /\ From[Companies(r)] = "auth" /\ To[Companies(r)] = "company"
           /\ Guard(r) # Users(r) /\ Guard(r) # Companies(r) /\ Users(r) # Companies(r)
  BY DEF Guard, Users, Companies, Call, From, To

(* Calls of different requests are different.                              *)
LEMMA CallsApart ==
    ASSUME NEW r \in Request, NEW q \in Request, r # q,
           NEW c \in CallsOf(r), NEW d \in CallsOf(q)
    PROVE  c # d
  BY DEF CallsOf, Guard, Users, Companies

(* Every call is one of some request.                                      *)
LEMMA CallOfSome ==
    ASSUME NEW c \in Call
    PROVE  \E r \in Request : c \in CallsOf(r)
  BY DEF Call, CallsOf, Guard, Users, Companies
-----------------------------------------------------------------------------
(* The invariant of the request/reply mechanism holds initially ...        *)
LEMMA BusInitInv == Bus!BusInit => Bus!BusInv
  BY DEF Bus!BusInit, Bus!BusInv, Bus!BusTypeOK, Bus!Stranded, Bus!Waiting,
         Bus!Place, Bus!Caller

(* ... and every step of the mechanism keeps it.                           *)
LEMMA BusStep ==
    Bus!BusInv /\ [Bus!BusNext]_(Bus!busVars) => Bus!BusInv'
<1> SUFFICES ASSUME Bus!BusInv, [Bus!BusNext]_(Bus!busVars) PROVE Bus!BusInv'
  OBVIOUS
<1> USE DEF Bus!BusInv, Bus!BusTypeOK, Bus!Stranded, Bus!Waiting, Bus!Place,
            Bus!Caller
<1>1. ASSUME NEW c \in Call, Bus!Send(c) PROVE Bus!BusInv'
  BY <1>1 DEF Bus!Send
<1>2. ASSUME NEW c \in Call, Bus!Deliver(c) PROVE Bus!BusInv'
  BY <1>2 DEF Bus!Deliver
<1>3. ASSUME NEW c \in Call, Bus!Serve(c) PROVE Bus!BusInv'
  BY <1>3 DEF Bus!Serve
<1>4. ASSUME NEW c \in Call, Bus!Receive(c) PROVE Bus!BusInv'
  BY <1>4 DEF Bus!Receive
<1>5. ASSUME NEW p \in Service, Bus!Restart(p) PROVE Bus!BusInv'
  BY <1>5 DEF Bus!Restart
<1>6. ASSUME NEW p \in Service, Bus!Crash(p) PROVE Bus!BusInv'
  BY <1>6 DEF Bus!Crash, Bus!LostWith
<1>7. CASE Bus!BrokerRestart
  BY <1>7 DEF Bus!BrokerRestart, Bus!InFlight
<1>8. CASE UNCHANGED Bus!busVars
  BY <1>8 DEF Bus!busVars
<1> QED
  BY <1>1, <1>2, <1>3, <1>4, <1>5, <1>6, <1>7, <1>8 DEF Bus!BusNext, Bus!Fault
-----------------------------------------------------------------------------
(* The stage RemoteCall sees moves as RemoteCall allows.                   *)
LEMMA CallsInit == Bus!BusInit => Bus!Calls!Init
  BY DEF Bus!BusInit, Bus!Calls!Init, Bus!StageOf

(* A step of the mechanism is a step of RemoteCall, or none.               *)
LEMMA CallsStep ==
    Bus!BusInv /\ [Bus!BusNext]_(Bus!busVars)
        => [Bus!Calls!Next]_([c \in Call |-> Bus!StageOf(c)])
<1> DEFINE S == [c \in Call |-> Bus!StageOf(c)]
<1> SUFFICES ASSUME Bus!BusInv, [Bus!BusNext]_(Bus!busVars)
             PROVE  Bus!Calls!Next \/ S' = S
  OBVIOUS
<1> USE DEF Bus!BusInv, Bus!BusTypeOK, Bus!Waiting, Bus!Place, Bus!Caller
<1>1. ASSUME NEW c \in Call, Bus!Send(c) PROVE Bus!Calls!Next \/ S' = S
  <2>1. /\ S[c] = "idle"
        /\ S' = [S EXCEPT ![c] = "asked"] \/ S' = [S EXCEPT ![c] = "lost"]
    BY <1>1 DEF Bus!Send, Bus!StageOf
  <2> QED
    BY <2>1 DEF Bus!Calls!Next, Bus!Calls!Step
<1>2. ASSUME NEW c \in Call, Bus!Deliver(c) PROVE S' = S
  BY <1>2 DEF Bus!Deliver, Bus!StageOf
<1>3. ASSUME NEW c \in Call, Bus!Serve(c) PROVE Bus!Calls!Next \/ S' = S
  <2>1. CASE Bus!Waiting(c)
    <3>1. S[c] = "asked" /\ S' = [S EXCEPT ![c] = "computed"]
      BY <1>3, <2>1 DEF Bus!Serve, Bus!StageOf
    <3> QED
      BY <3>1 DEF Bus!Calls!Next, Bus!Calls!Step
  <2>2. CASE ~ Bus!Waiting(c)
    BY <1>3, <2>2 DEF Bus!Serve, Bus!StageOf
  <2> QED
    BY <2>1, <2>2
<1>4. ASSUME NEW c \in Call, Bus!Receive(c) PROVE Bus!Calls!Next \/ S' = S
  <2>1. S[c] = "computed" /\ S' = [S EXCEPT ![c] = "answered"]
    BY <1>4 DEF Bus!Receive, Bus!StageOf
  <2> QED
    BY <2>1 DEF Bus!Calls!Next, Bus!Calls!Step
<1>5. ASSUME NEW p \in Service, Bus!Restart(p) PROVE S' = S
  BY <1>5 DEF Bus!Restart, Bus!StageOf
<1>6. ASSUME NEW p \in Service, Bus!Crash(p) PROVE Bus!Calls!Next \/ S' = S
  <2> DEFINE L == {c \in Call : S[c] \in {"asked", "computed"} /\ S'[c] = "lost"}
  <2>1. \A c \in Call : S'[c] = IF c \in L THEN "lost" ELSE S[c]
    BY <1>6 DEF Bus!Crash, Bus!LostWith, Bus!StageOf
  <2>2. S' = [c \in Call |-> IF c \in L THEN "lost" ELSE S[c]]
    BY <2>1
  <2>3. L \in SUBSET Call /\ \A c \in L : S[c] \in {"asked", "computed"}
    OBVIOUS
  <2> HIDE DEF L
  <2> QED
    BY <2>2, <2>3 DEF Bus!Calls!Next, Bus!Calls!Lose
<1>7. CASE Bus!BrokerRestart
  <2> DEFINE L == {c \in Call : S[c] \in {"asked", "computed"} /\ S'[c] = "lost"}
  <2>1. \A c \in Call : S'[c] = IF c \in L THEN "lost" ELSE S[c]
    BY <1>7 DEF Bus!BrokerRestart, Bus!InFlight, Bus!StageOf
  <2>2. S' = [c \in Call |-> IF c \in L THEN "lost" ELSE S[c]]
    BY <2>1
  <2>3. L \in SUBSET Call /\ \A c \in L : S[c] \in {"asked", "computed"}
    OBVIOUS
  <2> HIDE DEF L
  <2> QED
    BY <2>2, <2>3 DEF Bus!Calls!Next, Bus!Calls!Lose
<1>8. CASE UNCHANGED Bus!busVars
  BY <1>8 DEF Bus!busVars, Bus!StageOf
<1> QED
  BY <1>1, <1>2, <1>3, <1>4, <1>5, <1>6, <1>7, <1>8 DEF Bus!BusNext, Bus!Fault
-----------------------------------------------------------------------------
(* Every step of the services is one step of the mechanism, or none.       *)
LEMMA Moves == [Next]_vars => [Bus!BusNext]_(Bus!busVars)
<1> SUFFICES ASSUME [Next]_vars PROVE Bus!BusNext \/ UNCHANGED bus
  BY DEF bus, Bus!busVars
<1>1. ASSUME NEW r \in Request, Arrival(r) PROVE Bus!BusNext \/ UNCHANGED bus
  BY <1>1, CallFacts DEF Arrival, ArriveWithToken, ArriveWithoutToken, ArriveAtAuth,
     Bus!BusNext
<1>2. ASSUME NEW r \in Request, Progress(r) PROVE Bus!BusNext \/ UNCHANGED bus
  BY <1>2, CallFacts DEF Progress, GuardPasses, GuardDenies, PassportPasses,
     PassportDenies, ReadOwnRows, ReadOwnRowsFails, ReadReportRows,
     ReadReportRowsFails, ReadMembers, ReadMembersFails, ReadDetail,
     ReadDetailFails, JoinReport, JoinMembers, JoinDetail, Joining, Bus!BusNext
<1>3. ASSUME NEW c \in Call, Deliver(c) \/ Handle(c) PROVE Bus!BusNext
  BY <1>3 DEF Deliver, Handle, HandlerFails, Authenticate, GetUserByUserCode,
     GetCompany, Reply, Bus!BusNext
<1>4. CASE Environment
  BY <1>4 DEF Environment, Register, RemoveAccount, Crash, Restart, BrokerRestart,
     Bus!BusNext, Bus!Fault
<1>5. CASE UNCHANGED vars
  BY <1>5 DEF vars
<1> QED
  BY <1>1, <1>2, <1>3, <1>4, <1>5 DEF Next
-----------------------------------------------------------------------------
(* The invariant of the mechanism, in every execution of the services.     *)
THEOREM BusInvariance == Spec => []Bus!BusInv
<1>1. Init => Bus!BusInit
  BY DEF Init
<1> QED
  BY <1>1, BusInitInv, BusStep, Moves, PTL DEF Spec

(* Each call is computed at most once, answered at most once and only with *)
(* what was computed, or lost.                                             *)
THEOREM CallsRefined == Spec => CallsSpec
<1>1. Init => Bus!Calls!Init
  BY CallsInit DEF Init
<1>2. Bus!BusInv /\ [Next]_vars => [Bus!Calls!Next]_([c \in Call |-> Bus!StageOf(c)])
  BY Moves, CallsStep
<1> QED
  BY <1>1, <1>2, BusInvariance, PTL DEF Spec, CallsSpec, Bus!CallsSpec, Bus!Calls!Spec
-----------------------------------------------------------------------------
(* Only the query of the report keeps the rows it has read.                *)
LEMMA RowsStep == RowsTypeOK /\ [Next]_vars => RowsTypeOK'
<1> SUFFICES ASSUME RowsTypeOK, [Next]_vars PROVE RowsTypeOK'
  OBVIOUS
<1>1. ASSUME NEW r \in Request, ReadReportRows(r) PROVE RowsTypeOK'
  <2>1. PICK s \in Rows(Members(CodeOf(r)), PageLimit) : rows' = [rows EXCEPT ![r] = s]
    BY <1>1 DEF ReadReportRows
  <2>2. s \in Seq(Receipt)
    BY <2>1 DEF Rows, SeqOf
  <2> QED
    BY <2>1, <2>2 DEF RowsTypeOK
<1>2. ASSUME NEW r \in Request, Arrival(r) PROVE rows' = rows
  BY <1>2 DEF Arrival, ArriveWithToken, ArriveWithoutToken, ArriveAtAuth, Arrive
<1>3. ASSUME NEW r \in Request, Progress(r), ~ ReadReportRows(r) PROVE rows' = rows
  BY <1>3 DEF Progress, GuardPasses, GuardDenies, PassportPasses, PassportDenies,
     ReadOwnRows, ReadOwnRowsFails, ReadReportRowsFails,
     ReadMembers, ReadMembersFails, ReadDetail, ReadDetailFails,
     JoinReport, JoinMembers, JoinDetail, ShowMembers, End, Error
<1>4. ASSUME NEW c \in Call, Deliver(c) \/ Handle(c) PROVE rows' = rows
  BY <1>4 DEF Deliver, Handle, HandlerFails, Authenticate, GetUserByUserCode,
     GetCompany, Reply, handlers
<1>5. CASE Environment
  BY <1>5 DEF Environment, Register, RemoveAccount, Crash, Restart, BrokerRestart,
     handlers, RowsTypeOK
<1>6. CASE UNCHANGED vars
  BY <1>6 DEF vars, handlers, RowsTypeOK
<1> QED
  BY <1>1, <1>2, <1>3, <1>4, <1>5, <1>6 DEF Next, RowsTypeOK

(* The types of the variables hold initially ...                           *)
LEMMA TypeInit == Init => TypeOK
<1> SUFFICES ASSUME Init PROVE TypeOK
  OBVIOUS
<1>1. Bus!BusTypeOK
  BY BusInitInv DEF Init, Bus!BusInv
<1>2. RowsTypeOK
  BY DEF Init, RowsTypeOK
<1> QED
  BY <1>1, <1>2, DataAssumption DEF Init, TypeOK, Stage, Status

(* ... and every step keeps them.                                          *)
LEMMA TypeStep == TypeOK /\ Bus!BusInv /\ [Next]_vars => TypeOK'
<1> SUFFICES ASSUME TypeOK, Bus!BusInv, [Next]_vars PROVE TypeOK'
  OBVIOUS
<1>0. Bus!BusTypeOK' /\ RowsTypeOK'
  BY BusStep, Moves, RowsStep DEF Bus!BusInv, TypeOK
<1> DEFINE Answers == (SUBSET Account) \cup (SUBSET Company) \cup {Nobody, Failed}
<1> USE DEF TypeOK
<1>1. ASSUME NEW r \in Request, Arrival(r) PROVE TypeOK'
  BY <1>0, <1>1 DEF Arrival, Arrive, ArriveWithToken, ArriveWithoutToken, ArriveAtAuth,
     Stage, Status
<1>2. ASSUME NEW r \in Request, Progress(r) PROVE TypeOK'
  <2> USE <1>0 DEF GoTo, End, Error, Stage, Status
  <2>1. CASE GuardPasses(r) \/ GuardDenies(r)
    BY <2>1 DEF GuardPasses, GuardDenies
  <2>2. CASE PassportPasses(r) \/ PassportDenies(r)
    BY <2>2 DEF PassportPasses, PassportDenies, Holders
  <2>3. CASE ReadOwnRows(r) \/ ReadOwnRowsFails(r)
    BY <2>3 DEF ReadOwnRows, ReadOwnRowsFails, Querying
  <2>4. CASE ReadReportRows(r) \/ ReadReportRowsFails(r)
    BY <2>4 DEF ReadReportRows, ReadReportRowsFails, Querying
  <2>5. CASE ReadMembers(r)
    <3>1. PICK S \in SUBSET (accounts \cap Members(CodeOf(r))) :
            members' = [members EXCEPT ![r] = S]
      BY <2>5 DEF ReadMembers
    <3>2. S \in SUBSET Account
      OBVIOUS
    <3> QED
      BY <2>5, <3>1, <3>2 DEF ReadMembers, Querying
  <2>6. CASE ReadMembersFails(r) \/ ReadDetailFails(r)
    BY <2>6 DEF ReadMembersFails, ReadDetailFails, Querying
  <2>7. CASE ReadDetail(r)
    BY <2>7 DEF ReadDetail, Querying, Holders
  <2>8. CASE JoinReport(r)
    BY <2>8 DEF JoinReport, Joining
  <2>9. CASE JoinMembers(r)
    BY <2>9 DEF JoinMembers, ShowMembers, Joining
  <2>10. CASE JoinDetail(r)
    BY <2>10 DEF JoinDetail, Joining
  <2> QED
    BY <1>2, <2>1, <2>2, <2>3, <2>4, <2>5, <2>6, <2>7, <2>8, <2>9, <2>10 DEF Progress
<1>3. ASSUME NEW c \in Call, Deliver(c) PROVE TypeOK'
  BY <1>0, <1>3 DEF Deliver, handlers
<1>4. ASSUME NEW c \in Call, Handle(c) PROVE TypeOK'
  <2>1. PICK v \in Answers : Reply(c, v)
    <3>1. CASE HandlerFails(c)
      BY <3>1 DEF HandlerFails
    <3>2. ASSUME NEW r \in Request, c = Guard(r), Authenticate(r)
          PROVE  \E v \in Answers : Reply(c, v)
      BY <3>2 DEF Authenticate, Holders
    <3>3. ASSUME NEW r \in Request, c = Users(r), GetUserByUserCode(r)
          PROVE  \E v \in Answers : Reply(c, v)
      BY <3>3 DEF GetUserByUserCode
    <3>4. ASSUME NEW r \in Request, c = Companies(r), GetCompany(r)
          PROVE  \E v \in Answers : Reply(c, v)
      BY <3>4, DataAssumption DEF GetCompany
    <3> QED
      BY <1>4, <3>1, <3>2, <3>3, <3>4 DEF Handle
  <2> HIDE DEF TypeOK
  <2>2. answer' \in [Call -> Answers]
    BY <2>1 DEF Reply, TypeOK
  <2> QED
    BY <1>0, <2>1, <2>2 DEF Reply, handlers, TypeOK
<1>5. CASE Environment
  BY <1>0, <1>5 DEF Environment, Register, RemoveAccount, Crash, Restart,
     BrokerRestart, handlers, Stage, Status
<1>6. CASE UNCHANGED vars
  BY <1>0, <1>6 DEF vars, handlers
<1> QED
  BY <1>1, <1>2, <1>3, <1>4, <1>5, <1>6 DEF Next
-----------------------------------------------------------------------------
(* What a step that concerns another request leaves alone.                 *)
Kept(q) ==
    /\ stage'[q] = stage[q] /\ job'[q] = job[q] /\ user'[q] = user[q]
    /\ rows'[q] = rows[q] /\ members'[q] = members[q]
    /\ status'[q] = status[q] /\ body'[q] = body[q] /\ present'[q] = present[q]
    /\ \A c \in CallsOf(q) :
        place'[c] = place[c] /\ caller'[c] = caller[c] /\ answer'[c] = answer[c]

(* A request keeps its invariant when a step leaves it alone and no        *)
(* account comes back.                                                     *)
LEMMA Frame ==
    ASSUME NEW q \in Request, RequestInv(q), Kept(q), accounts' \subseteq accounts
    PROVE  RequestInv(q)'
<1> USE DEF RequestInv, Kept, CallsOf
<1>1. WaitsInStage(q)'
  BY DEF WaitsInStage, Bus!Waiting, KindIn
<1>2. StoredArePresent(q)'
  BY DEF StoredArePresent, Serving
<1>3. GuardAnswerTrue(q)'
  BY DEF GuardAnswerTrue, Token
<1>4. CompanyAnswerTrue(q)'
  BY DEF CompanyAnswerTrue
<1>5. Admitted(q)' /\ CompaniesShown(q)'
  BY DEF Admitted, Entitled, Token, CompaniesShown, Answered
<1> QED
  BY <1>1, <1>2, <1>3, <1>4, <1>5

(* A message step concerns one call.                                       *)
LEMMA OneCall ==
    ASSUME Bus!BusTypeOK, NEW c \in Call,
           Bus!Send(c) \/ Bus!Deliver(c) \/ Bus!Serve(c) \/ Bus!Receive(c)
    PROVE  \A d \in Call : d # c => place'[d] = place[d] /\ caller'[d] = caller[d]
  BY DEF Bus!BusTypeOK, Bus!Send, Bus!Deliver, Bus!Serve, Bus!Receive

(* A handler's step leaves the other requests alone.                       *)
LEMMA OthersKept ==
    ASSUME HandlersInv, NEW r \in Request, Arrival(r) \/ Progress(r),
           NEW q \in Request, q # r
    PROVE  Kept(q) /\ accounts' = accounts
<1> USE DEF HandlersInv, TypeOK, RowsTypeOK
<1>1. CASE UNCHANGED bus
  <2>1. \A c \in CallsOf(q) : place'[c] = place[c] /\ caller'[c] = caller[c]
    BY <1>1 DEF bus
  <2> QED
    BY <2>1 DEF Kept, Arrival, Arrive, ArriveWithToken, ArriveWithoutToken, ArriveAtAuth,
       Progress, GuardPasses, GuardDenies, PassportPasses, PassportDenies,
       ReadOwnRows, ReadOwnRowsFails, ReadReportRows, ReadReportRowsFails,
       ReadMembers, ReadMembersFails, ReadDetail, ReadDetailFails, Querying,
       JoinReport, JoinMembers, JoinDetail, Joining, ShowMembers, GoTo, End, Error
<1>2. ASSUME NEW c \in CallsOf(r), Bus!Send(c) \/ Bus!Receive(c)
      PROVE  Kept(q) /\ accounts' = accounts
  <2>1. c \in Call /\ CallsOf(q) \subseteq Call /\ c \notin CallsOf(q)
    BY CallFacts, CallsApart DEF CallsOf
  <2>2. \A d \in CallsOf(q) : place'[d] = place[d] /\ caller'[d] = caller[d]
    BY <1>2, <2>1, OneCall
  <2> QED
    BY <2>2 DEF Kept, Arrival, Arrive, ArriveWithToken, ArriveWithoutToken, ArriveAtAuth,
       Progress, GuardPasses, GuardDenies, PassportPasses, PassportDenies,
       ReadOwnRows, ReadOwnRowsFails, ReadReportRows, ReadReportRowsFails,
       ReadMembers, ReadMembersFails, ReadDetail, ReadDetailFails, Querying,
       JoinReport, JoinMembers, JoinDetail, Joining, ShowMembers, GoTo, End, Error
<1>3. UNCHANGED bus \/ \E c \in CallsOf(r) : Bus!Send(c) \/ Bus!Receive(c)
  BY DEF Arrival, ArriveWithToken, ArriveWithoutToken, ArriveAtAuth, Progress,
     GuardPasses, GuardDenies, PassportPasses, PassportDenies, ReadOwnRows,
     ReadOwnRowsFails, ReadReportRows, ReadReportRowsFails, ReadMembers,
     ReadMembersFails, ReadDetail, ReadDetailFails, JoinReport, JoinMembers,
     JoinDetail, Joining, CallsOf
<1> QED
  BY <1>1, <1>2, <1>3
-----------------------------------------------------------------------------
(* What a request on its way satisfies after each of its own steps.        *)
LEMMA ArrivalKeeps ==
    ASSUME HandlersInv, NEW r \in Request, Arrival(r)
    PROVE  RequestInv(r)'
<1> PICK j \in Job : ArriveWithToken(r, j) \/ ArriveWithoutToken(r, j) \/ ArriveAtAuth(r, j)
  BY DEF Arrival
<1> USE CallFacts DEF HandlersInv, TypeOK, Bus!BusInv, Bus!BusTypeOK
<1>1. /\ stage[r] = "idle" /\ status[r] = "none"
      /\ \A c \in CallsOf(r) : caller[c] = "idle" /\ place[c] = "unsent"
  BY DEF Arrival, ArriveWithToken, ArriveWithoutToken, ArriveAtAuth, Arrive,
     RequestInv, WaitsInStage, CallsOf
<1>2. /\ job'[r] = j /\ present'[r] = accounts /\ accounts' = accounts
  BY DEF ArriveWithToken, ArriveWithoutToken, ArriveAtAuth, Arrive
<1>3. stage'[r] \in {"guard", "done"} /\ status'[r] \in {"none", "refused"}
  BY <1>1 DEF ArriveWithToken, ArriveWithoutToken, ArriveAtAuth, Arrive
<1>4. \A c \in CallsOf(r) : c # Guard(r) => caller'[c] = "idle" /\ place'[c] = "unsent"
  BY <1>1 DEF ArriveWithToken, ArriveWithoutToken, ArriveAtAuth, Arrive, Bus!Send,
     CallsOf, bus
<1>5. CASE ArriveWithToken(r, j)
  <2>1. /\ place'[Guard(r)] # "reply" /\ stage'[r] = "guard" /\ status'[r] = "none"
        /\ j.kind \in AtReceipt
    BY <1>1, <1>5 DEF ArriveWithToken, Arrive, Bus!Send
  <2> QED
    BY <1>2, <1>3, <1>4, <2>1 DEF RequestInv, WaitsInStage, StoredArePresent, Serving,
       GuardAnswerTrue,
       CompanyAnswerTrue, Admitted, Entitled, Token, CompaniesShown, Answered, KindIn,
       CallsOf, Bus!Waiting
<1>6. CASE ArriveWithoutToken(r, j) \/ ArriveAtAuth(r, j)
  <2>1. /\ place'[Guard(r)] = "unsent" /\ caller'[Guard(r)] = "idle"
        /\ stage'[r] = "guard" => status'[r] = "none"
    BY <1>1, <1>6 DEF ArriveWithoutToken, ArriveAtAuth, Arrive, CallsOf, bus
  <2> QED
    BY <1>2, <1>3, <1>4, <2>1 DEF RequestInv, WaitsInStage, StoredArePresent, Serving,
       GuardAnswerTrue,
       CompanyAnswerTrue, Admitted, Entitled, Token, CompaniesShown, Answered, KindIn,
       CallsOf, Bus!Waiting
<1> QED
  BY <1>5, <1>6

(* A request waits for its guard: only an account with the email of the    *)
(* token, stored since the request arrived, passes.                        *)
LEMMA GuardKeeps ==
    ASSUME HandlersInv, NEW r \in Request,
           GuardPasses(r) \/ GuardDenies(r) \/ PassportPasses(r) \/ PassportDenies(r)
    PROVE  RequestInv(r)'
<1> USE CallFacts DEF HandlersInv, TypeOK, Bus!BusInv, Bus!BusTypeOK, RequestInv
<1>1. /\ stage[r] = "guard" /\ status[r] = "none" /\ accounts \subseteq present[r]
      /\ \A c \in CallsOf(r) : c # Guard(r) => ~ Bus!Waiting(c) /\ place[c] # "reply"
  BY DEF GuardPasses, GuardDenies, PassportPasses, PassportDenies, Bus!Receive,
     WaitsInStage, StoredArePresent, Serving, CallsOf
<1>2. /\ job'[r] = job[r] /\ present' = present /\ accounts' = accounts
      /\ \A c \in CallsOf(r) : ~ Bus!Waiting(c)' /\ place'[c] # "reply"
  <2>1. CASE GuardPasses(r) \/ GuardDenies(r)
    BY <1>1, <2>1 DEF GuardPasses, GuardDenies, Bus!Receive, Bus!Waiting, CallsOf,
       GoTo, End, Error
  <2>2. CASE PassportPasses(r) \/ PassportDenies(r)
    BY <1>1, <2>2 DEF PassportPasses, PassportDenies, WaitsInStage, Bus!Waiting,
       CallsOf, KindIn, AtReceipt, AtAuth, bus, GoTo, End, Error
  <2> QED
    BY <2>1, <2>2
<1>3. CASE GuardPasses(r) \/ PassportPasses(r)
  <2>1. stage'[r] = "query" /\ status'[r] = "none"
    BY <1>1, <1>3 DEF GuardPasses, PassportPasses, GoTo
  <2>2. ASSUME GuardPasses(r) PROVE Entitled(r)'
    <3>1. PICK a \in Account : answer[Guard(r)] = {a} /\ user'[r] = a
      BY <2>2 DEF GuardPasses
    <3>2. PICK b \in present[r] : answer[Guard(r)] = {b} /\ EmailOf[b] = EmailOf[Token(r)]
      BY <2>2 DEF GuardPasses, Bus!Receive, GuardAnswerTrue
    <3>3. a = b
      BY <3>1, <3>2
    <3> QED
      BY <1>2, <3>1, <3>2, <3>3 DEF Entitled, Token
  <2>3. ASSUME PassportPasses(r) PROVE Entitled(r)'
    BY <1>1, <1>2, <2>3 DEF PassportPasses, Holders, Entitled, Token
  <2>4. Entitled(r)'
    BY <1>3, <2>2, <2>3
  <2> QED
    BY <1>1, <1>2, <2>1, <2>4 DEF WaitsInStage, StoredArePresent, Serving,
       GuardAnswerTrue,
       CompanyAnswerTrue, Admitted, Token, CompaniesShown, Answered, CallsOf
<1>4. CASE GuardDenies(r) \/ PassportDenies(r)
  <2>1. stage'[r] = "done" /\ status'[r] = "refused"
    BY <1>4 DEF GuardDenies, PassportDenies, End, Error
  <2> QED
    BY <1>1, <1>2, <2>1 DEF WaitsInStage, StoredArePresent, Serving, GuardAnswerTrue,
       CompanyAnswerTrue, Admitted, Entitled, Token, CompaniesShown, Answered, CallsOf
<1> QED
  BY <1>3, <1>4

(* A request at its query waits for no reply.                              *)
LEMMA QueryFacts ==
    ASSUME HandlersInv, NEW r \in Request, stage[r] = "query"
    PROVE  /\ \A c \in CallsOf(r) : ~ Bus!Waiting(c) /\ place[c] # "reply"
           /\ status[r] = "none"
           /\ accounts \subseteq present[r] /\ Entitled(r)
  BY CallFacts DEF HandlersInv, Bus!BusInv, RequestInv, WaitsInStage, StoredArePresent,
     Serving,
     Admitted, CallsOf

(* A query that ends the request.                                          *)
LEMMA QueryEnds ==
    ASSUME HandlersInv, NEW r \in Request,
           \/ ReadOwnRows(r) \/ ReadOwnRowsFails(r) \/ ReadReportRowsFails(r)
           \/ ReadMembersFails(r) \/ ReadDetailFails(r)
    PROVE  RequestInv(r)'
<1>1. /\ stage[r] = "query" /\ UNCHANGED <<job, user, members, present, accounts, bus>>
      /\ stage'[r] = "done" /\ status'[r] = "ok" => ~ KindIn(r, {"list"})
  BY DEF HandlersInv, TypeOK, ReadOwnRows, ReadOwnRowsFails, ReadReportRowsFails,
     ReadMembersFails, ReadDetailFails, Querying, KindIn, End, Error
<1>2. stage'[r] = "done"
  BY DEF HandlersInv, TypeOK, ReadOwnRows, ReadOwnRowsFails, ReadReportRowsFails,
     ReadMembersFails, ReadDetailFails, Querying, End, Error
<1> QED
  BY <1>1, <1>2, QueryFacts DEF bus, RequestInv, WaitsInStage, StoredArePresent, Serving,
     GuardAnswerTrue, CompanyAnswerTrue, Admitted, Entitled, Token, CompaniesShown,
     Answered,
     KindIn, CallsOf, Bus!Waiting

(* A query whose rows another service must complete.                       *)
LEMMA QueryAsks ==
    ASSUME HandlersInv, NEW r \in Request,
           ReadReportRows(r) \/ ReadMembers(r) \/ ReadDetail(r)
    PROVE  RequestInv(r)'
<1> USE CallFacts DEF HandlersInv, TypeOK, Bus!BusInv, Bus!BusTypeOK
<1>1. /\ stage[r] = "query" /\ stage'[r] = "join"
      /\ UNCHANGED <<job, user, status, body, present, accounts>>
  BY DEF ReadReportRows, ReadMembers, ReadDetail, Querying, GoTo
<1>2. CASE ReadReportRows(r)
  <2>1. /\ KindIn(r, {"report"})
        /\ \A c \in CallsOf(r) : place'[c] # "reply" /\ (c # Users(r) => ~ Bus!Waiting(c)')
    BY <1>1, <1>2, QueryFacts DEF ReadReportRows, Querying, KindIn, AtReceipt, Bus!Send,
       Bus!Waiting, CallsOf
  <2> QED
    BY <1>1, <2>1, QueryFacts DEF Querying, RequestInv, WaitsInStage, StoredArePresent,
       Serving,
       GuardAnswerTrue, CompanyAnswerTrue, Admitted, Entitled, Token, CompaniesShown,
       Answered,
       KindIn, CallsOf
<1>3. CASE ReadMembers(r) \/ ReadDetail(r)
  <2>1. /\ KindIn(r, AtAuth)
        /\ \A c \in CallsOf(r) : /\ place'[c] # "reply"
                                 /\ c # Companies(r) => ~ Bus!Waiting(c)'
    BY <1>1, <1>3, QueryFacts DEF ReadMembers, ReadDetail, Querying, KindIn, AtAuth,
       Bus!Send,
       Bus!Waiting, CallsOf
  <2> QED
    BY <1>1, <2>1, QueryFacts DEF Querying, RequestInv, WaitsInStage, StoredArePresent,
       Serving,
       GuardAnswerTrue, CompanyAnswerTrue, Admitted, Entitled, Token, CompaniesShown,
       Answered,
       KindIn, CallsOf
<1> QED
  BY <1>2, <1>3
-----------------------------------------------------------------------------
(* A handler that was waiting for its join: no call waits any more.        *)
LEMMA JoinFacts ==
    ASSUME HandlersInv, NEW r \in Request,
           NEW kinds, NEW c \in {Users(r), Companies(r)}, Joining(r, kinds, c)
    PROVE  /\ stage[r] = "join" /\ accounts' = accounts /\ place[c] = "reply"
           /\ Entitled(r) /\ accounts \subseteq present[r]
           /\ \A d \in CallsOf(r) : ~ Bus!Waiting(d)' /\ place'[d] # "reply"
<1> USE CallFacts DEF HandlersInv, TypeOK, Bus!BusInv, Bus!BusTypeOK, RequestInv
<1>1. stage[r] = "join" /\ accounts' = accounts /\ place[c] = "reply" /\ Bus!Waiting(c)
  BY DEF Joining, Bus!Receive
<1>2. \A d \in CallsOf(r) : d # c => ~ Bus!Waiting(d) /\ place[d] # "reply"
  BY <1>1 DEF WaitsInStage, CallsOf, KindIn, AtReceipt, AtAuth
<1>3. \A d \in CallsOf(r) : ~ Bus!Waiting(d)' /\ place'[d] # "reply"
  BY <1>2 DEF Joining, Bus!Receive, Bus!Waiting, CallsOf
<1> QED
  BY <1>1, <1>3 DEF StoredArePresent, Serving, Admitted

(* The joins end the request, and a member list shows a company as blank   *)
(* only if it has no document.                                             *)
LEMMA JoinKeeps ==
    ASSUME HandlersInv, NEW r \in Request,
           JoinReport(r) \/ JoinMembers(r) \/ JoinDetail(r)
    PROVE  RequestInv(r)'
<1>1. /\ stage[r] = "join" /\ accounts' = accounts
      /\ Entitled(r) /\ accounts \subseteq present[r]
      /\ \A d \in CallsOf(r) : ~ Bus!Waiting(d)' /\ place'[d] # "reply"
  BY JoinFacts DEF JoinReport, JoinMembers, JoinDetail
<1>2. stage'[r] = "done" /\ UNCHANGED <<job, user, members, present>>
  BY DEF HandlersInv, TypeOK, JoinReport, JoinMembers, JoinDetail, ShowMembers, End, Error
<1>3. CompaniesShown(r)'
  <2>1. CASE JoinReport(r)
    BY <1>2, <2>1 DEF JoinReport, Joining, CompaniesShown, Answered, KindIn
  <2>2. CASE JoinDetail(r)
    BY <1>2, <2>2 DEF JoinDetail, Joining, CompaniesShown, Answered, KindIn
  <2>3. CASE JoinMembers(r)
    <3> DEFINE a == answer[Companies(r)]
    <3>1. a \in {Failed, Named \cap {CompanyOf[m] : m \in members[r]}}
      BY <2>3, JoinFacts DEF JoinMembers, HandlersInv, RequestInv, CompanyAnswerTrue
    <3>2. CASE a = Failed /\ members[r] # {}
      <4>1. status'[r] = "serverError"
        BY <2>3, <3>2 DEF JoinMembers, Error, End, HandlersInv, TypeOK
      <4> QED
        BY <4>1 DEF CompaniesShown, Answered
    <3>3. CASE ~ (a = Failed /\ members[r] # {})
      <4>1. ShowMembers(r, a)
        BY <2>3, <3>3 DEF JoinMembers
      <4>2. \A m \in members[r] : NameIn(a, CompanyOf[m]) = NameIn(Named, CompanyOf[m])
        BY <3>1, <3>3 DEF NameIn
      <4>3. SUFFICES ASSUME KindIn(r, {"list"})
                     PROVE  body'[r] = [m \in members[r] |-> NameIn(Named, CompanyOf[m])]
        BY <1>2 DEF CompaniesShown, Answered, KindIn
      <4>4. body'[r] = [m \in members[r] |-> NameIn(a, CompanyOf[m])]
        BY <4>1, <4>3 DEF ShowMembers, End, HandlersInv, TypeOK
      <4> QED
        BY <4>2, <4>4
    <3> QED
      BY <3>2, <3>3
  <2> QED
    BY <2>1, <2>2, <2>3
<1> QED
  BY <1>1, <1>2, <1>3 DEF RequestInv, WaitsInStage, StoredArePresent, Serving,
     GuardAnswerTrue,
     CompanyAnswerTrue, Admitted, Entitled, Token, CallsOf

(* Any step of the handler of a request.                                   *)
LEMMA OwnKept ==
    ASSUME HandlersInv, NEW r \in Request, Arrival(r) \/ Progress(r)
    PROVE  RequestInv(r)'
  BY ArrivalKeeps, GuardKeeps, QueryEnds, QueryAsks, JoinKeeps DEF Progress
-----------------------------------------------------------------------------
(* A message handed to the service called changes no answer.               *)
LEMMA DeliverKeeps ==
    ASSUME HandlersInv, NEW c \in Call, Deliver(c), NEW q \in Request
    PROVE  RequestInv(q)'
<1>1. UNCHANGED <<store, answer, handlers, caller>>
  BY DEF Deliver, Bus!Deliver
<1>2. \A d \in Call : place'[d] = "reply" => place[d] = "reply"
  BY DEF Deliver, Bus!Deliver, HandlersInv, TypeOK, Bus!BusTypeOK
<1> QED
  BY <1>1, <1>2, CallFacts DEF HandlersInv, handlers, RequestInv, WaitsInStage,
     StoredArePresent, Serving,
     GuardAnswerTrue, CompanyAnswerTrue, Admitted, Entitled, Token, CompaniesShown,
     Answered,
     KindIn, CallsOf, Bus!Waiting

(* What a service answers is true when it answers.                         *)
LEMMA HandleKeeps ==
    ASSUME HandlersInv, NEW c \in Call, Handle(c), NEW q \in Request
    PROVE  RequestInv(q)'
<1> USE DEF HandlersInv, TypeOK, Bus!BusTypeOK
<1>0. Bus!Serve(c) /\ UNCHANGED <<store, handlers, caller>>
  BY DEF Handle, HandlerFails, Authenticate, GetUserByUserCode, GetCompany, Reply,
     Bus!Serve
<1>1. ASSUME NEW d \in Call, d # c PROVE place'[d] = place[d] /\ answer'[d] = answer[d]
  BY <1>1 DEF Handle, HandlerFails, Authenticate, GetUserByUserCode, GetCompany, Reply,
     Bus!Serve
<1>2. ASSUME c = Guard(q), Bus!Waiting(c)
      PROVE  \/ answer'[c] = Failed
             \/ \E a \in present[q] : answer'[c] = {a} /\ EmailOf[a] = EmailOf[Token(q)]
  <2>1. accounts \subseteq present[q]
    BY <1>2 DEF RequestInv, WaitsInStage, StoredArePresent, Serving
  <2>2. \A r \in Request : c = Guard(r) => r = q
    BY <1>2 DEF Guard
  <2>3. \A r \in Request : c # Users(r) /\ c # Companies(r)
    BY <1>2 DEF Guard, Users, Companies
  <2>4. HandlerFails(c) \/ Authenticate(q)
    BY <2>2, <2>3 DEF Handle
  <2>5. CASE HandlerFails(c)
    BY <2>5 DEF HandlerFails, Reply
  <2>6. ASSUME NEW a \in Holders(Token(q)), Reply(Guard(q), {a})
        PROVE  a \in present[q] /\ answer'[c] = {a} /\ EmailOf[a] = EmailOf[Token(q)]
    BY <1>2, <2>1, <2>6 DEF Reply, Holders
  <2>7. CASE Reply(Guard(q), Failed)
    BY <1>2, <2>7 DEF Reply
  <2> QED
    BY <2>4, <2>5, <2>6, <2>7 DEF Authenticate
<1>3. ASSUME c = Companies(q)
      PROVE  answer'[c] \in {Failed, Named \cap {CompanyOf[m] : m \in members[q]}}
  <2>1. \A r \in Request : c = Companies(r) => r = q
    BY <1>3 DEF Companies
  <2>2. \A r \in Request : c # Users(r) /\ c # Guard(r)
    BY <1>3 DEF Guard, Users, Companies
  <2> QED
    BY <2>1, <2>2 DEF Handle, HandlerFails, GetCompany, Reply
<1>4. GuardAnswerTrue(q)'
  <2>1. CASE c = Guard(q) /\ Bus!Waiting(c)
    BY <1>0, <1>2, <2>1 DEF handlers, GuardAnswerTrue, Token
  <2>2. CASE c = Guard(q) /\ ~ Bus!Waiting(c)
    BY <1>0, <2>2 DEF Bus!Serve, GuardAnswerTrue
  <2>3. CASE c # Guard(q)
    BY <1>0, <1>1, <2>3, CallFacts DEF handlers, GuardAnswerTrue, Token, RequestInv
  <2> QED
    BY <2>1, <2>2, <2>3
<1>5. CompanyAnswerTrue(q)'
  BY <1>0, <1>1, <1>3, CallFacts DEF handlers, CompanyAnswerTrue, RequestInv
<1> QED
  BY <1>0, <1>4, <1>5 DEF handlers, RequestInv, WaitsInStage, StoredArePresent, Serving,
     Admitted, Entitled, Token, CompaniesShown, Answered, KindIn, CallsOf, Bus!Waiting

(* With a process go the requests it serves, and they only.                *)
LEMMA CrashKeeps ==
    ASSUME HandlersInv, NEW p \in Service, Crash(p), NEW q \in Request
    PROVE  RequestInv(q)'
<1> USE CallFacts DEF HandlersInv, TypeOK, Bus!BusTypeOK, RequestInv
<1>1. UNCHANGED <<accounts, answer, job, user, members, body, present>>
  BY DEF Crash
<1>2. \A d \in Call : /\ place'[d] = "reply" => place[d] = "reply"
                      /\ Bus!Waiting(d)' => Bus!Waiting(d) /\ From[d] # p
                      /\ caller[d] = "idle" => caller'[d] = "idle"
  BY DEF Crash, Bus!Crash, Bus!Waiting
<1>3. /\ stage'[q] = IF Serving(q) /\ Host(q) = p THEN "done" ELSE stage[q]
      /\ status'[q] = IF Serving(q) /\ Host(q) = p THEN "lost" ELSE status[q]
  BY DEF Crash
<1>4. WaitsInStage(q)'
  BY <1>1, <1>2, <1>3 DEF WaitsInStage, Serving, KindIn, Host, AtReceipt, AtAuth, CallsOf
<1> QED
  BY <1>1, <1>2, <1>3, <1>4 DEF StoredArePresent, Serving, GuardAnswerTrue,
     CompanyAnswerTrue,
     Admitted, Entitled, Token, CompaniesShown, Answered

(* Neither the other events of the environment nor a removed account make  *)
(* anything shown, or admitted, untrue.                                    *)
LEMMA EnvironmentKeeps ==
    ASSUME HandlersInv, Environment, NEW q \in Request
    PROVE  RequestInv(q)'
<1>1. ASSUME NEW a \in Account, RemoveAccount(a) PROVE RequestInv(q)'
  BY <1>1, Frame DEF HandlersInv, RemoveAccount, Kept, handlers, bus
<1>4. ASSUME NEW a \in Account, Register(a) PROVE RequestInv(q)'
  <2>1. /\ UNCHANGED <<answer, stage, job, user, members, status, body, bus>>
        /\ accounts' = accounts \cup {a}
        /\ present'[q] = IF Serving(q) THEN present[q] \cup {a} ELSE present[q]
    BY <1>4 DEF Register
  <2> QED
    BY <2>1 DEF HandlersInv, bus, RequestInv, WaitsInStage, StoredArePresent, Serving,
       GuardAnswerTrue, CompanyAnswerTrue, Admitted, Entitled, Token, CompaniesShown,
       Answered, KindIn, CallsOf, Bus!Waiting
<1>2. ASSUME NEW p \in Service, Restart(p) PROVE RequestInv(q)'
  BY <1>2, Frame DEF HandlersInv, Restart, Bus!Restart, Kept, handlers
<1>3. CASE BrokerRestart
  <2>1. UNCHANGED <<store, answer, handlers, caller>>
    BY <1>3 DEF BrokerRestart, Bus!BrokerRestart
  <2>2. \A d \in Call : place'[d] = "reply" => place[d] = "reply"
    BY <1>3 DEF BrokerRestart, Bus!BrokerRestart
  <2> QED
    BY <2>1, <2>2, CallFacts DEF HandlersInv, handlers, RequestInv, WaitsInStage,
       StoredArePresent, Serving, GuardAnswerTrue, CompanyAnswerTrue, Admitted,
       Entitled, Token, CompaniesShown,
       Answered, Token, KindIn, CallsOf, Bus!Waiting
<1> QED
  BY <1>1, <1>2, <1>3, <1>4, CrashKeeps DEF Environment
-----------------------------------------------------------------------------
(* The inductive invariant holds initially ...                             *)
LEMMA InitInv == Init => HandlersInv
<1> SUFFICES ASSUME Init PROVE HandlersInv
  OBVIOUS
<1>1. TypeOK /\ Bus!BusInv
  BY TypeInit, BusInitInv DEF Init
<1>2. ASSUME NEW r \in Request PROVE RequestInv(r)
  BY CallFacts DEF Init, Bus!BusInit, RequestInv, WaitsInStage, StoredArePresent, Serving,
     GuardAnswerTrue, CompanyAnswerTrue, Admitted, Entitled, Token, CompaniesShown,
     Answered, CallsOf,
     Bus!Waiting
<1> QED
  BY <1>1, <1>2 DEF HandlersInv

(* ... and every step keeps it.                                            *)
LEMMA StepInv == HandlersInv /\ [Next]_vars => HandlersInv'
<1> SUFFICES ASSUME HandlersInv, [Next]_vars PROVE HandlersInv'
  OBVIOUS
<1>1. TypeOK' /\ Bus!BusInv'
  BY TypeStep, BusStep, Moves DEF HandlersInv
<1>2. ASSUME NEW q \in Request PROVE RequestInv(q)'
  <2>1. ASSUME NEW r \in Request, Arrival(r) \/ Progress(r) PROVE RequestInv(q)'
    <3>1. CASE q = r
      BY <2>1, <3>1, OwnKept
    <3>2. CASE q # r
      <4>1. Kept(q) /\ accounts' = accounts
        BY <2>1, <3>2, OthersKept
      <4> QED
        BY <4>1, Frame DEF HandlersInv
    <3> QED
      BY <3>1, <3>2
  <2>2. ASSUME NEW c \in Call, Deliver(c) \/ Handle(c) PROVE RequestInv(q)'
    BY <2>2, DeliverKeeps, HandleKeeps
  <2>3. CASE Environment
    BY <2>3, EnvironmentKeeps
  <2>4. CASE UNCHANGED vars
    BY <2>4, Frame DEF HandlersInv, vars, bus, handlers, Kept
  <2> QED
    BY <2>1, <2>2, <2>3, <2>4 DEF Next
<1> QED
  BY <1>1, <1>2 DEF HandlersInv

(* What is known of the calls and of every request, whatever the others,   *)
(* the removals and the faults do (the run services checks it).            *)
THEOREM HandlersInvariance == Spec => []HandlersInv
  BY InitInv, StepInv, PTL DEF Spec

(* A handler waits for ever only if the service it called, or the broker,  *)
(* went down while it waited, or if it is an admin report whose client the *)
(* broker refuses its reply address (receipt.module.ts:50).                *)
THEOREM Stuck == Spec => []StuckNeedsCause
<1>1. ASSUME HandlersInv, NEW r \in Request, StuckOn(r)
      PROVE  \/ {Guard(r), Users(r), Companies(r)} \cap disturbed # {}
             \/ RefusesAcks /\ stage[r] = "join" /\ KindIn(r, {"report"})
  <2>1. PICK c \in {Guard(r), Users(r), Companies(r)} : Bus!Stranded(c)
    BY <1>1 DEF StuckOn
  <2>2. c \in Call
    BY CallFacts
  <2>3. CASE c \in disturbed
    BY <2>3
  <2>4. CASE c \in Deaf
    <3>1. RefusesAcks /\ c = Users(r)
      BY <2>4 DEF Deaf, WithAcks, Guard, Users, Companies
    <3>2. Bus!Waiting(Users(r))
      BY <2>1, <3>1 DEF Bus!Stranded
    <3> QED
      BY <1>1, <3>1, <3>2 DEF HandlersInv, RequestInv, WaitsInStage
  <2> QED
    BY <1>1, <2>1, <2>2, <2>3, <2>4 DEF HandlersInv, Bus!BusInv
<1>2. HandlersInv => StuckNeedsCause
  BY <1>1 DEF StuckNeedsCause
<1> QED
  BY <1>2, HandlersInvariance, PTL

(* A handler runs, and answers with content, only for an account with the  *)
(* email of the token that was stored at some time since the request       *)
(* arrived: no failure opens the guard (jwt-auth.guard.ts:45-54).          *)
THEOREM AdmittedStored == Spec => []AdmittedWasStored
<1>1. HandlersInv => AdmittedWasStored
  BY DEF HandlersInv, RequestInv, Admitted, AdmittedWasStored
<1> QED
  BY <1>1, HandlersInvariance, PTL

(* In the list of members a failing company service is never taken for a   *)
(* company without a document (users.service.ts:155-172).                  *)
THEOREM BlankCompanies == Spec => []BlankCompanyHasNoDocument
<1>1. HandlersInv => BlankCompanyHasNoDocument
  BY DEF HandlersInv, RequestInv, CompaniesShown, BlankCompanyHasNoDocument
<1> QED
  BY <1>1, HandlersInvariance, PTL
-----------------------------------------------------------------------------
(* The accounts of Services, seen as those of a directory.                 *)
Directory == INSTANCE AccountDirectory WITH
    Email   <- {EmailOf[a] : a \in Account},
    None    <- Nobody,
    email   <- [a \in Account |-> IF a \in future THEN Nobody ELSE EmailOf[a]],
    company <- [a \in Account |-> IF a \in future THEN Nobody ELSE CompanyOf[a]],
    stored  <- accounts

(* No step of the directory is missing: every one, with the email and      *)
(* the company that EmailOf and CompanyOf have for the account, is while   *)
(* the handlers rest a registration or a removal of Services.  Both are    *)
(* arbitrary, so what is proved of requests holds whatever the handlers of *)
(* the auth service do to accounts meanwhile (user.repository.ts:17-23,    *)
(* users.service.ts:80-91).                                                *)
THEOREM DirectoryAdmitted ==
    ASSUME TypeOK, future' \subseteq Account, NEW a \in Account,
           Directory!Register(a, EmailOf[a], CompanyOf[a]) \/ Directory!Remove(a),
           present' = [r \in Request |-> IF Serving(r) /\ a \in accounts'
                                        THEN present[r] \cup {a} ELSE present[r]],
           UNCHANGED <<stage, job, user, rows, members, status, body, answer, bus>>
    PROVE  Register(a) \/ RemoveAccount(a)
<1> DEFINE Codes == [x \in Account |-> IF x \in future THEN Nobody ELSE CompanyOf[x]]
<1>1. \A x \in Account : /\ Codes[x] = Nobody <=> x \in future
                         /\ Codes'[x] = Nobody <=> x \in future'
  BY DataAssumption, NobodyAssumption
<1>2. future \subseteq Account /\ accounts \subseteq Account
  BY DEF TypeOK
<1>3. CASE Directory!Register(a, EmailOf[a], CompanyOf[a])
  <2>1. /\ a \in future /\ accounts' = accounts \cup {a}
        /\ Codes' = [Codes EXCEPT ![a] = CompanyOf[a]]
    BY <1>1, <1>3 DEF Directory!Register, Directory!Enrolled
  <2>2. CompanyOf[a] # Nobody
    BY DataAssumption, NobodyAssumption
  <2>3. \A x \in Account : x \in future' <=> x \in future /\ x # a
    BY <1>1, <2>1, <2>2
  <2>4. future' = future \ {a}
    BY <1>2, <2>3
  <2>5. present' = [r \in Request |-> IF Serving(r) THEN present[r] \cup {a}
                                                   ELSE present[r]]
    BY <2>1
  <2> QED
    BY <2>1, <2>4, <2>5 DEF Register
<1>4. CASE Directory!Remove(a)
  <2>1. future' = future
    BY <1>1, <1>2, <1>4 DEF Directory!Remove
  <2>2. a \in accounts /\ accounts' = accounts \ {a}
    BY <1>4 DEF Directory!Remove
  <2>3. present' = present
    BY <2>2 DEF TypeOK
  <2> QED
    BY <2>1, <2>2, <2>3 DEF RemoveAccount, handlers
<1> QED
  BY <1>3, <1>4
=============================================================================
