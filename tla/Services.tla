------------------------------ MODULE Services ------------------------------
(***************************************************************************)
(* The three services at work on reading requests, over RequestReply: the  *)
(* receipt service lets the auth service check every token and asks it for *)
(* the users of the admin report; the auth service asks the company        *)
(* service for the names of companies.  Accounts are registered and        *)
(* removed meanwhile, queries fail, processes and the broker go down.      *)
(*                                                                         *)
(* What changes receipts and accounts is in ReceiptService, Accounts and   *)
(* PageWalk; a query of receipts yields any rows of the company here.      *)
(***************************************************************************)
EXTENDS FiniteSets, SequencesExt

CONSTANTS
    Request,    \* the HTTP requests
    Job,        \* what they may ask for
    Account, Company, Receipt,
    CompanyOf,  \* the companyCode of each account
    EmailOf,    \* and its email, which is all a token holds
    Registered, \* the accounts there are at first
    Named,      \* the companies that have a document, and so a name
    Owner,      \* whose receipt each one is
    PageLimit,  \* the most rows on a page
    RefusesAcks,    \* does the broker refuse to let reply addresses be read with
                    \* acknowledgements?  RabbitMQ does
    Nobody, Failed

AtReceipt == {"report", "rows", "export"}   \* endpoints of the receipt service
AtAuth    == {"list", "adminList", "detail"}  \* and of the auth service
Kind      == AtReceipt \cup AtAuth

ASSUME JobAssumption ==
    Job \subseteq [kind : Kind, user : Account \cup {Nobody}, target : Account]
ASSUME DataAssumption ==
    /\ CompanyOf \in [Account -> Company]
    /\ Registered \subseteq Account
    /\ Owner \in [Receipt -> Account]
    /\ Named \subseteq Company
    /\ PageLimit \in Nat \ {0}
    /\ RefusesAcks \in BOOLEAN
ASSUME NobodyAssumption == Nobody \notin Account /\ Nobody \notin Company

VARIABLES
    up, place, caller, disturbed,   \* the calls between the services
    accounts,   \* the accounts stored
    future,     \* those not registered yet
    stage,      \* where the handler of each request is suspended
    job,        \* what each request asks for
    user,       \* the account its guard found: request.user
    rows,       \* the receipts its query has read, in record order
    members,    \* the accounts its query has read
    answer,     \* what the handler of each call has answered
    status,     \* what each client was told
    body,       \* and the content of the answer
    present     \* history: the accounts stored at some time while it was served

Service == {"receipt", "auth", "company"}
Call    == Request \X {"authenticate", "get_user_by_user_code", "get_company"}
From    == [c \in Call |-> IF c[2] = "get_company" THEN "auth" ELSE "receipt"]
To      == [c \in Call |-> IF c[2] = "get_company" THEN "company" ELSE "auth"]

(* The calls of the client that is configured with noAck: false.  The      *)
(* clients of the guard and of the auth service leave the option out.      *)
WithAcksMistaken == {"authenticate", "get_user_by_user_code"}

WithAcks == {"get_user_by_user_code"}

Deaf == {c \in Call : RefusesAcks /\ c[2] \in WithAcks}

Bus == INSTANCE RequestReply WITH Process <- Service

bus      == <<up, place, caller, disturbed>>
store    == <<accounts, future>>
handlers == <<stage, job, user, rows, members, status, body, present>>
vars     == <<bus, store, answer, handlers>>
-----------------------------------------------------------------------------
Stage  == {"idle", "guard", "query", "join", "done"}
(* "refused" is the guard's no, whatever its status code.                  *)
Status == {"none", "ok", "empty", "refused", "badRequest", "notFound",
           "serverError", "lost"}

Members(code) == {a \in Account : CompanyOf[a] = code}

RowsTypeOK == rows \in [Request -> Seq(Receipt)]

TypeOK ==
    /\ Bus!BusTypeOK
    /\ accounts \subseteq Account
    /\ future \subseteq Account
    /\ stage \in [Request -> Stage]
    /\ job \in [Request -> Job \cup {Nobody}]
    /\ user \in [Request -> Account \cup {Nobody}]
    /\ RowsTypeOK
    /\ members \in [Request -> SUBSET Account]
    /\ status \in [Request -> Status]
    /\ DOMAIN body = Request
    /\ present \in [Request -> SUBSET Account]
    /\ answer \in [Call -> (SUBSET Account) \cup (SUBSET Company) \cup {Nobody, Failed}]

Init ==
    /\ Bus!BusInit
    /\ accounts = Registered
    /\ future   = Account \ Registered
    /\ stage    = [r \in Request |-> "idle"]
    /\ job      = [r \in Request |-> Nobody]
    /\ user     = [r \in Request |-> Nobody]
    /\ rows     = [r \in Request |-> <<>>]
    /\ members  = [r \in Request |-> {}]
    /\ answer   = [c \in Call |-> Nobody]
    /\ status   = [r \in Request |-> "none"]
    /\ body     = [r \in Request |-> <<>>]
    /\ present  = [r \in Request |-> {}]
-----------------------------------------------------------------------------
Token(r)  == job[r].user
CodeOf(r) == CompanyOf[user[r]]

(* findOne yields any of the accounts with the email.                      *)
Holders(a) == {b \in accounts : EmailOf[b] = EmailOf[a]}

KindIn(r, kinds) == job[r].kind \in kinds

Host(r) == IF KindIn(r, AtReceipt) THEN "receipt" ELSE "auth"

Guard(r)     == <<r, "authenticate">>
Users(r)     == <<r, "get_user_by_user_code">>
Companies(r) == <<r, "get_company">>

GoTo(r, s) ==
    /\ stage' = [stage EXCEPT ![r] = s]
    /\ UNCHANGED <<job, status, body, present>>

End(r, s, b) ==
    /\ stage'  = [stage EXCEPT ![r] = "done"]
    /\ status' = [status EXCEPT ![r] = s]
    /\ body'   = [body EXCEPT ![r] = b]
    /\ UNCHANGED <<job, user, rows, members, present>>

Error(r, s) == End(r, s, <<>>)
-----------------------------------------------------------------------------
(* A request arrives and its guard is called.  The receipt service refuses *)
(* a request without a token itself and sends any other token to the auth  *)
(* service; the auth service looks the account up in its own database.     *)
(* Tokens are signed for accounts that were registered.                    *)
Arrive(r, j) ==
    /\ stage[r] = "idle"
    /\ j.user \notin future
    /\ job'     = [job EXCEPT ![r] = j]
    /\ present' = [present EXCEPT ![r] = accounts]
    /\ UNCHANGED <<user, rows, members, body, store, answer>>

ArriveWithToken(r, j) ==
    /\ Arrive(r, j)
    /\ j.kind \in AtReceipt /\ j.user # Nobody
    /\ Bus!Send(Guard(r))
    /\ stage' = [stage EXCEPT ![r] = "guard"]
    /\ UNCHANGED status

ArriveWithoutToken(r, j) ==
    /\ Arrive(r, j)
    /\ j.kind \in AtReceipt /\ j.user = Nobody
    /\ "receipt" \in up
    /\ stage'  = [stage EXCEPT ![r] = "done"]
    /\ status' = [status EXCEPT ![r] = "refused"]
    /\ UNCHANGED bus

ArriveAtAuth(r, j) ==
    /\ Arrive(r, j)
    /\ j.kind \in AtAuth
    /\ "auth" \in up
    /\ stage' = [stage EXCEPT ![r] = "guard"]
    /\ UNCHANGED <<status, bus>>

(* canActivate: the reply is the user, an error means no.                  *)
GuardPasses(r) ==
    /\ Bus!Receive(Guard(r))
    /\ answer[Guard(r)] # Failed
    /\ \E a \in Account :
        /\ answer[Guard(r)] = {a}
        /\ user' = [user EXCEPT ![r] = a]
    /\ GoTo(r, "query")
    /\ UNCHANGED <<rows, members, store, answer>>

GuardDeniesMistaken(r) ==
    /\ Bus!Receive(Guard(r))
    /\ answer[Guard(r)] = Failed
    /\ user' = [user EXCEPT ![r] = Token(r)]
    /\ GoTo(r, "query")
    /\ UNCHANGED <<rows, members, store, answer>>

GuardDenies(r) ==
    /\ Bus!Receive(Guard(r))
    /\ answer[Guard(r)] = Failed
    /\ Error(r, "refused")
    /\ UNCHANGED <<store, answer>>

PassportPasses(r) ==
    /\ stage[r] = "guard" /\ KindIn(r, AtAuth)
    /\ Token(r) # Nobody
    /\ \E a \in Holders(Token(r)) : user' = [user EXCEPT ![r] = a]
    /\ GoTo(r, "query")
    /\ UNCHANGED <<rows, members, store, answer, bus>>

(* No token, no account, or a lookup that fails.                           *)
PassportDenies(r) ==
    /\ stage[r] = "guard" /\ KindIn(r, AtAuth)
    /\ Error(r, "refused")
    /\ UNCHANGED <<store, answer, bus>>
-----------------------------------------------------------------------------
Querying(r, kinds) ==
    /\ stage[r] = "query" /\ KindIn(r, kinds)
    /\ UNCHANGED <<store, answer>>

Rows(owners, limit) ==
    {s \in SeqOf(Receipt, limit) :
        IsInjective(s) /\ \A i \in DOMAIN s : Owner[s[i]] \in owners \ future}

(* The member's own receipts: a page of them, or all for the export.       *)
ReadOwnRows(r) ==
    /\ Querying(r, {"rows", "export"})
    /\ \E s \in Rows({user[r]}, IF KindIn(r, {"rows"}) THEN PageLimit
                                ELSE Cardinality(Receipt)) : End(r, "ok", s)
    /\ UNCHANGED bus

(* The list answers 400; nobody catches the export's error.                *)
ReadOwnRowsFails(r) ==
    /\ Querying(r, {"rows", "export"})
    /\ Error(r, IF KindIn(r, {"rows"}) THEN "badRequest" ELSE "serverError")
    /\ UNCHANGED bus

(* The admin report: a page of the company's receipts, then their users.   *)
ReadReportRows(r) ==
    /\ Querying(r, {"report"})
    /\ \E s \in Rows(Members(CodeOf(r)), PageLimit) : rows' = [rows EXCEPT ![r] = s]
    /\ Bus!Send(Users(r))
    /\ GoTo(r, "join")
    /\ UNCHANGED <<user, members>>

ReadReportRowsFails(r) ==
    /\ Querying(r, {"report"})
    /\ Error(r, "badRequest")
    /\ UNCHANGED bus

(* A page of the company's members whose names match, or all for admins.   *)
ReadMembers(r) ==
    /\ Querying(r, {"list", "adminList"})
    /\ LET all == accounts \cap Members(CodeOf(r)) IN
       \E S \in SUBSET all :
        /\ IF KindIn(r, {"list"}) THEN Cardinality(S) <= PageLimit ELSE S = all
        /\ members' = [members EXCEPT ![r] = S]
    /\ Bus!Send(Companies(r))
    /\ GoTo(r, "join")
    /\ UNCHANGED <<user, rows>>

ReadMembersFails(r) ==
    /\ Querying(r, {"list", "adminList"})
    /\ Error(r, "notFound")
    /\ UNCHANGED bus

ReadDetail(r) ==
    /\ Querying(r, {"detail"})
    /\ \E m \in Holders(job[r].target) : members' = [members EXCEPT ![r] = {m}]
    /\ Bus!Send(Companies(r))
    /\ GoTo(r, "join")
    /\ UNCHANGED <<user, rows>>

(* 'member not found', or a failing query: logged and swallowed, so the    *)
(* client gets a 200 without content.                                      *)
ReadDetailFails(r) ==
    /\ Querying(r, {"detail"})
    /\ Error(r, "empty")
    /\ UNCHANGED bus
-----------------------------------------------------------------------------
(* The service called answers out of its own database, or with an error.   *)
Deliver(c) ==
    /\ Bus!Deliver(c)
    /\ UNCHANGED <<store, answer, handlers>>

Reply(c, value) ==
    /\ Bus!Serve(c)
    /\ answer' = [answer EXCEPT ![c] = value]
    /\ UNCHANGED <<store, handlers>>

HandlerFails(c) == Reply(c, Failed)

(* The user of whichever request is being authenticated, as if the handler *)
(* kept it in a field of the service.                                      *)
AuthenticateMistaken(r) ==
    /\ place[Guard(r)] = "server"
    /\ \E q \in {p \in Request : place[Guard(p)] = "server"} :
        \E a \in Holders(Token(q)) : Reply(Guard(r), {a})

Authenticate(r) ==
    /\ place[Guard(r)] = "server"
    /\ LET found == Holders(Token(r)) IN
        \/ \E a \in found : Reply(Guard(r), {a})
        \/ found = {} /\ Reply(Guard(r), Failed)

UserCodesMistaken(s) == {Owner[s[i]] : i \in DOMAIN s \cap {1}}

UserCodes(s) == {Owner[s[i]] : i \in DOMAIN s}

GetUserByUserCode(r) == Reply(Users(r), accounts \cap UserCodes(rows[r]))

GetCompany(r) == Reply(Companies(r), Named \cap {CompanyOf[m] : m \in members[r]})
-----------------------------------------------------------------------------
(* The join: the report is grouped by member, in order of first            *)
(* appearance, with the name the auth service gave and the approval of the *)
(* member's first row.                                                     *)
NameIn(known, x) == IF x \in known THEN x ELSE Nobody

AddRowMistaken(known, groups, x) ==
    LET K == {k \in DOMAIN groups : groups[k].owner = Owner[x]}
        g == [owner |-> Owner[x], name |-> NameIn(known, Owner[x]),
              approve |-> x, items |-> <<x>>]
    IN  IF K = {} THEN Append(groups, g)
        ELSE [k \in DOMAIN groups |-> IF k \in K THEN g ELSE groups[k]]

AddRow(known, groups, x) ==
    LET K == {k \in DOMAIN groups : groups[k].owner = Owner[x]}
    IN  IF K = {}
        THEN Append(groups, [owner   |-> Owner[x], name  |-> NameIn(known, Owner[x]),
                             approve |-> x,        items |-> <<x>>])
        ELSE [k \in DOMAIN groups |->
                IF k \in K THEN [groups[k] EXCEPT !.items = Append(@, x)] ELSE groups[k]]

(* The groups after each of the rows.                                      *)
Grouping(s, known) ==
    LET groups[n \in 0..Len(s)] ==
            IF n = 0 THEN <<>> ELSE AddRow(known, groups[n - 1], s[n])
    IN  groups

Group(s, known) == Grouping(s, known)[Len(s)]

Joining(r, kinds, c) ==
    /\ stage[r] = "join" /\ KindIn(r, kinds)
    /\ Bus!Receive(c)
    /\ UNCHANGED <<store, answer>>

JoinReport(r) ==
    /\ Joining(r, {"report"}, Users(r))
    /\ IF answer[Users(r)] = Failed
       THEN Error(r, "badRequest")
       ELSE End(r, "ok", Group(rows[r], answer[Users(r)]))

(* The list of a member shows the companies, that of an admin does not.    *)
(* catchError turns a failure into null, which the join cannot search: an  *)
(* error of the observable, after the controller's try has been left,      *)
(* unless there is no member to join.                                      *)
ShowMembers(r, found) ==
    End(r, "ok", [m \in members[r] |-> IF KindIn(r, {"list"})
                                       THEN NameIn(found, CompanyOf[m]) ELSE Nobody])

JoinMembersMistaken(r) ==
    /\ Joining(r, {"list", "adminList"}, Companies(r))
    /\ ShowMembers(r, IF answer[Companies(r)] = Failed THEN {} ELSE answer[Companies(r)])

JoinMembers(r) ==
    /\ Joining(r, {"list", "adminList"}, Companies(r))
    /\ IF answer[Companies(r)] = Failed /\ members[r] # {}
       THEN Error(r, "serverError")
       ELSE ShowMembers(r, answer[Companies(r)])

(* The requester's fields, with the company of the member asked for.       *)
(* (JoinDetailMistaken: without catchError, and so without an answer.)     *)
JoinDetailMistaken(r) ==
    /\ Joining(r, {"detail"}, Companies(r))
    /\ answer[Companies(r)] # Failed
    /\ End(r, "ok", <<user[r], answer[Companies(r)]>>)

JoinDetail(r) ==
    /\ Joining(r, {"detail"}, Companies(r))
    /\ End(r, "ok", <<user[r], IF answer[Companies(r)] = Failed THEN {}
                              ELSE answer[Companies(r)]>>)
-----------------------------------------------------------------------------
(* A removed account does not come back; its email may, with another.      *)
Serving(r) == stage[r] \notin {"idle", "done"}

Register(a) ==
    /\ a \in future
    /\ accounts' = accounts \cup {a}
    /\ future'   = future \ {a}
    /\ present'  = [r \in Request |-> IF Serving(r) THEN present[r] \cup {a}
                                                    ELSE present[r]]
    /\ UNCHANGED <<answer, stage, job, user, rows, members, status, body, bus>>

RemoveAccount(a) ==
    /\ a \in accounts
    /\ accounts' = accounts \ {a}
    /\ UNCHANGED <<future, answer, handlers, bus>>

(* With a process the connections of its clients go down.                  *)
Crash(p) ==
    /\ Bus!Crash(p)
    /\ LET L == {r \in Request : Serving(r) /\ Host(r) = p} IN
        /\ stage'  = [r \in Request |-> IF r \in L THEN "done" ELSE stage[r]]
        /\ status' = [r \in Request |-> IF r \in L THEN "lost" ELSE status[r]]
    /\ UNCHANGED <<store, answer, job, user, rows, members, body, present>>

Restart(p)    == Bus!Restart(p)    /\ UNCHANGED <<store, answer, handlers>>
BrokerRestart == Bus!BrokerRestart /\ UNCHANGED <<store, answer, handlers>>

Arrival(r) ==
    \E j \in Job : ArriveWithToken(r, j) \/ ArriveWithoutToken(r, j) \/ ArriveAtAuth(r, j)

Progress(r) ==
    \/ GuardPasses(r) \/ GuardDenies(r) \/ PassportPasses(r) \/ PassportDenies(r)
    \/ ReadOwnRows(r) \/ ReadOwnRowsFails(r)
    \/ ReadReportRows(r) \/ ReadReportRowsFails(r)
    \/ ReadMembers(r) \/ ReadMembersFails(r)
    \/ ReadDetail(r) \/ ReadDetailFails(r)
    \/ JoinReport(r) \/ JoinMembers(r) \/ JoinDetail(r)

Handle(c) ==
    \/ HandlerFails(c)
    \/ \E r \in Request :
        \/ c = Guard(r)     /\ Authenticate(r)
        \/ c = Users(r)     /\ GetUserByUserCode(r)
        \/ c = Companies(r) /\ GetCompany(r)

Environment ==
    \/ \E a \in Account : Register(a) \/ RemoveAccount(a)
    \/ \E p \in Service : Crash(p) \/ Restart(p)
    \/ BrokerRestart

Next ==
    \/ \E r \in Request : Arrival(r) \/ Progress(r)
    \/ \E c \in Call : Deliver(c) \/ Handle(c)
    \/ Environment

(* The event loops resume every handler whose query or reply has come, and *)
(* the broker hands messages over; nothing restarts a process.             *)
Fairness ==
    /\ \A r \in Request : WF_vars(Progress(r))
    /\ \A c \in Call : WF_vars(Deliver(c)) /\ WF_vars(Handle(c))

Spec == Init /\ [][Next]_vars /\ Fairness
-----------------------------------------------------------------------------
(* A handler runs, and a client gets more than a refusal, only for an      *)
(* account that has the email of the token and was stored at some time     *)
(* since the request arrived: no error, crash or lost reply opens the      *)
(* guard, and no reply says what was never true (jwt-auth.guard.ts:45-54). *)
Entitled(r) == user[r] \in present[r] /\ EmailOf[user[r]] = EmailOf[Token(r)]

AdmittedWasStored ==
    \A r \in Request :
        (stage[r] \in {"query", "join"} \/ status[r] \notin {"none", "refused", "lost"})
            => Entitled(r)

Answered(r, kind) == status[r] = "ok" /\ job[r].kind = kind

(* t consists of the rows of s that are a's, in their order.               *)
RowsOf(a, s, t) ==
    \E pos \in [DOMAIN t -> DOMAIN s] :
        /\ \A j, k \in DOMAIN t : j < k => pos[j] < pos[k]
        /\ {pos[j] : j \in DOMAIN t} = {i \in DOMAIN s : Owner[s[i]] = a}
        /\ \A j \in DOMAIN t : t[j] = s[pos[j]]

(* Some row of a comes before all rows of b.                               *)
AppearsBefore(a, b, s) ==
    \E i \in DOMAIN s : Owner[s[i]] = a /\ \A j \in 1..i : Owner[s[j]] # b

(* The grouping of the admin report (receipt.service.ts:85-126) loses and  *)
(* duplicates no row: one group per member, in order of first appearance,  *)
(* each with the member's rows in order and the approval of the first.     *)
Faithful(s, groups) ==
    /\ {groups[k].owner : k \in DOMAIN groups} = UserCodes(s)
    /\ \A k \in DOMAIN groups :
        /\ RowsOf(groups[k].owner, s, groups[k].items)
        /\ groups[k].approve = groups[k].items[1]
    /\ \A k, l \in DOMAIN groups :
        k < l => AppearsBefore(groups[k].owner, groups[l].owner, s)

ReportFaithful ==
    \A r \in Request : Answered(r, "report") => Faithful(rows[r], body[r])

(* The report shows a member without a name only if the account was        *)
(* removed, before the auth service looked or earlier; and it names nobody *)
(* who was removed before the report was asked for                         *)
(* (receipt.service.ts:60-79).                                             *)
NamesTrue(r) ==
    \A k \in DOMAIN body[r] :
        LET g == body[r][k] IN
        /\ g.name = Nobody => g.owner \notin accounts
        /\ g.name # Nobody => g.name = g.owner /\ g.owner \in present[r]

BlankNameNeedsRemoval == \A r \in Request : Answered(r, "report") => NamesTrue(r)

(* A member list shows a blank company only for a company that has no      *)
(* document: a failure of the company service is never taken for that      *)
(* (users.service.ts:155-172).                                             *)
BlankCompanyHasNoDocument ==
    \A r \in Request : Answered(r, "list") =>
        body[r] = [m \in members[r] |-> NameIn(Named, CompanyOf[m])]

(* users.service.ts:157 says of the failing company call "Handle error and *)
(* return a default value or empty observable".                            *)
CompanyFailureHandled ==
    \A r \in Request :
        status[r] = "serverError" => ~ KindIn(r, {"list", "adminList"})

StuckOn(r) == \E c \in {Guard(r), Users(r), Companies(r)} : Bus!Stranded(c)

(* A handler waits for ever only for one of two reasons: the service it    *)
(* called, or the broker, went down while it waited; or it is an admin     *)
(* report that has read its rows, and the broker refuses its client the    *)
(* reply address (receipt.module.ts:50).  In particular every guard, and   *)
(* every list of members, is answered as long as nothing goes down         *)
(* (jwt-auth.guard.ts:25-34, users.module.ts:23-33).                       *)
StuckNeedsCause ==
    \A r \in Request : StuckOn(r) =>
        \/ {Guard(r), Users(r), Companies(r)} \cap disturbed # {}
        \/ RefusesAcks /\ stage[r] = "join" /\ KindIn(r, {"report"})

(* receipt.service.ts:125 says of the end of the admin report that the map *)
(* is turned into an array and "the final result" is made.  A report that  *)
(* has read its rows gets there, or fails, once no service is down, unless *)
(* auth or the broker went down while it waited.                           *)
FinalResultMade ==
    <>[](up = Service) =>
        \A r \in Request :
            (stage[r] = "join" /\ KindIn(r, {"report"}))
                ~> (stage[r] = "done" \/ Users(r) \in disturbed)

(* Once the services called stay up, every request that arrived ends or is *)
(* stuck (StuckNeedsCause; no timeout ends that wait).                     *)
EveryRequestEnds ==
    <>[]({"auth", "company"} \subseteq up) =>
        \A r \in Request :
            Serving(r) ~> (stage[r] = "done" \/ StuckOn(r))

(* The calls between the services keep to what a remote call promises:     *)
(* computed at most once, answered at most once, or lost.                  *)
CallsSpec == Bus!CallsSpec
=============================================================================
