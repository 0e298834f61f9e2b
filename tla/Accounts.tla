------------------------------ MODULE Accounts ------------------------------
(***************************************************************************)
(* The accounts of the auth service (src/apps/auth): registration, login,  *)
(* token authentication and deletion of members over one MongoDB           *)
(* collection that has no unique index.  Handlers interleave at every      *)
(* await, and any query may fail, with or without having had its effect.   *)
(*                                                                         *)
(* An account is named after the request that registered it, which stands  *)
(* for its ObjectId and its 17 character random memberCode.                *)
(***************************************************************************)

CONSTANTS
    Request,    \* the HTTP requests that may reach the service
    Email,
    Company,    \* company codes
    None        \* nobody, nothing

ASSUME NullAssumption == None \notin Request \cup Email \cup Company

VARIABLES
    pc,         \* where the handler of each request is suspended
    req,        \* what each request asks for
    user,       \* the account each request was authenticated as, or None
    accounts,   \* MongoDB: the accounts that exist
    company,    \* the companyCode each account was stored with, or None
    tokens,     \* the accounts a token was signed for
    response,   \* what each client was told
    before,     \* the accounts stored before the guard, or the lookup, of each
    blind,      \* history: registrations whose email lookup failed
    removedBy   \* history: the request that removed each account, or None

client  == <<pc, req, response>>
store   == <<accounts, company>>
records == <<blind, before, removedBy>>
vars    == <<client, user, store, tokens, records>>
-----------------------------------------------------------------------------
Input == [op     : {"none", "master", "member", "delete", "act"},
          email  : Email \cup {None},       \* of the account to register
          emails : SUBSET Email,            \* of the accounts to delete
          code   : Company \cup {None},     \* companyCode in the body
          token  : Request \cup {None}]     \* whose token the request carries

NoInput == [op |-> "none", email |-> None, emails |-> {}, code |-> None,
            token |-> None]

Phase == {"idle", "guard", "check", "insert", "remove", "act", "done"}

Active(r) == pc[r] \notin {"idle", "done"}

EmailOf(a) == req[a].email

(* The documents findOne may return for an email: any that has it.         *)
Holders(e) == {a \in accounts : EmailOf(a) = e}

Stored == {a \in Request : company[a] # None}

Init ==
    /\ pc        = [r \in Request |-> "idle"]
    /\ req       = [r \in Request |-> NoInput]
    /\ user      = [r \in Request |-> None]
    /\ accounts  = {}
    /\ company   = [r \in Request |-> None]
    /\ tokens    = {}
    /\ response  = [r \in Request |-> "none"]
    /\ blind     = {}
    /\ before    = [r \in Request |-> {}]
    /\ removedBy = [r \in Request |-> None]
-----------------------------------------------------------------------------
Arrive(r, input, next) ==
    /\ pc[r] = "idle"
    /\ pc'  = [pc EXCEPT ![r] = next]
    /\ req' = [req EXCEPT ![r] = input]
    /\ UNCHANGED <<response, user, store, tokens, records>>

GoTo(r, from, to) ==
    /\ pc[r] = from
    /\ pc' = [pc EXCEPT ![r] = to]
    /\ UNCHANGED <<req, response>>

Answer(r, from, code) ==
    /\ pc[r] = from
    /\ pc' = [pc EXCEPT ![r] = "done"]
    /\ response' = [response EXCEPT ![r] = code]
    /\ UNCHANGED req
-----------------------------------------------------------------------------
(* POST /users/master needs no token; the client chooses the companyCode.  *)
CreateMaster(r) ==
    \E e \in Email, c \in Company :
        Arrive(r, [NoInput EXCEPT !.op = "master", !.email = e, !.code = c], "check")

(* POST /users/member, DELETE /users and any other guarded endpoint.       *)
CreateMember(r) ==
    \E e \in Email, t \in tokens :
        Arrive(r, [NoInput EXCEPT !.op = "member", !.email = e, !.token = t], "guard")

DeleteMember(r) ==
    \E es \in SUBSET Email, t \in tokens :
        Arrive(r, [NoInput EXCEPT !.op = "delete", !.emails = es, !.token = t], "guard")

GuardedRequest(r) ==
    \E t \in tokens :
        Arrive(r, [NoInput EXCEPT !.op = "act", !.token = t], "guard")

(* POST /auth/login: the email comes out of the encrypted form, the        *)
(* password is not looked at.  Without a document, or when the query       *)
(* fails, the answer is an error and nothing changes.                      *)
Login(e) ==
    /\ \E a \in Holders(e) : tokens' = tokens \cup {a}
    /\ UNCHANGED <<client, user, store, records>>

AfterGuard == [member |-> "check", delete |-> "remove", act |-> "act"]

(* Variants with one plausible mistake each end in "Mistaken"; no action   *)
(* uses them.  Here: findOne without the email in its filter.              *)
AuthenticateMistaken(r) ==
    /\ GoTo(r, "guard", AfterGuard[req[r].op])
    /\ \E a \in accounts : user' = [user EXCEPT ![r] = a]
    /\ before' = [before EXCEPT ![r] = Stored]
    /\ UNCHANGED <<store, tokens, blind, removedBy>>

(* The token is valid for 600 days; what it is checked against is the      *)
(* email in it, and the account is whichever document has that email now.  *)
Authenticate(r) ==
    /\ GoTo(r, "guard", AfterGuard[req[r].op])
    /\ \E a \in Holders(EmailOf(req[r].token)) : user' = [user EXCEPT ![r] = a]
    /\ before' = [before EXCEPT ![r] = Stored]
    /\ UNCHANGED <<store, tokens, blind, removedBy>>

(* No document, or a failing query.                                        *)
Unauthorized(r) ==
    /\ Answer(r, "guard", "unauthorized")
    /\ UNCHANGED <<user, store, tokens, records>>

(* ... the email looked for within the company, or not at all.             *)
EmailIsFreeMistaken(r) ==
    /\ \A a \in Holders(EmailOf(r)) : company[a] # req[r].code
    /\ GoTo(r, "check", "insert")
    /\ before' = [before EXCEPT ![r] = Stored]
    /\ UNCHANGED <<user, store, tokens, blind, removedBy>>

EmailIsAlwaysFreeMistaken(r) ==
    /\ GoTo(r, "check", "insert")
    /\ before' = [before EXCEPT ![r] = Stored]
    /\ UNCHANGED <<user, store, tokens, blind, removedBy>>

(* validateCreateUserDto: findOne throws when it finds nothing.            *)
EmailIsFree(r) ==
    /\ Holders(EmailOf(r)) = {}
    /\ GoTo(r, "check", "insert")
    /\ before' = [before EXCEPT ![r] = Stored]
    /\ UNCHANGED <<user, store, tokens, blind, removedBy>>

(* ... the handler waiting for the email to become free.                   *)
EmailExistsMistaken(r) ==
    /\ pc[r] = "check"
    /\ Holders(EmailOf(r)) # {}
    /\ UNCHANGED vars

EmailExists(r) ==
    /\ Holders(EmailOf(r)) # {}
    /\ Answer(r, "check", "exists")
    /\ UNCHANGED <<user, store, tokens, records>>

(* ... and whatever else it throws is taken for the same.                  *)
LookupFails(r) ==
    /\ GoTo(r, "check", "insert")
    /\ blind'  = blind \cup {r}
    /\ before' = [before EXCEPT ![r] = Stored]
    /\ UNCHANGED <<user, store, tokens, removedBy>>

(* ... the user itself stored in place of its companyCode.                 *)
CompanyForMistaken(r) == IF req[r].op = "master" THEN req[r].code ELSE user[r]

(* The companyCode of a member is that of the account the guard found.     *)
CompanyFor(r) == IF req[r].op = "master" THEN req[r].code ELSE company[user[r]]

Insert(r) ==
    /\ accounts' = accounts \cup {r}
    /\ company'  = [company EXCEPT ![r] = CompanyFor(r)]

(* The password is hashed, then the document is stored.                    *)
StoreAccount(r) ==
    /\ Answer(r, "insert", "created")
    /\ Insert(r)
    /\ UNCHANGED <<user, tokens, records>>

(* ... the insert tried again, which may follow a removal of what it had   *)
(* stored.                                                                 *)
StoreAccountFailsMistaken(r) ==
    /\ GoTo(r, "insert", "insert")
    /\ Insert(r) \/ UNCHANGED store
    /\ UNCHANGED <<user, tokens, records>>

(* Hashing or the insert fails; the document may be there all the same.    *)
StoreAccountFails(r) ==
    /\ Answer(r, "insert", "error")
    /\ Insert(r) \/ UNCHANGED store
    /\ UNCHANGED <<user, tokens, records>>

(* ... the companyCode left out of the filter.                             *)
TargetsMistaken(r) == {a \in accounts : EmailOf(a) \in req[r].emails}

(* deleteMany({companyCode, email: {$in: emails}}), document by document.  *)
Targets(r) == {a \in accounts : /\ company[a] = company[user[r]]
                                /\ EmailOf(a) \in req[r].emails}

RemoveOne(r) ==
    /\ pc[r] = "remove"
    /\ \E a \in Targets(r) :
          /\ accounts'  = accounts \ {a}
          /\ removedBy' = [removedBy EXCEPT ![a] = r]
    /\ UNCHANGED <<client, user, company, tokens, blind, before>>

(* deleteMany comes to every document that was there when it began; one    *)
(* that is stored meanwhile may lie behind its cursor.                     *)
RemoveDone(r) ==
    /\ Answer(r, "remove", "ok")
    /\ Targets(r) \cap before[r] = {}
    /\ UNCHANGED <<user, store, tokens, records>>

(* The command fails after none, some or all of the documents.  The        *)
(* exception is returned, not thrown: the client is answered 200 as well.  *)
RemoveFails(r) ==
    /\ Answer(r, "remove", "ok")
    /\ UNCHANGED <<user, store, tokens, records>>

(* Any other handler answers with what it does for the account it was      *)
(* handed by the guard.                                                    *)
Respond(r) ==
    /\ Answer(r, "act", "ok")
    /\ UNCHANGED <<user, store, tokens, records>>

(* The process ends (and is started again): waiting clients get no answer. *)
Crash ==
    /\ \E r \in Request : Active(r)
    /\ pc' = [r \in Request |-> IF Active(r) THEN "done" ELSE pc[r]]
    /\ response' = [r \in Request |-> IF Active(r) THEN "lost" ELSE response[r]]
    /\ UNCHANGED <<req, user, store, tokens, records>>
-----------------------------------------------------------------------------
Arrival(r) ==
    \/ CreateMaster(r) \/ CreateMember(r) \/ DeleteMember(r) \/ GuardedRequest(r)

(* What a handler does when every query it awaits succeeds.                *)
Progress(r) ==
    \/ Authenticate(r) \/ Unauthorized(r)
    \/ EmailIsFree(r) \/ EmailExists(r) \/ StoreAccount(r)
    \/ RemoveOne(r) \/ RemoveDone(r)
    \/ Respond(r)

Failure(r) == LookupFails(r) \/ StoreAccountFails(r) \/ RemoveFails(r)

Next == \/ Crash
        \/ \E e \in Email : Login(e)
        \/ \E r \in Request : Arrival(r) \/ Progress(r) \/ Failure(r)

(* Handlers whose query has settled are resumed, and every query settles.  *)
Fairness == \A r \in Request : WF_vars(Progress(r))

Spec == Init /\ [][Next]_vars /\ Fairness
-----------------------------------------------------------------------------
(* Every variable keeps to the values the handlers and the store can hold. *)
TypeOK ==
    /\ pc \in [Request -> Phase]
    /\ req \in [Request -> Input]
    /\ user \in [Request -> Request \cup {None}]
    /\ accounts \subseteq Request
    /\ company \in [Request -> Company \cup {None}]
    /\ tokens \subseteq Request
    /\ response \in [Request -> {"none", "created", "exists", "unauthorized", "ok",
                                 "error", "lost"}]
    /\ blind \subseteq Request
    /\ before \in [Request -> SUBSET Request]
    /\ removedBy \in [Request -> Request \cup {None}]

(* Neither registration saw the other: each was stored after the other's   *)
(* email lookup, or that lookup failed.                                    *)
Unseen(a, b) == b \in blind \/ a \notin before[b]
Raced(a, b)  == Unseen(a, b) /\ Unseen(b, a)

(* Two accounts share an email only if their registrations overlapped: a   *)
(* registration whose lookup succeeds never doubles an account that exists *)
(* by then.  This is all the protection there is without a unique index.   *)
DuplicateNeedsRace ==
    \A a, b \in accounts : a # b /\ EmailOf(a) = EmailOf(b) => Raced(a, b)

(* The request r acts as another account than the one its token was signed *)
(* for, and there is a reason for it.                                      *)
Switched(r) == LET t == req[r].token IN
    /\ user[r] \notin {None, t}
    /\ t \notin accounts \/ Raced(t, user[r])

(* The guard looks accounts up by the email in the token.  It takes a      *)
(* client for somebody else only after the client's own account was        *)
(* deleted, or if the two registrations overlapped.                        *)
IdentityNeedsReason ==
    \A r \in Request : user[r] \notin {None, req[r].token} => Switched(r)

(* A token never adds a member to, or removes one from, a company other    *)
(* than that of the account it was signed for, unless the identity was     *)
(* switched.                                                               *)
CompanyConfinement ==
    \A r \in Request : user[r] # None /\ ~Switched(r) =>
        LET home == company[req[r].token] IN
        /\ company[r] \in {None, home}
        /\ \A a \in Request : removedBy[a] = r => company[a] = home

(* Once a handler has started, its client is answered or, if the process   *)
(* goes down, loses the connection.                                        *)
EveryRequestAnswered ==
    \A r \in Request : Active(r) ~> response[r] # "none"

(* What the other services may rely on: the auth service is a directory of *)
(* accounts (AccountDirectory).  It never writes to an account again, and  *)
(* no failing query brings a removed one back.                             *)
Directory == INSTANCE AccountDirectory WITH
    Account <- Request,
    email   <- [a \in Request |-> IF a \in Stored THEN EmailOf(a) ELSE None],
    stored  <- accounts

DirectorySpec == Directory!Spec
-----------------------------------------------------------------------------
(* users.service.ts:204 refuses a registration because the email "already  *)
(* exists": no two accounts have the same email.                           *)
EmailUnique == \A a, b \in accounts : EmailOf(a) = EmailOf(b) => a = b
=============================================================================
