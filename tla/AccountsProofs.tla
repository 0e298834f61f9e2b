--------------------------- MODULE AccountsProofs ---------------------------
(***************************************************************************)
(* Theorems about Accounts, for every set of requests, emails and          *)
(* companies.  The actions are sorted by what they do to the facts of      *)
(* IndInv (StepKinds); each conjunct then survives each kind of step.      *)
(***************************************************************************)
EXTENDS AccountsInvariant, TLAPS

-----------------------------------------------------------------------------
(* The kinds of step.                                                      *)

Codes == {"none", "created", "exists", "unauthorized", "ok", "error", "lost"}

(* Handlers are answered, or lose their clients; nothing else changes.     *)
Quiet ==
    /\ UNCHANGED <<req, user, accounts, company, tokens, blind, before, removedBy>>
    /\ pc' \in [Request -> Phase] /\ response' \in [Request -> Codes]
    /\ \A q \in Request :
          \/ pc'[q] = pc[q] /\ response'[q] = response[q]
          \/ /\ pc[q] \notin {"idle", "done"} /\ pc'[q] = "done"
             /\ response'[q] \in {"exists", "unauthorized", "ok", "error", "lost"}

(* What a request may ask for, and the phase its handler starts in.        *)
Asks(input, next) ==
    /\ input \in Input
    /\ input.op \in {"master", "member"} => input.email # None
    /\ \/ /\ input.op = "master" /\ next = "check"
          /\ input.code # None /\ input.token = None
       \/ /\ input.op \in {"member", "delete", "act"} /\ next = "guard"
          /\ input.token \in tokens

Arrives(r) == \E input \in Input, next \in Phase :
                  Asks(input, next) /\ Arrive(r, input, next)

LogsIn == /\ \E a \in accounts : tokens' = tokens \cup {a}
          /\ UNCHANGED <<client, user, store, records>>

Looks(r) ==
    /\ GoTo(r, "check", "insert")
    /\ \/ Holders(EmailOf(r)) = {} /\ UNCHANGED blind
       \/ blind' = blind \cup {r}
    /\ before' = [before EXCEPT ![r] = Stored]
    /\ UNCHANGED <<user, store, tokens, removedBy>>

Inserts(r) ==
    /\ \E code \in {"created", "error"} : Answer(r, "insert", code)
    /\ Insert(r)
    /\ UNCHANGED <<user, tokens, records>>

Kind == \/ Quiet
        \/ LogsIn
        \/ \E r \in Request : \/ Arrives(r) \/ Authenticate(r) \/ Looks(r)
                              \/ Inserts(r) \/ RemoveOne(r)

(* Every step is of one of the kinds.                                      *)
LEMMA StepKinds == TypeOK /\ PhaseOf /\ AccountsStored /\ [Next]_vars => Kind
<1> SUFFICES ASSUME TypeOK, PhaseOf, AccountsStored, [Next]_vars PROVE Kind
    OBVIOUS
<1> USE DEF vars, client, store, records
<1>1. CASE UNCHANGED vars
  BY <1>1 DEF Quiet, Codes, Phase, Kind, TypeOK
<1>2. CASE Crash
  BY <1>2 DEF Crash, Active, Quiet, Codes, Phase, Kind, TypeOK
<1>3. ASSUME NEW e \in Email, Login(e)
      PROVE  Kind
  BY <1>3 DEF Login, Holders, LogsIn, Kind
<1>4. ASSUME NEW r \in Request, Arrival(r)
      PROVE  Kind
  <2>1. tokens \subseteq Request
    BY DEF TypeOK
  <2>2. CASE CreateMaster(r)
    <3>1. PICK e \in Email, c \in Company :
             Arrive(r, [NoInput EXCEPT !.op = "master", !.email = e, !.code = c], "check")
      BY <2>2 DEF CreateMaster
    <3> DEFINE input == [NoInput EXCEPT !.op = "master", !.email = e, !.code = c]
    <3>2. input \in Input
      BY DEF NoInput, Input
    <3>3. Asks(input, "check")
      BY <3>2, NullAssumption DEF NoInput, Asks
    <3> HIDE DEF input
    <3> QED BY <3>1, <3>2, <3>3 DEF input, Arrives, Kind, Phase
  <2>3. CASE CreateMember(r)
    <3>1. PICK e \in Email, t \in tokens :
             Arrive(r, [NoInput EXCEPT !.op = "member", !.email = e, !.token = t], "guard")
      BY <2>3 DEF CreateMember
    <3> DEFINE input == [NoInput EXCEPT !.op = "member", !.email = e, !.token = t]
    <3>2. input \in Input
      BY <2>1 DEF NoInput, Input
    <3>3. Asks(input, "guard")
      BY <3>2, NullAssumption DEF NoInput, Asks
    <3> HIDE DEF input
    <3> QED BY <3>1, <3>2, <3>3 DEF input, Arrives, Kind, Phase
  <2>4. CASE DeleteMember(r)
    <3>1. PICK es \in SUBSET Email, t \in tokens :
             Arrive(r, [NoInput EXCEPT !.op = "delete", !.emails = es, !.token = t], "guard")
      BY <2>4 DEF DeleteMember
    <3> DEFINE input == [NoInput EXCEPT !.op = "delete", !.emails = es, !.token = t]
    <3>2. input \in Input
      BY <2>1 DEF NoInput, Input
    <3>3. Asks(input, "guard")
      BY <3>2 DEF NoInput, Asks
    <3> HIDE DEF input
    <3> QED BY <3>1, <3>2, <3>3 DEF input, Arrives, Kind, Phase
  <2>5. CASE GuardedRequest(r)
    <3>1. PICK t \in tokens :
             Arrive(r, [NoInput EXCEPT !.op = "act", !.token = t], "guard")
      BY <2>5 DEF GuardedRequest
    <3> DEFINE input == [NoInput EXCEPT !.op = "act", !.token = t]
    <3>2. input \in Input
      BY <2>1 DEF NoInput, Input
    <3>3. Asks(input, "guard")
      BY <3>2 DEF NoInput, Asks
    <3> HIDE DEF input
    <3> QED BY <3>1, <3>2, <3>3 DEF input, Arrives, Kind, Phase
  <2> QED BY <1>4, <2>2, <2>3, <2>4, <2>5 DEF Arrival
<1>5. ASSUME NEW r \in Request, Progress(r) \/ Failure(r)
      PROVE  Kind
  <2> USE DEF TypeOK
  <2>1. CASE Authenticate(r)
    BY <2>1 DEF Kind
  <2>2. CASE Unauthorized(r)
    BY <2>2 DEF Unauthorized, Answer, Quiet, Codes, Phase, Kind, PhaseOf
  <2>3. CASE EmailIsFree(r)
    BY <2>3 DEF EmailIsFree, Looks, Kind
  <2>4. CASE EmailExists(r)
    BY <2>4 DEF EmailExists, Answer, Quiet, Codes, Phase, Kind, PhaseOf
  <2>5. CASE StoreAccount(r)
    BY <2>5 DEF StoreAccount, Inserts, Kind
  <2>6. CASE RemoveOne(r)
    BY <2>6 DEF Kind
  <2>7. CASE RemoveDone(r)
    BY <2>7 DEF RemoveDone, Answer, Quiet, Codes, Phase, Kind, PhaseOf
  <2>8. CASE Respond(r)
    BY <2>8 DEF Respond, Answer, Quiet, Codes, Phase, Kind, PhaseOf
  <2>9. CASE LookupFails(r)
    BY <2>9 DEF LookupFails, Looks, Kind
  <2>10. CASE StoreAccountFails(r)
    BY <2>10 DEF StoreAccountFails, Answer, Inserts, Quiet, Codes, Phase, Kind, PhaseOf
  <2>11. CASE RemoveFails(r)
    BY <2>11 DEF RemoveFails, Answer, Quiet, Codes, Phase, Kind, PhaseOf
  <2> QED BY <1>5, <2>1, <2>2, <2>3, <2>4, <2>5, <2>6, <2>7, <2>8, <2>9, <2>10,
             <2>11 DEF Progress, Failure
<1> QED BY <1>1, <1>2, <1>3, <1>4, <1>5 DEF Next
-----------------------------------------------------------------------------
(* Each conjunct of IndInv survives each kind of step.                     *)
LEMMA TypeStep ==
    ASSUME IndInv, Kind
    PROVE  TypeOK'
<1> USE DEF IndInv, TypeOK, store, records, client
<1>1. CASE Quiet
  BY <1>1 DEF Quiet, Phase, Codes
<1>2. CASE LogsIn
  BY <1>2 DEF LogsIn
<1>3. ASSUME NEW r \in Request, Arrives(r)
      PROVE  TypeOK'
  BY <1>3 DEF Arrives, Arrive, Asks
<1>4. ASSUME NEW r \in Request, Authenticate(r)
      PROVE  TypeOK'
  <2>1. AfterGuard[req[r].op] \in Phase
    BY <1>4 DEF Authenticate, GoTo, AfterGuard, PhaseOf, Phase
  <2>2. Stored \in SUBSET Request
    BY DEF Stored
  <2>3. PICK a \in Request : user' = [user EXCEPT ![r] = a]
    BY <1>4 DEF Authenticate, Holders
  <2> QED BY <1>4, <2>1, <2>2, <2>3 DEF Authenticate, GoTo
<1>5. ASSUME NEW r \in Request, Looks(r)
      PROVE  TypeOK'
  BY <1>5 DEF Looks, GoTo, Phase, Stored
<1>6. ASSUME NEW r \in Request, Inserts(r)
      PROVE  TypeOK'
  <2>1. CompanyFor(r) \in Company \cup {None}
    BY <1>6 DEF Inserts, Answer, CompanyFor, PhaseOf, Registers, CompaniesInherited, Input
  <2> QED BY <1>6, <2>1 DEF Inserts, Answer, Insert, Phase
<1>7. ASSUME NEW r \in Request, RemoveOne(r)
      PROVE  TypeOK'
  BY <1>7 DEF RemoveOne, Targets
<1> QED BY <1>1, <1>2, <1>3, <1>4, <1>5, <1>6, <1>7 DEF Kind

(* What a handler does at each phase stays true.                           *)
LEMMA PhaseStep ==
    ASSUME IndInv, Kind
    PROVE  PhaseOf'
<1> USE DEF IndInv, TypeOK, store, records, client, PhaseOf, Registers
<1>1. CASE Quiet
  BY <1>1 DEF Quiet
<1>2. CASE LogsIn
  BY <1>2 DEF LogsIn
<1>3. ASSUME NEW r \in Request, Arrives(r)
      PROVE  PhaseOf'
  BY <1>3 DEF Arrives, Arrive, Asks
<1>4. ASSUME NEW r \in Request, Authenticate(r)
      PROVE  PhaseOf'
  BY <1>4 DEF Authenticate, GoTo, AfterGuard
<1>5. ASSUME NEW r \in Request, Looks(r)
      PROVE  PhaseOf'
  BY <1>5 DEF Looks, GoTo
<1>6. ASSUME NEW r \in Request, Inserts(r)
      PROVE  PhaseOf'
  BY <1>6 DEF Inserts, Answer
<1>7. ASSUME NEW r \in Request, RemoveOne(r)
      PROVE  PhaseOf'
  BY <1>7 DEF RemoveOne
<1> QED BY <1>1, <1>2, <1>3, <1>4, <1>5, <1>6, <1>7 DEF Kind

(* A registration that is about to store its account has none yet, and     *)
(* knows its company.                                                      *)
LEMMA InsertCompany ==
    ASSUME IndInv, NEW r \in Request, Inserts(r)
    PROVE  /\ r \notin Stored
           /\ company'[r] = CompanyFor(r)
           /\ company'[r] # None
           /\ \A q \in Request \ {r} : company'[q] = company[q]
           /\ Stored' = Stored \cup {r}
<1> USE DEF IndInv, TypeOK
<1>1. r \notin Stored /\ Registers(r) /\ company' = [company EXCEPT ![r] = CompanyFor(r)]
  BY DEF Inserts, Answer, Insert, AccountsStored, PhaseOf
<1>2. CompanyFor(r) # None
  BY <1>1 DEF Inserts, Answer, CompanyFor, Registers, CompaniesInherited, AccountsStored, Stored
<1> QED BY <1>1, <1>2 DEF Stored

(* What no step takes back.                                                *)
LEMMA Stable ==
    ASSUME IndInv, Kind
    PROVE  /\ Stored \subseteq Stored'
           /\ \A a \in Stored : /\ company'[a] = company[a]
                                /\ req'[a] = req[a] /\ pc'[a] = pc[a]
                                /\ user'[a] = user[a] /\ before'[a] = before[a]
                                /\ a \notin accounts => a \notin accounts'
           /\ tokens \subseteq tokens'
           /\ blind \subseteq blind'
           /\ \A q \in Request : /\ user[q] # None => user'[q] = user[q]
                                 /\ pc[q] # "idle" => req'[q] = req[q]
                                 /\ pc[q] = "done" => /\ pc'[q] = "done"
                                                     /\ user'[q] = user[q]
                                                     /\ before'[q] = before[q]
                                                     /\ response'[q] = response[q]
<1> USE DEF IndInv, TypeOK, store, records, client
<1>0. \A a \in Stored : a \in Request /\ pc[a] = "done"
  BY DEF Stored, AccountsStored
<1>1. CASE Quiet
  BY <1>0, <1>1 DEF Quiet, Stored
<1>2. CASE LogsIn
  BY <1>0, <1>2 DEF LogsIn, Stored
<1>3. CASE \E r \in Request : Arrives(r)
  BY <1>0, <1>3 DEF Arrives, Arrive, Stored
<1>4. CASE \E r \in Request : Authenticate(r)
  BY <1>0, <1>4 DEF Authenticate, GoTo, Stored, PhaseOf
<1>5. CASE \E r \in Request : Looks(r)
  BY <1>0, <1>5 DEF Looks, GoTo, Stored
<1>6. ASSUME NEW r \in Request, Inserts(r)
      PROVE  /\ Stored \subseteq Stored'
             /\ \A a \in Stored : company'[a] = company[a] /\ (a \notin accounts => a \notin accounts')
             /\ UNCHANGED <<req, user, tokens, records>>
             /\ \A q \in Request \ {r} : pc'[q] = pc[q] /\ response'[q] = response[q]
             /\ pc[r] = "insert"
  BY <1>0, <1>6, InsertCompany DEF Inserts, Answer, Insert
<1>7. CASE \E r \in Request : RemoveOne(r)
  BY <1>0, <1>7 DEF RemoveOne, Stored
<1> QED BY <1>0, <1>1, <1>2, <1>3, <1>4, <1>5, <1>6, <1>7 DEF Kind

(* Stored accounts come from registrations that are over.                  *)
LEMMA StoredStep ==
    ASSUME IndInv, Kind
    PROVE  AccountsStored'
<1> USE DEF IndInv, TypeOK, store, records, client
<1>1. /\ Stored \subseteq Stored' /\ tokens \subseteq tokens'
      /\ \A a \in Stored : req'[a] = req[a] /\ pc'[a] = pc[a] /\ a \in Request
  BY Stable DEF Stored
<1>2. \/ Stored' = Stored
      \/ \E r \in Request : Inserts(r) /\ Stored' = Stored \cup {r}
  <2>1. ASSUME NEW r \in Request, Inserts(r) PROVE Stored' = Stored \cup {r}
    BY <2>1, InsertCompany
  <2> QED BY <2>1 DEF Kind, Quiet, LogsIn, Arrives, Arrive, Authenticate, Looks, RemoveOne,
          Stored
<1>3. accounts' \subseteq Stored' /\ tokens' \subseteq Stored'
  <2>1. CASE \E r \in Request : Inserts(r)
    <3>1. PICK r \in Request : Inserts(r)
      BY <2>1
    <3>2. Stored' = Stored \cup {r}
      BY <3>1, InsertCompany
    <3> QED BY <3>1, <3>2 DEF AccountsStored, Inserts, Insert
  <2>2. CASE ~\E r \in Request : Inserts(r)
    <3>1. accounts' \subseteq accounts
      BY <2>2 DEF Kind, Quiet, LogsIn, Arrives, Arrive, Authenticate, Looks, RemoveOne
    <3>2. tokens' \subseteq tokens \cup accounts
      BY <2>2 DEF Kind, Quiet, LogsIn, Arrives, Arrive, Authenticate, Looks, RemoveOne
    <3> QED BY <1>1, <3>1, <3>2 DEF AccountsStored
  <2> QED BY <2>1, <2>2
<1>4. \A r \in Stored' : (pc[r] = "done" /\ Registers(r))'
  <2>1. ASSUME NEW r \in Stored PROVE (pc[r] = "done" /\ Registers(r))'
    BY <1>1 DEF AccountsStored, Registers
  <2>2. ASSUME NEW r \in Request, Inserts(r) PROVE (pc[r] = "done" /\ Registers(r))'
    BY <2>2 DEF Inserts, Answer, PhaseOf, Registers
  <2> QED BY <1>2, <2>1, <2>2
<1>5. ASSUME NEW q \in Request
      PROVE  /\ user'[q] \in Stored' \cup {None}
             /\ req'[q].token \in tokens' \cup {None}
             /\ before'[q] \subseteq Stored'
  <2>1. user'[q] \in Stored \cup {None}
    BY DEF AccountsStored, Kind, Quiet, LogsIn, Arrives, Arrive, Authenticate, GoTo, Holders,
       Looks, Inserts, RemoveOne
  <2>2. req'[q].token \in tokens \cup {None}
    BY DEF AccountsStored, Kind, Quiet, LogsIn, Arrives, Arrive, Asks, Authenticate, GoTo,
       Looks, Inserts, Answer, RemoveOne
  <2>3. before'[q] \subseteq Stored
    BY DEF AccountsStored, Kind, Quiet, LogsIn, Arrives, Arrive, Authenticate, Looks,
       Inserts, RemoveOne
  <2> QED BY <1>1, <2>1, <2>2, <2>3
<1> QED BY <1>3, <1>4, <1>5 DEF AccountsStored

(* A member's company stays that of the account the guard found.           *)
LEMMA CompaniesStep ==
    ASSUME IndInv, Kind
    PROVE  CompaniesInherited'
<1> USE DEF IndInv, TypeOK, store, records, client
<1>0. \A q \in Request : user'[q] \in Request \cup {None}
  BY TypeStep
<1>1. /\ \A a \in Stored : /\ company'[a] = company[a] /\ req'[a] = req[a]
                           /\ user'[a] = user[a] /\ a \in Request
      /\ \A q \in Request : user[q] # None => user'[q] = user[q] /\ user[q] \in Stored
  BY Stable DEF Stored, AccountsStored
<1>2. ASSUME NEW q \in Request
      PROVE  /\ req'[q].op = "master" => user'[q] = None /\ req'[q].code # None
             /\ req'[q].op = "member" /\ pc'[q] \in {"check", "insert"} => user'[q] # None
             /\ pc'[q] = "remove" => user'[q] # None
  BY NullAssumption
     DEF CompaniesInherited, PhaseOf, Kind, Quiet, LogsIn, Arrives, Arrive, Asks,
         Authenticate, GoTo, AfterGuard, Holders, Looks, Inserts, Answer, RemoveOne
<1>3. ASSUME NEW q \in Request, req'[q].op = "member", q \in Stored'
      PROVE  user'[q] # None /\ company'[q] = company'[user'[q]]
  <2>1. CASE q \in Stored
    <3>1. user[q] # None
      BY <1>1, <1>3, <2>1, NullAssumption DEF CompaniesInherited, Stored
    <3> QED BY <1>1, <1>3, <2>1, <3>1 DEF CompaniesInherited
  <2>2. CASE q \notin Stored
    <3>1. Inserts(q)
      BY <1>3, <2>2, InsertCompany DEF Kind, Quiet, LogsIn, Arrives, Arrive, Authenticate, Looks,
         RemoveOne, Stored
    <3>2. company'[q] = company[user[q]] /\ user[q] # None
      BY <1>3, <3>1, InsertCompany DEF Inserts, Answer, CompanyFor, CompaniesInherited
    <3> QED BY <1>1, <3>2
  <2> QED BY <2>1, <2>2
<1>4. ASSUME NEW q \in Request, NEW a \in Request, removedBy'[a] = q
      PROVE  user'[q] # None /\ company'[a] = company'[user'[q]]
  <2>1. CASE removedBy[a] = q
    <3>1. user[q] # None /\ company[a] = company[user[q]] /\ user[q] \in Stored
      BY <1>1, <2>1 DEF CompaniesInherited
    <3>2. a \in Stored
      BY <3>1 DEF Stored
    <3> QED BY <1>1, <3>1, <3>2
  <2>2. CASE removedBy[a] # q
    <3>1. RemoveOne(q) /\ a \in Targets(q)
      BY <1>4, <2>2 DEF Kind, Quiet, LogsIn, Arrives, Arrive, Authenticate, Looks, Inserts,
         RemoveOne
    <3> QED BY <1>1, <3>1 DEF RemoveOne, Targets, CompaniesInherited
  <2> QED BY <2>1, <2>2
<1> QED BY <1>2, <1>3, <1>4 DEF CompaniesInherited

(* A lookup that found nobody had nobody to find.                          *)
LEMMA LookupStep ==
    ASSUME IndInv, Kind
    PROVE  LookupSawNone'
<1> USE DEF IndInv, TypeOK, store, records, client
<1> SUFFICES ASSUME NEW q \in Request,
                    pc'[q] = "insert" \/ q \in Stored', q \notin blind',
                    NEW a \in before'[q], a \in accounts'
             PROVE  EmailOf(a)' # EmailOf(q)'
  BY DEF LookupSawNone
<1>1. CASE Looks(q)
  <2>1. /\ pc[q] = "check" /\ UNCHANGED <<req, accounts, company>>
        /\ Holders(EmailOf(q)) = {}
    BY <1>1 DEF Looks, GoTo
  <2> QED BY <2>1 DEF Holders, EmailOf
<1>2. CASE ~Looks(q)
  <2>1. pc[q] = "insert" \/ q \in Stored
    <3>1. CASE \E r \in Request : Inserts(r)
      <4>1. PICK r \in Request : Inserts(r)
        BY <3>1
      <4>2. Stored' = Stored \cup {r}
        BY <4>1, InsertCompany
      <4>3. pc[r] = "insert" /\ pc' = [pc EXCEPT ![r] = "done"]
        BY <4>1 DEF Inserts, Answer
      <4> QED BY <4>2, <4>3
    <3>2. CASE ~\E r \in Request : Inserts(r)
      BY <1>2, <3>2 DEF Kind, Quiet, LogsIn, Arrives, Arrive, Asks, Authenticate, GoTo,
         AfterGuard, PhaseOf, Looks, RemoveOne, Stored
    <3> QED BY <3>1, <3>2
  <2>2. before'[q] = before[q]
    BY <1>2, <2>1 DEF Kind, Quiet, LogsIn, Arrives, Arrive, Authenticate, GoTo, Looks,
       Inserts, RemoveOne, AccountsStored, Stored
  <2>3. a \in Stored /\ a \in accounts /\ req'[a] = req[a]
    BY <2>2, Stable DEF AccountsStored
  <2>4. req'[q] = req[q] /\ q \notin blind
    BY <2>1, Stable
  <2> QED BY <2>1, <2>2, <2>3, <2>4 DEF LookupSawNone, EmailOf
<1> QED BY <1>1, <1>2

(* A race stays a race: what the two registrations saw is settled.         *)
LEMMA RacedStable ==
    ASSUME IndInv, Kind, NEW a \in Stored, NEW b \in Stored, Raced(a, b)
    PROVE  Raced(a, b)'
BY Stable DEF Raced, Unseen

(* No step stores a second account of an email without a race.             *)
LEMMA DuplicateStep ==
    ASSUME IndInv, Kind
    PROVE  DuplicateNeedsRace'
<1> USE DEF IndInv, TypeOK, store, records, client
<1> SUFFICES ASSUME NEW a \in accounts', NEW b \in accounts', a # b,
                    EmailOf(a)' = EmailOf(b)'
             PROVE  Raced(a, b)'
  BY DEF DuplicateNeedsRace
<1>1. CASE a \in accounts /\ b \in accounts
  <2>1. a \in Stored /\ b \in Stored
    BY <1>1 DEF AccountsStored
  <2>2. EmailOf(a) = EmailOf(b)
    BY <2>1, Stable DEF EmailOf
  <2> QED BY <1>1, <2>1, <2>2, RacedStable DEF DuplicateNeedsRace
<1>2. ASSUME NEW new \in accounts', NEW old \in accounts', new # old, new \notin accounts,
             EmailOf(new)' = EmailOf(old)'
      PROVE  Unseen(old, new)' /\ Unseen(new, old)'
  <2>1. new \in Request /\ Inserts(new)
    BY <1>2 DEF Kind, Quiet, LogsIn, Arrives, Arrive, Authenticate, Looks, Inserts, Insert,
       RemoveOne
  <2>2. /\ old \in accounts /\ pc[new] = "insert"
        /\ UNCHANGED <<req, blind, before>>
    BY <1>2, <2>1 DEF Inserts, Insert, Answer
  <2>3. Unseen(old, new)
    BY <1>2, <2>1, <2>2 DEF LookupSawNone, Unseen, EmailOf
  <2>4. Unseen(new, old)
    BY <2>1, <2>2, InsertCompany DEF Unseen, AccountsStored
  <2> QED BY <2>2, <2>3, <2>4 DEF Unseen
<1> QED BY <1>1, <1>2 DEF Raced

(* No step mistakes a client for another without a reason.                 *)
LEMMA IdentityStep ==
    ASSUME IndInv, Kind
    PROVE  IdentityNeedsReason'
<1> USE DEF IndInv, TypeOK, store, records, client
<1> SUFFICES ASSUME NEW q \in Request, user'[q] \notin {None, req'[q].token}
             PROVE  Switched(q)'
  BY DEF IdentityNeedsReason
<1>1. CASE user[q] # None
  <2>1. user'[q] = user[q] /\ req'[q] = req[q] /\ user[q] \in Stored
    BY <1>1, Stable DEF PhaseOf, AccountsStored
  <2> DEFINE t == req[q].token
  <2>2. t \notin accounts \/ Raced(t, user[q])
    BY <1>1, <2>1 DEF IdentityNeedsReason, Switched
  <2>3. t \in Stored \cup {None}
    BY DEF AccountsStored
  <2>4. t \notin accounts' \/ Raced(t, user[q])'
    <3>1. CASE t = None
      BY <3>1, TypeStep, NullAssumption
    <3>2. CASE t \in Stored /\ t \notin accounts
      BY <3>2, Stable
    <3>3. CASE t \in Stored /\ Raced(t, user[q])
      <4>1. Raced(t, user[q])'
        BY <2>1, <3>3, RacedStable DEF Raced, Unseen
      <4> QED BY <4>1
    <3> QED BY <2>2, <2>3, <3>1, <3>2, <3>3
  <2> QED BY <2>1, <2>4 DEF Switched, Raced, Unseen
<1>2. CASE user[q] = None
  <2>1. Authenticate(q)
    BY <1>2 DEF Kind, Quiet, LogsIn, Arrives, Arrive, Authenticate, Looks, Inserts, RemoveOne
  <2> DEFINE t == req[q].token
  <2>2. PICK a \in Holders(EmailOf(t)) : user' = [user EXCEPT ![q] = a]
    BY <2>1 DEF Authenticate
  <2>3. /\ a \in accounts /\ EmailOf(a) = EmailOf(t) /\ a # t /\ user'[q] = a
        /\ UNCHANGED <<req, accounts, blind>> /\ q \notin Stored
        /\ before' = [before EXCEPT ![q] = Stored]
    BY <2>1, <2>2 DEF Authenticate, GoTo, Holders, AccountsStored
  <2>4. ASSUME t \in accounts PROVE Raced(t, a)'
    <3>1. Raced(t, a)
      BY <2>3, <2>4 DEF DuplicateNeedsRace
    <3> QED BY <2>3, <2>4, <3>1 DEF Raced, Unseen, AccountsStored
  <2> QED BY <2>3, <2>4 DEF Switched, Raced, Unseen
<1> QED BY <1>1, <1>2
-----------------------------------------------------------------------------
(* The results.                                                            *)

(* The inductive invariant holds initially ...                             *)
LEMMA InvInit == Init => IndInv
<1> SUFFICES ASSUME Init PROVE IndInv
    OBVIOUS
<1> USE DEF Init
<1>1. Stored = {}
  BY DEF Stored
<1>2. TypeOK
  BY DEF TypeOK, Phase, Input, NoInput
<1>3. PhaseOf
  BY DEF PhaseOf, NoInput, Registers
<1>4. AccountsStored
  BY <1>1 DEF AccountsStored, NoInput
<1>5. CompaniesInherited
  BY <1>1, NullAssumption DEF CompaniesInherited, NoInput
<1>6. LookupSawNone /\ DuplicateNeedsRace
  BY <1>1 DEF LookupSawNone, DuplicateNeedsRace
<1>7. IdentityNeedsReason
  BY DEF IdentityNeedsReason, NoInput
<1> QED BY <1>2, <1>3, <1>4, <1>5, <1>6, <1>7 DEF IndInv

(* ... and every step keeps it.                                            *)
LEMMA InvStep == IndInv /\ [Next]_vars => IndInv'
<1> SUFFICES ASSUME IndInv, [Next]_vars PROVE IndInv'
    OBVIOUS
<1>1. Kind
  BY StepKinds DEF IndInv
<1> QED BY <1>1, TypeStep, PhaseStep, StoredStep, CompaniesStep, LookupStep, DuplicateStep,
           IdentityStep DEF IndInv

(* The facts of IndInv hold in every reachable state of the auth service.  *)
THEOREM Invariance == Spec => []IndInv
BY InvInit, InvStep, PTL DEF Spec

(* Every variable of Accounts keeps its type.                              *)
THEOREM TypeCorrect == Spec => []TypeOK
<1>1. IndInv => TypeOK
  BY DEF IndInv
<1> QED BY <1>1, Invariance, PTL

(* Two accounts share an email only if their registrations raced, or one   *)
(* of them went on although its lookup had failed (users.service.ts:201).  *)
THEOREM Duplicates == Spec => []DuplicateNeedsRace
<1>1. IndInv => DuplicateNeedsRace
  BY DEF IndInv
<1> QED BY <1>1, Invariance, PTL

(* The guard takes the holder of a token for somebody else only once the   *)
(* holder's account is gone, or if the two registrations raced.            *)
THEOREM Identity == Spec => []IdentityNeedsReason
<1>1. IndInv => IdentityNeedsReason
  BY DEF IndInv
<1> QED BY <1>1, Invariance, PTL

(* Members are created and removed in the company of the account that the  *)
(* token was signed for, as long as the guard finds that account.          *)
THEOREM Confinement == Spec => []CompanyConfinement
<1>1. IndInv => CompanyConfinement
  <2> SUFFICES ASSUME IndInv, NEW r \in Request, user[r] # None, ~Switched(r)
               PROVE  LET home == company[req[r].token] IN
                      /\ company[r] \in {None, home}
                      /\ \A a \in Request : removedBy[a] = r => company[a] = home
    BY DEF CompanyConfinement
  <2>1. user[r] = req[r].token
    BY DEF IndInv, IdentityNeedsReason
  <2>2. CASE r \notin Stored
    BY <2>1, <2>2 DEF IndInv, CompaniesInherited, Stored
  <2>3. CASE r \in Stored
    <3>1. req[r].op = "member"
      BY <2>3 DEF IndInv, AccountsStored, Registers, CompaniesInherited
    <3> QED BY <2>1, <2>3, <3>1 DEF IndInv, CompaniesInherited
  <2> QED BY <2>2, <2>3
<1> QED BY <1>1, Invariance, PTL
-----------------------------------------------------------------------------
(* The service implements the directory of accounts.                       *)
LEMMA DirectoryInit == Init => Directory!Init
BY DEF Init, Directory!Init, Directory!Enrolled, Stored

(* Every step registers a new account, removes one, or is none of the      *)
(* directory's business.                                                   *)
LEMMA DirectoryStep == IndInv /\ [Next]_vars => [Directory!Next]_(Directory!vars)
<1> SUFFICES ASSUME IndInv, [Next]_vars PROVE [Directory!Next]_(Directory!vars)
    OBVIOUS
<1> DEFINE Emails == [a \in Request |-> IF a \in Stored THEN EmailOf(a) ELSE None]
<1> USE DEF IndInv
<1>1. Kind
  BY StepKinds
<1>2. \A a \in Stored : req'[a] = req[a]
  BY <1>1, Stable
<1>3. ASSUME UNCHANGED <<accounts, company>> PROVE UNCHANGED Directory!vars
  <2>1. Emails' = Emails
    BY <1>2, <1>3 DEF Stored, EmailOf
  <2> QED BY <1>3, <2>1 DEF Directory!vars
<1>4. ASSUME NEW r \in Request, Inserts(r)
      PROVE  \E e \in Email, c \in Company : Directory!Register(r, e, c)
  <2>1. /\ r \notin Stored /\ company'[r] # None /\ Stored' = Stored \cup {r}
        /\ company' = [company EXCEPT ![r] = company'[r]]
    BY <1>4, InsertCompany DEF Inserts, Insert, TypeOK
  <2>2. /\ req[r].email \in Email /\ req' = req
        /\ accounts' = accounts \cup {r}
    BY <1>4 DEF Inserts, Answer, Insert, PhaseOf, Registers, TypeOK, Input
  <2>3. company'[r] \in Company
    BY <1>1, <2>1, TypeStep DEF TypeOK
  <2>4. Emails' = [Emails EXCEPT ![r] = req[r].email]
    BY <2>1, <2>2 DEF EmailOf
  <2>5. r \notin Directory!Enrolled
    BY <2>1 DEF Directory!Enrolled, Stored
  <2> QED BY <2>1, <2>2, <2>3, <2>4, <2>5 DEF Directory!Register
<1>5. ASSUME NEW r \in Request, RemoveOne(r)
      PROVE  \E a \in Request : Directory!Remove(a)
  <2>1. Emails' = Emails
    BY <1>2, <1>5 DEF RemoveOne, Stored, EmailOf
  <2> QED BY <1>5, <2>1 DEF RemoveOne, Targets, Directory!Remove, TypeOK
<1>6. \/ UNCHANGED <<accounts, company>>
      \/ \E r \in Request : Inserts(r) \/ RemoveOne(r)
  BY <1>1 DEF Kind, Quiet, LogsIn, Arrives, Arrive, Authenticate, Looks, store
<1> QED BY <1>3, <1>4, <1>5, <1>6 DEF Directory!Next

(* An account that a lookup finds keeps the email and the company it was   *)
(* registered with, and once removed it is never found again: no failing   *)
(* insert or lookup, no race and no crash undoes a removal                 *)
(* (user.repository.ts:17-23, users.service.ts:80-91).                     *)
THEOREM Refinement == Spec => DirectorySpec
BY DirectoryInit, DirectoryStep, Invariance, PTL DEF Spec, DirectorySpec, Directory!Spec
=============================================================================
