------------------------- MODULE ServicesInvariant -------------------------
(***************************************************************************)
(* The inductive invariant of Services: what is known of one request       *)
(* whatever the others do.                                                 *)
(***************************************************************************)
EXTENDS Services

CallsOf(r) == {Guard(r), Users(r), Companies(r)}

(* A handler waits for the reply its stage names, and for no other; an     *)
(* answer is given once.                                                   *)
WaitsInStage(r) ==
    /\ stage[r] = "idle" => \A c \in CallsOf(r) : caller[c] = "idle"
    /\ Bus!Waiting(Guard(r)) => stage[r] = "guard" /\ KindIn(r, AtReceipt)
    /\ Bus!Waiting(Users(r)) => stage[r] = "join" /\ KindIn(r, {"report"})
    /\ Bus!Waiting(Companies(r)) => stage[r] = "join" /\ KindIn(r, AtAuth)
    /\ status[r] # "none" => stage[r] = "done"

(* Who is found for a request being served is remembered as present.       *)
StoredArePresent(r) == Serving(r) => accounts \subseteq present[r]

(* What a reply on its way says was true when it was computed.             *)
GuardAnswerTrue(r) ==
    place[Guard(r)] = "reply" =>
        \/ answer[Guard(r)] = Failed
        \/ \E a \in present[r] : answer[Guard(r)] = {a} /\ EmailOf[a] = EmailOf[Token(r)]

CompanyAnswerTrue(r) ==
    place[Companies(r)] = "reply" =>
        answer[Companies(r)] \in {Failed, Named \cap {CompanyOf[m] : m \in members[r]}}

Admitted(r) ==
    (stage[r] \in {"query", "join"} \/ status[r] \notin {"none", "refused", "lost"})
        => Entitled(r)

CompaniesShown(r) ==
    Answered(r, "list") => body[r] = [m \in members[r] |-> NameIn(Named, CompanyOf[m])]

RequestInv(r) ==
    /\ WaitsInStage(r) /\ StoredArePresent(r)
    /\ GuardAnswerTrue(r) /\ CompanyAnswerTrue(r)
    /\ Admitted(r) /\ CompaniesShown(r)

HandlersInv == TypeOK /\ Bus!BusInv /\ \A r \in Request : RequestInv(r)
-----------------------------------------------------------------------------
(* On top of it, what the admin report rests on: the owners of the rows    *)
(* read were registered before, so an account that is not found will not   *)
(* come back.                                                              *)
OwnersKnown(r) == UserCodes(rows[r]) \cap future = {}

UsersAnswerTrue(r) ==
    place[Users(r)] = "reply" =>
        \/ answer[Users(r)] = Failed
        \/ /\ answer[Users(r)] \subseteq present[r]
           /\ accounts \cap UserCodes(rows[r]) \subseteq answer[Users(r)]

ReportTrue(r) ==
    Answered(r, "report") => Faithful(rows[r], body[r]) /\ NamesTrue(r)

ReportInv(r) == OwnersKnown(r) /\ UsersAnswerTrue(r) /\ ReportTrue(r)

IndInv == HandlersInv /\ \A r \in Request : ReportInv(r)
=============================================================================
