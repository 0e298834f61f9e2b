----------------------------- MODULE MCServices -----------------------------
(***************************************************************************)
(* Small instances of Services.  One request of any kind, or for an admin  *)
(* report: two members of a company and three receipts of theirs; later    *)
(* eve may register with the email of ann, in a company that has no        *)
(* document.  Two requests, symmetric: of ann for her receipts or a list   *)
(* of members, of bob for his receipts or the report; pages of one entry.  *)
(***************************************************************************)
EXTENDS ServicesInvariant, TLC

CONSTANTS r1, r2, ann, bob, eve, c1, c2, mail1, mail2, x1, x2, x3

MCCompanyOf == ann :> c1 @@ bob :> c1 @@ eve :> c2
MCEmailOf   == ann :> mail1 @@ bob :> mail2 @@ eve :> mail1
MCOwner     == x1 :> ann @@ x2 :> bob @@ x3 :> ann

Asks(kind, token, target) == [kind |-> kind, user |-> token, target |-> target]

MCJob ==
    {Asks(k, ann, ann) : k \in {"report", "rows", "export", "list", "adminList"}}
    \cup {Asks("report", Nobody, ann), Asks("list", eve, eve), Asks("detail", bob, ann)}

ReportJob == {j \in MCJob : j.kind = "report"}

PairCompanyOf == ann :> c1 @@ bob :> c1
PairEmailOf   == ann :> mail1 @@ bob :> mail2
PairOwner     == x1 :> ann @@ x2 :> bob
PairJob       == {Asks("rows", ann, ann), Asks("rows", bob, bob),
                  Asks("report", bob, bob), Asks("list", ann, ann)}
Symmetry      == Permutations(Request)
=============================================================================
