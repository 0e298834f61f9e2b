-------------------------- MODULE AccountDirectory --------------------------
(***************************************************************************)
(* What the services may rely on when they look accounts up: an account is *)
(* registered once, with an email and a company that never change after    *)
(* that, and one that was removed does not come back.  Nothing is promised *)
(* about who shares an email, nor for how long an account is kept.         *)
(***************************************************************************)
CONSTANTS
    Account,    \* the accounts there may ever be
    Email, Company,
    None        \* of an account that was never registered

VARIABLES
    email,      \* the email each account was registered with, or None
    company,    \* and its company
    stored      \* the accounts a lookup may find

vars == <<email, company, stored>>

Enrolled == {a \in Account : company[a] # None}

Init == /\ email \in [Account -> Email \cup {None}]
        /\ company \in [Account -> Company \cup {None}]
        /\ stored = Enrolled

(* A new account is registered. *)
Register(a, e, c) == /\ a \notin Enrolled
                     /\ email'   = [email EXCEPT ![a] = e]
                     /\ company' = [company EXCEPT ![a] = c]
                     /\ stored'  = stored \cup {a}

(* An account is removed. *)
Remove(a) == /\ a \in stored
             /\ stored' = stored \ {a}
             /\ UNCHANGED <<email, company>>

Next == \E a \in Account :
            \/ \E e \in Email, c \in Company : Register(a, e, c)
            \/ Remove(a)

Spec == Init /\ [][Next]_vars
=============================================================================
