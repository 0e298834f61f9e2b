------------------------- MODULE AccountsInvariant --------------------------
(***************************************************************************)
(* The inductive invariant behind the safety properties of Accounts.       *)
(***************************************************************************)
EXTENDS Accounts

Registers(r) == req[r].op \in {"master", "member"}

(* What a handler is doing when it is suspended at a phase. *)
PhaseOf ==
    \A r \in Request :
        /\ pc[r] = "idle" => req[r] = NoInput
        /\ Registers(r) => req[r].email # None
        /\ pc[r] = "guard" => req[r].op \in {"member", "delete", "act"}
        /\ pc[r] \in {"check", "insert"} => Registers(r)
        /\ pc[r] = "remove" => req[r].op = "delete"
        /\ pc[r] = "act" => req[r].op = "act"
        /\ pc[r] \in {"idle", "guard"} => user[r] = None
        /\ pc[r] # "done" => response[r] = "none"

(* Accounts, and the tokens signed for them, come from registrations that  *)
(* are over; the documents of accounts do not change.                      *)
AccountsStored ==
    /\ accounts \subseteq Stored
    /\ tokens \subseteq Stored
    /\ \A r \in Stored : pc[r] = "done" /\ Registers(r)
    /\ \A r \in Request :
          /\ user[r] \in Stored \cup {None}
          /\ req[r].token \in tokens \cup {None}
          /\ before[r] \subseteq Stored

(* Whose company an account belongs to, and who may have removed it. *)
CompaniesInherited ==
    \A r \in Request :
        /\ req[r].op = "master" => user[r] = None /\ req[r].code # None
        /\ req[r].op = "member" /\ pc[r] \in {"check", "insert"} => user[r] # None
        /\ pc[r] = "remove" => user[r] # None
        /\ req[r].op = "member" /\ r \in Stored =>
                user[r] # None /\ company[r] = company[user[r]]
        /\ \A a \in Request : removedBy[a] = r =>
                user[r] # None /\ company[a] = company[user[r]]

(* A lookup that succeeded saw no account with the email. *)
LookupSawNone ==
    \A r \in Request :
        (pc[r] = "insert" \/ r \in Stored) /\ r \notin blind =>
            \A a \in before[r] \cap accounts : EmailOf(a) # EmailOf(r)

(* The inductive invariant: what the safety properties follow from,        *)
(* whatever step of the auth service comes next.                           *)
IndInv ==
    /\ TypeOK
    /\ PhaseOf
    /\ AccountsStored
    /\ CompaniesInherited
    /\ LookupSawNone
    /\ DuplicateNeedsRace
    /\ IdentityNeedsReason
=============================================================================
