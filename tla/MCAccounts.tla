----------------------------- MODULE MCAccounts -----------------------------
(***************************************************************************)
(* Small instances of Accounts for TLC.                                    *)
(***************************************************************************)
EXTENDS AccountsInvariant, TLC

(* Requests are interchangeable, and so are emails and companies.          *)
Symmetry == Permutations(Request) \cup Permutations(Email) \cup Permutations(Company)
=============================================================================
