----------------------------- MODULE MCPageWalk -----------------------------
(***************************************************************************)
(* A small instance of PageWalk.                                           *)
(***************************************************************************)
EXTENDS PageWalk, TLC

(* Months are interchangeable.                                             *)
Symmetry == Permutations(Month)
=============================================================================
