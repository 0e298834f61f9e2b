-------------------------- MODULE MCReceiptService --------------------------
(***************************************************************************)
(* Small instances of ReceiptService for TLC.                              *)
(***************************************************************************)
EXTENDS ReceiptInvariant, TLC

(* Requests are interchangeable.                                           *)
Symmetry == Permutations(Request)
=============================================================================
