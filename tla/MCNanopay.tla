----------------------------- MODULE MCNanopay ------------------------------
(***************************************************************************)
(* Small instances of Nanopay for TLC.                                     *)
(***************************************************************************)
EXTENDS Nanopay, TLC

Symmetry == Permutations(Directs) \cup Permutations(Urls)
=============================================================================
