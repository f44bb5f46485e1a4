------------------------------ MODULE MCLocker ------------------------------
(* Locker for TLC: the pages are interchangeable in the safety properties.  *)
EXTENDS Locker, TLC

Symmetry == Permutations(Views)
=============================================================================
