------------------------------- MODULE MCPool -------------------------------
(* Small instances of Pool. *)
EXTENDS Pool, TLC

\* Openers differ only in name.
Interchangeable == Permutations(Openers)
=============================================================================
