------------------------------- MODULE MCEio -------------------------------
(* Small instances of Eio for TLC. *)
EXTENDS Eio, TLC

\* Requests are interchangeable, and so are addresses: no step compares them.
Symmetry == Permutations(Reqs) \union Permutations(Blocks)
=============================================================================
