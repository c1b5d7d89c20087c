------------------------------ MODULE MCEvLoop ------------------------------
(* Small instances of EvLoop for TLC. *)
EXTENDS EvLoop, TLC

\* Workers are interchangeable, and so are requests: no step compares them.
Symmetry == Permutations(Workers) \union Permutations(Reqs)
=============================================================================
