----------------------------- MODULE MCWaitFor -----------------------------
(* A small instance of WaitFor: items and channels are interchangeable. *)
EXTENDS WaitFor, TLC

Symmetry == Permutations(Item) \cup Permutations(Channel)
=============================================================================
