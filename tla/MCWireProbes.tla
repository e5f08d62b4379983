---------------------------- MODULE MCWireProbes ----------------------------
(***************************************************************************)
(* Instances of WireProbes for TLC: threads of one process.                *)
(***************************************************************************)
EXTENDS WireProbes, TLC

CONSTANT p1

OneProcess == [t \in Threads |-> p1]

\* The threads are interchangeable, and so are the socket addresses.
Symmetry == Permutations(Threads) \cup Permutations(Socks)
=============================================================================
