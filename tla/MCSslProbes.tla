----------------------------- MODULE MCSslProbes -----------------------------
(***************************************************************************)
(* Instances of SslProbes for TLC: a thread in each of two processes.      *)
(***************************************************************************)
EXTENDS SslProbes, TLC

CONSTANTS t1, t2, p1, p2

TwoProcesses == (t1 :> p1) @@ (t2 :> p2)

\* Pointer values are interchangeable, and so are socket addresses.
Symmetry == Permutations(Ptrs) \cup Permutations(Socks)
==============================================================================
