------------------------------ MODULE MCTlstat ------------------------------
(***************************************************************************)
(* Instances of Tlstat for TLC.                                            *)
(***************************************************************************)
EXTENDS Tlstat, TLC

CONSTANTS p1

OneProcess == [t \in Threads |-> p1]
MCSizes == {3, 16}

(* Bound: the join adds to the totals of a finalized row at every tick     *)
(* (see FinalLeftAlone), without end.                                      *)
MaxTotal == 10
TotalsBounded ==
  \A sk \in Socks : conns[sk] # None => conns[sk].ptx <= MaxTotal /\ conns[sk].prx <= MaxTotal
=============================================================================
