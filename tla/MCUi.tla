-------------------------------- MODULE MCUi --------------------------------
(***************************************************************************)
(* An instance of Ui for TLC: the connections are of one process, so that  *)
(* only their socket addresses tell them apart when sorted by process.     *)
(***************************************************************************)
EXTENDS Ui

MCPidOf == [c \in Conns |-> 7]
=============================================================================
