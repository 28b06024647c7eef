---------------------------- MODULE MCTcpServer ----------------------------
(***************************************************************************)
(* Instances of TcpServer for TLC.                                         *)
(***************************************************************************)
EXTENDS TcpServer, TLC

CONSTANTS t1, t2, c1, c2

MCConns == {c1, c2}
MCThreads == {t1, t2}
Symmetry == Permutations(MCConns) \cup Permutations(MCThreads)
=============================================================================
