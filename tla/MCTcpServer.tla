---------------------------- MODULE MCTcpServer ----------------------------
(* TcpServer for TLC: connections are interchangeable, so the safety run may  *)
(* use symmetry; the liveness run does not.                                   *)
EXTENDS TcpServer, TLC

ConnSymmetry == Permutations(Conns)
=============================================================================
