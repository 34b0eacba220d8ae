---------------------------- MODULE MCTcpServer ----------------------------
(* TcpServer for TLC with up to two sub-reactors; with none it runs as      *)
(* RpcServer configures it.                                                 *)
EXTENDS TcpServer, TLC

CONSTANTS s1, s2

TwoSubLoops == <<s1, s2>>
Symmetry == Permutations(Conns) \cup Permutations(Callers)
=============================================================================
