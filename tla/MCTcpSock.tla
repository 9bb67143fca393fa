----------------------------- MODULE MCTcpSock ------------------------------
(* A listening socket and two connections.  Cells, strings and descriptors *)
(* are interchangeable, the variables of the program too.                  *)
EXTENDS TcpSock, TLC

Symmetry ==
  UNION {Permutations(S) : S \in {Handles, Cells, Strings, Fds}}
=============================================================================
