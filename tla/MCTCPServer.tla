---------------------------- MODULE MCTCPServer ----------------------------
(* Instances of TCPServer for TLC. *)
EXTENDS TCPServer, TLC

\* Workers and connections are interchangeable: no definition of TCPServer
\* names one of them.
Symmetry == Permutations(Workers) \cup Permutations(Conns)
=============================================================================
