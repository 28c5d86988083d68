---------------------------- MODULE MCJoinServer ----------------------------
(***************************************************************************)
(* JoinServer for TLC: clients and names are interchangeable, ids are      *)
(* numbers, because rows are sorted by them.                               *)
(***************************************************************************)
EXTENDS JoinServer, TLC

ClientsAndNames == Permutations(Clients) \cup Permutations(Names)
=============================================================================
