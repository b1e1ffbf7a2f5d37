---------------------------- MODULE MCDaemonLife ----------------------------
(* DaemonLife on small instances. *)
EXTENDS DaemonLife, TLC

ClientSymmetry == Permutations(Clients)
=============================================================================
