---------------------------- MODULE MCSendLater ----------------------------
(* Small instances of SendLater for TLC. *)
EXTENDS SendLater

\* Every prompt is for the one terminal.
OneHome == [p \in Prompts |-> CHOOSE t \in Terminals : TRUE]
=============================================================================
