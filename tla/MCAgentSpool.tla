---------------------------- MODULE MCAgentSpool ----------------------------
(***************************************************************************)
(* The spool on a file system with a journal, where anything may fail, and *)
(* on one without, where the power does.                                   *)
(***************************************************************************)
EXTENDS AgentSpool

WithJournal == [journaled |-> TRUE, segMax |-> 2, rounds |-> 3, kills |-> 1, errors |-> 1]
Unordered   == [journaled |-> FALSE, segMax |-> 1, rounds |-> 4, kills |-> 0, errors |-> 0]
MCSetups    == {WithJournal, Unordered}
=============================================================================
