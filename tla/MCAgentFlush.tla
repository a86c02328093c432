---------------------------- MODULE MCAgentFlush ----------------------------
(***************************************************************************)
(* AgentFlush on a small instance: four rounds, each small, large or       *)
(* undecodable; a buffer of three rounds and four size units; pushes of up *)
(* to three rounds, whose size may exceed what the hub takes, as may that  *)
(* of a single large round.  Every limit is reached.                       *)
(***************************************************************************)
EXTENDS AgentFlush

Small == [sz |-> 1, wellFormed |-> TRUE]
Large == [sz |-> 3, wellFormed |-> TRUE]
Broken == [sz |-> 1, wellFormed |-> FALSE]
MCShapes == {Small, Large, Broken}
=============================================================================
