---------------------------- MODULE StoreForward ----------------------------
(***************************************************************************)
(* What the agent's store-and-forward path promises, without saying how:   *)
(* every round it measures is held until the hub has answered for it,      *)
(* unless it is given up openly, as an overflow drop of the OLDEST round   *)
(* or as a round the hub will never take.  A stored round stays stored.    *)
(* AgentFlush (internal/agent) implements this.                            *)
(***************************************************************************)
EXTENDS Naturals

CONSTANT MaxRounds   \* bound: how many rounds are ever measured

VARIABLES next,      \* the sequence number of the next round to be measured
          status     \* what became of each round

Rounds == 0 .. MaxRounds - 1
Status == {"unmeasured", "held", "stored", "dropped", "rejected"}

Init == /\ next = 0
        /\ status = [r \in Rounds |-> "unmeasured"]

Mark(S, s) == [r \in Rounds |-> IF r \in S THEN s ELSE status[r]]

Held == {r \in Rounds : status[r] = "held"}

(* A round is measured; making room for it may drop the oldest held ones.  *)
Measure(S) ==
  /\ next \in Rounds
  /\ \A r \in S, q \in Held : q < r => q \in S
  /\ status' = [Mark(S, "dropped") EXCEPT ![next] = "held"]
  /\ next' = next + 1

(* The hub takes a set of rounds.  A round already given up may still turn *)
(* out to have been delivered: it was under way when it was given up.      *)
Store(S) ==
  /\ \A r \in S : status[r] \notin {"unmeasured", "stored"}
  /\ status' = Mark(S, "stored")
  /\ UNCHANGED next

(* The hub refuses a set of rounds for good.                               *)
Reject(S) ==
  /\ status' = Mark(S, "rejected")
  /\ UNCHANGED next

Next == \/ \E S \in SUBSET Held : Measure(S) \/ Reject(S)
        \/ \E S \in SUBSET Rounds : Store(S)

Spec == Init /\ [][Next]_<<next, status>>
=============================================================================
