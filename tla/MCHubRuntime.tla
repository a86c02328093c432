---------------------------- MODULE MCHubRuntime ----------------------------
(***************************************************************************)
(* HubRuntime with two alerts on the target: "slow", an edge-triggered     *)
(* latency alert of priority 2, listed before "down", a loss alert of      *)
(* priority 1.  The sets of configs differ in what a reload may change.    *)
(***************************************************************************)
EXTENDS HubRuntime

MCNames == {"slow", "down"}
MCSamples == {[loss |-> 0, rtt |-> 1], [loss |-> 0, rtt |-> 9], [loss |-> 60, rtt |-> 9],
              [loss |-> 100, rtt |-> U]}

Web == [host |-> "web", params |-> "443"]
Mail == [host |-> "mail", params |-> "25"]

Slow(x) == [kind |-> "rtt", L |-> 5, X |-> x]
Down(x) == [kind |-> "loss", L |-> 50, X |-> x]

Def(slow, down, edge, to) ==
  [n \in MCNames |-> [matcher |-> IF n = "slow" THEN slow ELSE down, edge |-> edge,
                      priority |-> IF n = "slow" THEN 2 ELSE 1, to |-> to]]

Usual == [fp |-> Web, alerts |-> <<"slow", "down">>,
          def |-> Def(Slow(1), Down(2), TRUE, {"ops"}), alertee |-> {}]

(* Redefinitions: the target moves, to another host or to another port of  *)
(* the same, an alert is detached or redefined, the target has no alerts,  *)
(* or is removed.                                                          *)
Moved     == [Usual EXCEPT !.fp = Mail]
Ported    == [Usual EXCEPT !.fp = [host |-> "web", params |-> "22"]]
Unalerted == [Usual EXCEPT !.alerts = <<>>]
Detached  == [Usual EXCEPT !.alerts = <<"slow">>]
Redefined == [Usual EXCEPT !.def = Def(Slow(1), Down(1), TRUE, {"ops"})]
Removed   == [Usual EXCEPT !.fp = Absent, !.alerts = <<>>]
Redefinitions == {Usual, Moved, Ported, Detached, Redefined, Unalerted, Removed}

(* Changes of routing and of repetition.                                   *)
Rerouted  == [Usual EXCEPT !.def = Def(Slow(1), Down(2), TRUE, {"ops", "oncall"})]
Shared    == [Usual EXCEPT !.alertee = {"owner"}]
Repeating == [Usual EXCEPT !.def = Def(Slow(1), Down(2), FALSE, {"ops"})]
Routings == {Usual, Rerouted, Shared, Repeating}

MCConfigs == Redefinitions \cup Routings
=============================================================================
