----------------------------- MODULE AlertWatch -----------------------------
(***************************************************************************)
(* A matcher at work as the engine uses it: rounds arrive one at a time, a *)
(* window keeps as many of them as the longest of the target's matchers    *)
(* asks for, this one is tested on the window.  The result is compared     *)
(* with what the matcher's documentation says of the whole history.        *)
(***************************************************************************)
EXTENDS AlertMatcher

CONSTANTS
  Rounds,     \* the measurements [loss, rtt] that may arrive
  Matchers,   \* the matchers that may be at work
  Spare,      \* how much longer the target's longest matcher may be
  MaxSamples  \* bound: how many rounds arrive

(* What the parsers of matchers let through (requireLX, ParsePattern).     *)
IsMatcher(m) ==
  \/ /\ m.kind \in {"loss", "rtt"} /\ m.L \in Nat \ {0} /\ (m.kind = "loss" => m.L <= 100)
     /\ m.X \in Nat \ {0} /\ m.X <= maxAlertX
  \/ /\ m.kind = "pattern"
     /\ m.field \in {"loss", "rtt"} /\ m.steps \in Seq([op : STRING, val : Nat])
     /\ Accepted(m.field, m.steps)

ASSUME WatchAssumption ==
  /\ Rounds \subseteq [loss : Nat, rtt : Nat \cup {U}]
  /\ \A m \in Matchers : IsMatcher(m)
  /\ Spare \subseteq Nat
  /\ MaxSamples \in Nat

VARIABLES matcher, capacity, history, window, firing
watched == <<matcher, capacity, history, window, firing>>

InitWatch ==
  /\ matcher \in Matchers
  /\ capacity \in {Length(matcher) + s : s \in Spare}
  /\ history = <<>> /\ window = <<>> /\ firing = FALSE

NewRound(r) ==
  /\ Len(history) < MaxSamples
  /\ history' = Append(history, r)
  /\ window' = tailCopy(Append(window, r), capacity)
  /\ firing' = Test(matcher, window', firing)
  /\ UNCHANGED <<matcher, capacity>>

NextWatch == \E r \in Rounds : NewRound(r)

SpecWatch == InitWatch /\ [][NextWatch]_watched

-----------------------------------------------------------------------------
Bad(r) == LET v == r[matcher.kind] IN Known(v) /\ v >= matcher.L

Run(n) == {i \in DOMAIN history : i \in n - matcher.X + 1 .. n}
AllBad(n) == n >= matcher.X /\ \A i \in Run(n) : Bad(history[i])
AllGood(n) == n >= matcher.X /\ \A i \in Run(n) :
                Known(history[i][matcher.kind]) /\ ~Bad(history[i])

(* A loss or latency alert fires exactly when X consecutive rounds have    *)
(* been at or above the threshold and X consecutive known rounds under it  *)
(* have not come since.  In particular a lost round, which has no latency, *)
(* neither raises nor clears a latency alert.                              *)
HysteresisRemembers ==
  matcher.kind # "pattern" =>
    (firing <=> \E i \in DOMAIN history :
                  AllBad(i) /\ \A j \in i + 1 .. Len(history) : ~AllGood(j))

(* An assignment of samples to steps: step i takes the samples after       *)
(* cut[i-1] up to cut[i], the last of them the newest sample.              *)
Aligned(steps, series) ==
  \E cut \in [0 .. Len(steps) -> 0 .. Len(series)] :
    /\ cut[Len(steps)] = Len(series)
    /\ \A i \in DOMAIN steps :
         IF steps[i].op = "skip"
         THEN cut[i] - cut[i - 1] \in 0 .. steps[i].val
         ELSE cut[i] = cut[i - 1] + 1 /\ matchValue(steps[i], series[cut[i]])

(* A pattern fires exactly when its steps can be aligned with the newest   *)
(* rounds of the WHOLE history: the window, however deep, never hides or   *)
(* adds an alignment (the defect of the original program that             *)
(* Pattern.Length's comment names), and matching from the right finds one. *)
PatternSeesEnough ==
  matcher.kind = "pattern" =>
    (firing <=> Len(history) > 0 /\ Aligned(matcher.steps, Series(matcher.field, history)))

(* Whatever has been measured, an alert fires when its documentation says. *)
FiresAsDocumented == HysteresisRemembers /\ PatternSeesEnough
=============================================================================
