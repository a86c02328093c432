---------------------------- MODULE AlertMatcher ----------------------------
(***************************************************************************)
(* The matchers of the alert engine (internal/alert/matcher.go): whether   *)
(* an alert should be firing, given the window of the latest rounds and    *)
(* whether it was firing.                                                  *)
(*                                                                         *)
(* A window is a sequence of rounds [loss, rtt], oldest first.  Loss is a  *)
(* percentage and rtt a number of time units; U is the missing median of a *)
(* lost round, the NaN of the code.  A matcher is [kind |-> "loss" or      *)
(* "rtt", L, X] (CheckLoss, CheckLatency), or [kind |-> "pattern", field,  *)
(* steps].  A step is [op, val]: a comparison, "any" (one sample) or       *)
(* "skip" (up to val samples).  The memo table of matchSteps, which saves  *)
(* work only, is left out.                                                 *)
(***************************************************************************)
EXTENDS Integers, Sequences, Functions

CONSTANTS maxAlertX,        \* longest skip
          maxPatternLength  \* deepest window of a pattern

ASSUME MatcherAssumption == maxAlertX \in Nat /\ maxPatternLength \in Nat \ {0}

U == -1
Known(v) == v # U

tailCopy(s, n) == IF Len(s) > n THEN SubSeq(s, Len(s) - n + 1, Len(s)) ELSE s
Series(field, w) == [i \in DOMAIN w |-> w[i][field]]

-----------------------------------------------------------------------------
(* Hysteresis.                                                             *)

(* Seeded fault: an unknown sample counts as one that fails the test.      *)
HysteresisNoHold(series, x, L, prev) ==
  LET tail == tailCopy(series, x)
  IN IF x <= 0 \/ Len(series) < x THEN prev
     ELSE IF prev THEN \E i \in DOMAIN tail : Known(tail[i]) /\ tail[i] >= L
                  ELSE \A i \in DOMAIN tail : Known(tail[i]) /\ tail[i] >= L

(* Raise iff the last x samples are all bad (at or above the threshold L), *)
(* clear iff none of them is; hold on a short series, and whenever one of  *)
(* the x is unknown.                                                       *)
hysteresis(series, x, L, prev) ==
  LET tail == tailCopy(series, x)
  IN IF x <= 0 \/ Len(series) < x \/ (\E i \in DOMAIN tail : ~Known(tail[i]))
     THEN prev
     ELSE IF prev THEN \E i \in DOMAIN tail : tail[i] >= L
                  ELSE \A i \in DOMAIN tail : tail[i] >= L

-----------------------------------------------------------------------------
(* Patterns.                                                               *)

Comparisons == {">", "<", ">=", "<=", "==", "!="}
Unknowns == {"==U", "!=U"}

compare(a, op, b) ==
  /\ Known(a)
  /\ \/ op = ">"  /\ a > b
     \/ op = "<"  /\ a < b
     \/ op = ">=" /\ a >= b
     \/ op = "<=" /\ a <= b
     \/ op = "==" /\ a = b
     \/ op = "!=" /\ a # b

matchValue(s, v) ==
  \/ s.op = "any"
  \/ s.op = "==U" /\ ~Known(v)
  \/ s.op = "!=U" /\ Known(v)
  \/ compare(v, s.op, s.val)

(* The ends of what one more step matches, after the ends of what the      *)
(* steps before it match.                                                  *)
MatchStep(s, series, before) ==
  IF s.op = "skip"
  THEN {pos \in 0 .. Len(series) : \E k \in 0 .. s.val : pos - k \in before}
  ELSE {pos \in 1 .. Len(series) : pos - 1 \in before /\ matchValue(s, series[pos])}

(* The steps match up to the newest sample; older ones may be left over.   *)
matchSteps(steps, series) ==
  LET ends[si \in 0 .. Len(steps)] ==
        IF si = 0 THEN 0 .. Len(series) ELSE MatchStep(steps[si], series, ends[si - 1])
  IN Len(series) \in ends[Len(steps)]

(* Pattern.Length: a sample per step, and the full allowance of each skip. *)
patternLength(steps) ==
  LET n == SumFunction([i \in DOMAIN steps |->
             IF steps[i].op = "skip" THEN steps[i].val ELSE 1])
  IN IF n < 1 THEN 1 ELSE n

(* What ParsePattern lets through.                                         *)
Accepted(field, steps) ==
  /\ \E i \in DOMAIN steps : steps[i].op \in Comparisons \cup Unknowns
  /\ \A i \in DOMAIN steps :
       /\ steps[i].op = "skip" => steps[i].val \in 0 .. maxAlertX
       /\ steps[i].op \in Unknowns => field = "rtt"
       /\ steps[i].op \in Comparisons =>
            steps[i].val >= 0 /\ (field = "loss" => steps[i].val <= 100)
  /\ patternLength(steps) <= maxPatternLength

-----------------------------------------------------------------------------
(* The Matcher interface.                                                  *)

Length(m) == IF m.kind = "pattern" THEN patternLength(m.steps) ELSE m.X

Test(m, w, prev) ==
  \/ m.kind = "loss" /\ hysteresis(Series("loss", w), m.X, m.L, prev)
  \/ m.kind = "rtt"  /\ hysteresis(Series("rtt", w), m.X, m.L, prev)
  \/ m.kind = "pattern" /\ m.steps # <<>> /\ matchSteps(m.steps, Series(m.field, w))
=============================================================================
