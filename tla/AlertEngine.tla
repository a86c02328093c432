----------------------------- MODULE AlertEngine -----------------------------
(***************************************************************************)
(* The alert engine (internal/alert/engine.go), for one target measured    *)
(* from one vantage: what evaluating a round does to the window, to the    *)
(* alerts' firing state and to the recipients' view of it, and what of     *)
(* them a new engine inherits or is seeded with on a config reload         *)
(* (cmd/smoked/main.go).  Alerts of different targets and vantages do not  *)
(* interact: the engine keys all its state by both.                        *)
(*                                                                         *)
(* An engine is [win, state, visible]: the latest rounds, and per alert    *)
(* whether its matcher fires and whether its recipients believe it does.   *)
(* A config is [fp, alerts, def, alertee]: the target's measurement        *)
(* identity (Absent when the config has no such target), the names of the  *)
(* attached alerts in order, their definitions [matcher, edge, priority,   *)
(* to], and the target's own recipients.  An identity is [host, params].   *)
(***************************************************************************)
EXTENDS AlertMatcher, SequencesExt, FiniteSetsExt

CONSTANTS Names   \* the names of alerts

Absent == [host |-> "", params |-> ""]

Attached(c) == ToSet(c.alerts)
Recipients(c, n) == c.def[n].to \cup c.alertee
Fresh == [win |-> <<>>, state |-> [n \in Names |-> FALSE], visible |-> [n \in Names |-> FALSE]]

-----------------------------------------------------------------------------
(* Evaluate.                                                               *)

windowCap(c) == Max({1} \cup {Length(c.def[n].matcher) : n \in Attached(c)})

appendCap(s, v, cap) == tailCopy(Append(s, v), cap)

(* First pass: the firing state of every attached alert.                   *)
Tested(en, c, win) ==
  [n \in Names |-> IF n \in Attached(c) THEN Test(c.def[n].matcher, win, en.state[n])
                                        ELSE en.state[n]]

Outranks(c, m, n) == c.def[m].priority >= 1 /\ c.def[n].priority > c.def[m].priority

(* Second pass: an alert is suppressed while a strictly higher priority    *)
(* (a lower number, 0 being none) fires.                                   *)
Inhibited(c, state, n) == \E m \in Attached(c) : state[m] /\ Outranks(c, m, n)

(* Seeded fault: FIRING is keyed to the matcher's edge.                    *)
SurfacesOnEdge(en, c, state, n) ==
  n \in Attached(c) /\ state[n] /\ ~Inhibited(c, state, n) /\ ~en.state[n]

(* FIRING is emitted: an edge-triggered alert does not repeat.             *)
Surfaces(en, c, state, n) ==
  /\ n \in Attached(c) /\ state[n] /\ ~Inhibited(c, state, n)
  /\ ~(c.def[n].edge /\ en.visible[n])

(* RESOLVED is emitted.                                                    *)
Closes(en, c, state, n) == n \in Attached(c) /\ ~state[n] /\ en.visible[n]

Evaluate(en, c, round) ==
  LET win == appendCap(en.win, round, windowCap(c))
      state == Tested(en, c, win)
  IN [win |-> win, state |-> state,
      visible |-> [n \in Names |-> \/ Surfaces(en, c, state, n)
                                   \/ en.visible[n] /\ ~Closes(en, c, state, n)]]

-----------------------------------------------------------------------------
(* Reload.                                                                 *)

SameTarget(old, new) == old.fp = new.fp /\ new.fp # Absent /\ new.alerts # <<>>

KeepsState(old, new, n) ==
  /\ SameTarget(old, new)
  /\ n \in Attached(new)
  /\ old.def[n].matcher = new.def[n].matcher

(* Seeded fault: the target's own recipients are not compared.             *)
KeepsDeliveryByTo(old, new, n) == KeepsState(old, new, n) /\ old.def[n].to = new.def[n].to

KeepsDelivery(old, new, n) ==
  /\ KeepsState(old, new, n)
  /\ old.def[n].to = new.def[n].to
  /\ old.alertee = new.alertee

(* Seeded fault: the window survives a change of the target's identity.    *)
InheritStateFromAny(en, old, new, seed) ==
  [win |-> IF new.alerts # <<>> /\ en.win # <<>> THEN en.win ELSE seed,
   state |-> [n \in Names |-> KeepsState(old, new, n) /\ en.state[n]],
   visible |-> [n \in Names |-> KeepsDelivery(old, new, n) /\ en.visible[n]]]

(* The new engine: a live window replaces the seed.                        *)
InheritStateFrom(en, old, new, seed) ==
  [win |-> IF SameTarget(old, new) /\ en.win # <<>> THEN en.win ELSE seed,
   state |-> [n \in Names |-> KeepsState(old, new, n) /\ en.state[n]],
   visible |-> [n \in Names |-> KeepsDelivery(old, new, n) /\ en.visible[n]]]

(* The newest stored rounds that measured the config's host.  (The store   *)
(* keeps no fingerprint; probe kind, metric and cadence are left out.)     *)
recentContiguous(hist, c) ==
  LET breaks == {i \in DOMAIN hist : hist[i].fp.host # c.fp.host}
  IN tailCopy(hist, Len(hist) - Max({0} \cup breaks))

(* warmStartAlerts and SeedWindow.                                         *)
SeedWindow(hist, c) ==
  IF c.alerts = <<>> THEN <<>> ELSE tailCopy(recentContiguous(hist, c), windowCap(c))

(* A target whose identity the reload changes is not seeded.               *)
reloadSeed(hist, old, new) ==
  IF old.fp \notin {Absent, new.fp} THEN <<>> ELSE SeedWindow(hist, new)
=============================================================================
