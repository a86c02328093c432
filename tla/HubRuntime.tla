----------------------------- MODULE HubRuntime -----------------------------
(***************************************************************************)
(* The hub's alert path under live reconfiguration (cmd/smoked/main.go):   *)
(* rounds measured under one config arrive, perhaps under a later one; an  *)
(* accepted round is stored and evaluated under evalMu; a reload seeds a   *)
(* new engine from the store without evalMu, then inherits from the live   *)
(* engine and becomes the live runtime under evalMu; a restart loses the   *)
(* engine, not the store.  Reloads, by SIGHUP or by the config API, are    *)
(* serialized by applyMu.                                                  *)
(*                                                                         *)
(* One target, with an engine per vantage (AlertEngine).  Every recipient  *)
(* has a notifier, whose delivery is not part of this module.              *)
(***************************************************************************)
EXTENDS AlertEngine, FiniteSets

CONSTANTS
  Configs,      \* the configs a reload may install (see AlertEngine)
  Boot,         \* the config at first start
  Vantages,     \* where the target is measured
  Local,        \* the hub's own vantage (the target need not be measured there)
  Samples,      \* the measurements [loss, rtt] a round can have
  MaxRounds,    \* bound: how many rounds are measured
  MaxInFlight,  \* bound: how many of a vantage's rounds are under way
  MaxReloads,   \* bound: how often the config is reloaded
  MaxRestarts,  \* bound: how often the hub restarts
  HistoryKept   \* how many rounds a reader of the history gets

ASSUME HubAssumption ==
  /\ Boot \in Configs
  /\ MaxRounds \in Nat /\ MaxInFlight \in Nat /\ MaxReloads \in Nat /\ MaxRestarts \in Nat
  /\ HistoryKept \in Nat \ {0}
  /\ \A c \in Configs :
       /\ Attached(c) \subseteq Names
       /\ \A n \in Attached(c) : Length(c.def[n].matcher) \in 1 .. HistoryKept
       /\ c.fp = Absent => c.alerts = <<>>

VARIABLES
  cfg,       \* the live runtime's config
  eng,       \* the live runtime's engine, per vantage
  hist,      \* the newest stored rounds, per vantage
  flight,    \* rounds measured and not arrived, per vantage, oldest first
  swap,      \* the reload in progress, after its seed: {} or {[to, seed]}
  told,      \* history: recipients with an open FIRING, per vantage and alert
  seen,      \* history: what the window was made from, per vantage (see Reseeded)
  measured, reloads, restarts

vars == <<cfg, eng, hist, flight, swap, told, seen, measured, reloads, restarts>>

NoneTold == [n \in Names |-> {}]

(* Of a window: how many rounds it was given since it was seeded (counted  *)
(* up to HistoryKept); whether a round was stored since the reload in      *)
(* progress read its seed; whether a round stored then is missing between  *)
(* the seed and the rounds given since.                                    *)
Reseeded(late) == [rounds |-> 0, late |-> FALSE, gap |-> late]

Init ==
  /\ cfg = Boot
  /\ eng = [v \in Vantages |-> Fresh]
  /\ hist = [v \in Vantages |-> <<>>]
  /\ flight = [v \in Vantages |-> <<>>]
  /\ swap = {}
  /\ told = [v \in Vantages |-> NoneTold]
  /\ seen = [v \in Vantages |-> Reseeded(FALSE)]
  /\ measured = 0 /\ reloads = 0 /\ restarts = 0

(* A probe of the target completes; its round carries the identity it was  *)
(* measured under.                                                         *)
Measure(v, s) ==
  /\ measured < MaxRounds /\ Len(flight[v]) < MaxInFlight
  /\ cfg.fp # Absent
  /\ flight' = [flight EXCEPT ![v] =
       Append(@, [loss |-> s.loss, rtt |-> s.rtt, fp |-> cfg.fp])]
  /\ measured' = measured + 1
  /\ UNCHANGED <<cfg, eng, hist, swap, told, seen, reloads, restarts>>

(* What the notifications of an evaluation leave open.                     *)
Notified(v, new) ==
  [n \in Names |->
     IF Surfaces(eng[v], cfg, new.state, n)    THEN told[v][n] \cup Recipients(cfg, n)
     ELSE IF Closes(eng[v], cfg, new.state, n) THEN told[v][n] \ Recipients(cfg, n)
     ELSE told[v][n]]

(* Seeded fault: a round of an obsolete identity is not recognised.        *)
IsLiveUnchecked(round) == cfg.fp # Absent

IsLive(round) == round.fp = cfg.fp

(* A round arrives, and its target is still what it measured: it is stored *)
(* and, if the target has alerts, evaluated (storeLocal, commitRemote,     *)
(* eval).                                                                  *)
CommitRound(v) ==
  /\ flight[v] # <<>> /\ IsLive(Head(flight[v]))
  /\ flight' = [flight EXCEPT ![v] = Tail(@)]
  /\ hist' = [hist EXCEPT ![v] = appendCap(@, Head(flight[v]), HistoryKept)]
  /\ IF cfg.alerts # <<>>
     THEN LET new == Evaluate(eng[v], cfg, Head(flight[v]))
          IN /\ eng' = [eng EXCEPT ![v] = new]
             /\ told' = [told EXCEPT ![v] = Notified(v, new)]
     ELSE UNCHANGED <<eng, told>>
  /\ seen' = [seen EXCEPT ![v] =
       [rounds |-> IF cfg.alerts # <<>> THEN Min({@.rounds + 1, HistoryKept}) ELSE @.rounds,
        late |-> @.late \/ swap # {}, gap |-> @.gap]]
  /\ UNCHANGED <<cfg, swap, measured, reloads, restarts>>

(* A round of an obsolete identity is neither stored nor evaluated.        *)
DropRound(v) ==
  /\ flight[v] # <<>> /\ ~IsLive(Head(flight[v]))
  /\ flight' = [flight EXCEPT ![v] = Tail(@)]
  /\ UNCHANGED <<cfg, eng, hist, swap, told, seen, measured, reloads, restarts>>

(* A reload seeds its engine: the history of some vantages may be too old, *)
(* or unreadable.                                                          *)
SeedReload(c) ==
  /\ swap = {} /\ reloads < MaxReloads
  /\ reloads' = reloads + 1
  /\ \E read \in SUBSET Vantages :
       swap' = {[to |-> c, seed |->
                   [v \in Vantages |-> IF v \in read THEN reloadSeed(hist[v], cfg, c)
                                                     ELSE <<>>]]}
  /\ UNCHANGED <<cfg, eng, hist, flight, told, seen, measured, restarts>>

SameMeaning(old, new, n) ==
  /\ n \in Attached(old) \cap Attached(new)
  /\ old.fp = new.fp /\ old.def[n].matcher = new.def[n].matcher

(* swapRuntime, under evalMu.  What the new config means by an alert may   *)
(* no longer be what its recipients were told of: then nothing is open.    *)
SwapRuntime ==
  \E s \in swap :
    /\ cfg' = s.to
    /\ eng' = [v \in Vantages |-> InheritStateFrom(eng[v], cfg, s.to, s.seed[v])]
    /\ told' = [v \in Vantages |->
         [n \in Names |-> IF SameMeaning(cfg, s.to, n) THEN told[v][n] ELSE {}]]
    /\ seen' = [v \in Vantages |->
         IF SameTarget(cfg, s.to) /\ eng[v].win # <<>> THEN [seen[v] EXCEPT !.late = FALSE]
         ELSE Reseeded(seen[v].late)]
    /\ swap' = {}
    /\ UNCHANGED <<hist, flight, measured, reloads, restarts>>

(* The hub stops at any point and starts again, with the config a reload   *)
(* in progress had made permanent; remote agents keep their rounds.  Boot  *)
(* seeds without comparing identities.                                     *)
Restart ==
  /\ restarts < MaxRestarts
  /\ restarts' = restarts + 1
  /\ cfg' = IF swap = {} THEN cfg ELSE (CHOOSE s \in swap : TRUE).to
  /\ \E read \in SUBSET Vantages :
       eng' = [v \in Vantages |->
         [Fresh EXCEPT !.win = IF v \in read THEN SeedWindow(hist[v], cfg') ELSE <<>>]]
  /\ flight' = [flight EXCEPT ![Local] = <<>>]
  /\ swap' = {}
  /\ told' = [v \in Vantages |-> NoneTold]
  /\ seen' = [v \in Vantages |-> Reseeded(FALSE)]
  /\ UNCHANGED <<hist, measured, reloads>>

Next ==
  \/ \E v \in Vantages, s \in Samples : Measure(v, s)
  \/ \E v \in Vantages : CommitRound(v) \/ DropRound(v)
  \/ \E c \in Configs : SeedReload(c)
  \/ SwapRuntime
  \/ Restart

Spec == Init /\ [][Next]_vars
-----------------------------------------------------------------------------
(* Without a change of its recipients, an open FIRING is never forgotten:  *)
(* its close-out is still due, and an edge-triggered alert does not repeat *)
(* it.                                                                     *)
OpenFiringsRemembered ==
  \A v \in Vantages, n \in Names : told[v][n] # {} => eng[v].visible[n]

Evaluates(v) == CommitRound(v) /\ cfg.alerts # <<>>

(* A RESOLVED never reaches a recipient who was not told FIRING of the     *)
(* same alert: through inhibition, reloads that redefine, reattach or      *)
(* reroute an alert, and restarts.                                         *)
NoOrphanResolved ==
  [][\A v \in Vantages : Evaluates(v) =>
       \A n \in Names : Closes(eng[v], cfg, eng'[v].state, n) =>
         Recipients(cfg, n) \subseteq told[v][n]]_vars

(* Priority inhibition: an alert is not brought to its recipients' notice  *)
(* by a round in which one of strictly higher priority fires.              *)
InhibitedStaysQuiet ==
  [][\A v \in Vantages : Evaluates(v) =>
       \A m, n \in Attached(cfg) :
         eng'[v].visible[n] /\ ~eng[v].visible[n] /\ eng'[v].state[m] =>
           ~Outranks(cfg, m, n)]_vars

(* After every round each firing alert that no higher priority suppresses  *)
(* is known to all its recipients, also when it began to fire while it was *)
(* suppressed, or when they became its recipients later.                   *)
ActiveIsDelivered ==
  [][\A v \in Vantages : Evaluates(v) =>
       \A n \in Attached(cfg) :
         eng'[v].state[n] /\ (\A m \in Attached(cfg) : eng'[v].state[m] => ~Outranks(cfg, m, n))
           => Recipients(cfg, n) \subseteq told'[v][n]]_vars

Obsolete(win, c) == {r \in ToSet(win) : r.fp # c.fp}

(* A window never takes in a round measured under another definition of    *)
(* the target, but from the store, which keeps of a definition only the    *)
(* host: at a restart, and where a reload finds no live window of a target *)
(* it leaves as it is, or adds.  A reload that redefines the target keeps  *)
(* none (swapRuntime, reloadSeedTargets: "a redefined target starts with   *)
(* an empty window").                                                      *)
ObsoleteOnlyFromSeed ==
  [][\A v \in Vantages : \A r \in Obsolete(eng'[v].win, cfg') :
       \/ cfg'.fp = cfg.fp /\ r \in Obsolete(eng[v].win, cfg)
       \/ /\ r.fp.host = cfg'.fp.host
          /\ \/ Restart
             \/ SwapRuntime /\ eng[v].win = <<>> /\ cfg.fp \in {Absent, cfg'.fp}]_vars

LossAlerts == {n \in Attached(cfg) : cfg.def[n].matcher.kind = "loss"}

Due(v, n) ==
  LET h == hist'[v]
      x == cfg.def[n].matcher.X
      since == Min({x, seen'[v].rounds})
      due == IF seen'[v].gap THEN since ELSE x
  IN /\ due <= Len(h)
     /\ \A i \in Len(h) - due + 1 .. Len(h) :
          /\ h[i].loss >= cfg.def[n].matcher.L /\ h[i].fp.host = cfg.fp.host
          /\ i > Len(h) - since => h[i].fp = cfg.fp

(* A loss alert begins to fire only when the X rounds stored last are at   *)
(* or above its threshold and measured the target's host, those evaluated  *)
(* since the window was seeded the very target (docs/alerting.md: "raises  *)
(* once x consecutive rounds are all at or above l% loss").  Only a round  *)
(* stored while a reload was between its seed and its swap, with no live   *)
(* window to take over, is missed: then the rounds after the swap, if      *)
(* fewer than X, are at or above it, the seed's rounds making up the rest. *)
RaisesOnConsecutiveRounds ==
  [][\A v \in Vantages : Evaluates(v) =>
       \A n \in LossAlerts : eng'[v].state[n] /\ ~eng[v].state[n] => Due(v, n)]_vars
=============================================================================
