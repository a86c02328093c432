-------------------------- MODULE HubRuntimeProofs --------------------------
(***************************************************************************)
(* Proofs about HubRuntime, for every set of configs, alerts, vantages and *)
(* measurements and every number of rounds, reloads and restarts.          *)
(*                                                                         *)
(* NoOrphanResolved speaks of one step.  The invariant that carries it     *)
(* relates the engine's delivered bit to what recipients have been told:   *)
(* an alert that is visible is attached, and everyone its close-out would  *)
(* go to NOW has an open FIRING of it.  A reload keeps this because the    *)
(* delivered bit is inherited only with the routing it was delivered       *)
(* under.                                                                  *)
(*                                                                         *)
(* The second part is about what alerts are evaluated on.  A window holds  *)
(* rounds of the target's host (HostInv), and those it was given since it  *)
(* was seeded are the last of the stored history and of the live           *)
(* definition (FollowInv); the seed before them is what the history ended  *)
(* with, and nothing is missing between but what was stored while a reload *)
(* was between its seed and its swap.                                      *)
(*                                                                         *)
(* In the first two parts it does not matter what a matcher answers, but   *)
(* where a loss alert begins to fire.  The third part is about the answers *)
(* (AlertWatch): for every matcher and every stream of rounds they are     *)
(* what the matcher's documentation says of the whole history.             *)
(***************************************************************************)
EXTENDS HubRuntime, AlertWatch, FiniteSetTheorems, SequenceTheorems, WellFoundedInduction,
        TLAPS

(* Engines and history variables are functions on vantages and alerts.     *)
Shape ==
  /\ eng = [v \in Vantages |-> eng[v]]
  /\ told = [v \in Vantages |-> [n \in Names |-> told[v][n]]]

VisibleAreTold ==
  \A v \in Vantages, n \in Names :
    eng[v].visible[n] => n \in Attached(cfg) /\ Recipients(cfg, n) \subseteq told[v][n]

(* Only configs of the model are live or about to be.                      *)
KnownConfigs == cfg \in Configs /\ \A s \in swap : s.to \in Configs

IInv == Shape /\ KnownConfigs /\ VisibleAreTold

-----------------------------------------------------------------------------
(* Evaluating a round: who is visible afterwards, and who has been told.   *)
LEMMA EvaluateVisible ==
  ASSUME NEW v \in Vantages, NEW r, NEW n \in Names
  PROVE  LET new == Evaluate(eng[v], cfg, r)
         IN new.visible[n] <=> \/ Surfaces(eng[v], cfg, new.state, n)
                               \/ eng[v].visible[n] /\ ~Closes(eng[v], cfg, new.state, n)
BY DEF Evaluate

(* What CommitRound does to the engine and the history of its vantage.     *)
LEMMA CommitEffect ==
  ASSUME Shape, NEW v \in Vantages, CommitRound(v), cfg.alerts # <<>>
  PROVE  LET new == Evaluate(eng[v], cfg, Head(flight[v]))
         IN /\ eng'[v] = new
            /\ told'[v] = Notified(v, new)
            /\ \A w \in Vantages \ {v} : eng'[w] = eng[w] /\ told'[w] = told[w]
            /\ cfg' = cfg
<1> DEFINE new == Evaluate(eng[v], cfg, Head(flight[v]))
<1> HIDE DEF new
<1>1. /\ eng' = [eng EXCEPT ![v] = new]
      /\ told' = [told EXCEPT ![v] = Notified(v, new)]
      /\ cfg' = cfg
  BY DEF CommitRound, new
<1>2. v \in DOMAIN eng /\ v \in DOMAIN told
  BY DEF Shape
<1>. QED  BY <1>1, <1>2 DEF new, Shape

LEMMA CommitIInv ==
  ASSUME IInv, NEW v \in Vantages, CommitRound(v)
  PROVE  IInv'
<1>1. CASE cfg.alerts = <<>>
  BY <1>1 DEF CommitRound, IInv, Shape, KnownConfigs, VisibleAreTold
<1>2. CASE cfg.alerts # <<>>
  <2> DEFINE new == Evaluate(eng[v], cfg, Head(flight[v]))
  <2>1. /\ eng'[v] = new
        /\ told'[v] = Notified(v, new)
        /\ \A w \in Vantages \ {v} : eng'[w] = eng[w] /\ told'[w] = told[w]
        /\ cfg' = cfg
    BY <1>2, CommitEffect DEF IInv
  <2>2. \A n \in Names :
          new.visible[n] <=> \/ Surfaces(eng[v], cfg, new.state, n)
                             \/ eng[v].visible[n] /\ ~Closes(eng[v], cfg, new.state, n)
    BY EvaluateVisible
  <2> HIDE DEF new
  <2>3. Shape'
    <3>1. /\ eng' = [eng EXCEPT ![v] = new]
          /\ told' = [told EXCEPT ![v] = Notified(v, new)]
      BY <1>2 DEF CommitRound, new
    <3>2. Notified(v, new) = [n \in Names |-> Notified(v, new)[n]]
      BY DEF Notified
    <3>. QED  BY <3>1, <3>2 DEF IInv, Shape
  <2>4. ASSUME NEW w \in Vantages, NEW n \in Names, eng'[w].visible[n]
        PROVE  n \in Attached(cfg) /\ Recipients(cfg, n) \subseteq told'[w][n]
    <3>1. CASE w # v
      BY <3>1, <2>1, <2>4 DEF IInv, VisibleAreTold
    <3>2. CASE w = v /\ Surfaces(eng[v], cfg, new.state, n)
      BY <3>2, <2>1 DEF Notified, Surfaces
    <3>3. CASE w = v /\ ~Surfaces(eng[v], cfg, new.state, n)
      <4>1. eng[v].visible[n] /\ ~Closes(eng[v], cfg, new.state, n)
        BY <3>3, <2>1, <2>2, <2>4
      <4>2. told'[v][n] = told[v][n]
        BY <3>3, <4>1, <2>1 DEF Notified
      <4>. QED  BY <3>3, <4>1, <4>2 DEF IInv, VisibleAreTold
    <3>. QED  BY <3>1, <3>2, <3>3
  <2>5. VisibleAreTold'
    BY <2>1, <2>4 DEF VisibleAreTold, Attached, Recipients
  <2>6. KnownConfigs'
    BY DEF CommitRound, IInv, KnownConfigs
  <2>. QED  BY <2>3, <2>5, <2>6 DEF IInv
<1>. QED  BY <1>1, <1>2

(* A reload: the delivered bit comes with attachment, meaning and routing. *)
LEMMA SwapIInv ==
  ASSUME IInv, SwapRuntime
  PROVE  IInv'
<1>1. PICK s \in swap :
        /\ cfg' = s.to
        /\ eng' = [v \in Vantages |-> InheritStateFrom(eng[v], cfg, s.to, s.seed[v])]
        /\ told' = [v \in Vantages |->
             [n \in Names |-> IF SameMeaning(cfg, s.to, n) THEN told[v][n] ELSE {}]]
  BY DEF SwapRuntime
<1>2. Shape'
  BY <1>1 DEF Shape
<1>3. ASSUME NEW v \in Vantages, NEW n \in Names, eng'[v].visible[n]
      PROVE  n \in Attached(s.to) /\ Recipients(s.to, n) \subseteq told'[v][n]
  <2>1. KeepsDelivery(cfg, s.to, n) /\ eng[v].visible[n]
    BY <1>1, <1>3 DEF InheritStateFrom
  <2>2. n \in Attached(cfg) /\ Recipients(cfg, n) \subseteq told[v][n]
    BY <2>1 DEF IInv, VisibleAreTold
  <2>3. SameMeaning(cfg, s.to, n)
    BY <2>1, <2>2 DEF SameMeaning, KeepsDelivery, KeepsState, SameTarget
  <2>4. Recipients(s.to, n) = Recipients(cfg, n)
    BY <2>1 DEF KeepsDelivery, Recipients
  <2>5. told'[v][n] = told[v][n]
    BY <1>1, <2>3
  <2>6. n \in Attached(s.to)
    BY <2>1 DEF KeepsDelivery, KeepsState
  <2>. QED  BY <2>2, <2>4, <2>5, <2>6
<1>4. VisibleAreTold'
  BY <1>1, <1>3 DEF VisibleAreTold, Attached, Recipients
<1>5. KnownConfigs'
  BY <1>1 DEF SwapRuntime, IInv, KnownConfigs
<1>. QED  BY <1>2, <1>4, <1>5 DEF IInv

LEMMA RestartIInv ==
  ASSUME IInv, Restart
  PROVE  IInv'
<1>1. PICK read \in SUBSET Vantages :
        eng' = [v \in Vantages |->
          [Fresh EXCEPT !.win = IF v \in read THEN SeedWindow(hist[v], cfg') ELSE <<>>]]
  BY DEF Restart
<1>2. told' = [v \in Vantages |-> NoneTold]
  BY DEF Restart
<1>3. Shape'
  BY <1>1, <1>2 DEF Shape, NoneTold
<1>4. \A v \in Vantages, n \in Names : ~eng'[v].visible[n]
  BY <1>1 DEF Fresh
<1>5. VisibleAreTold'
  BY <1>4 DEF VisibleAreTold
<1>6. KnownConfigs'
  BY DEF Restart, IInv, KnownConfigs
<1>. QED  BY <1>3, <1>5, <1>6 DEF IInv

THEOREM Invariance == Spec => []IInv
<1>1. Init => IInv
  BY HubAssumption DEF Init, IInv, Shape, KnownConfigs, VisibleAreTold, Fresh, NoneTold
<1>2. IInv /\ [Next]_vars => IInv'
  <2> SUFFICES ASSUME IInv, [Next]_vars PROVE IInv'
    OBVIOUS
  <2> USE DEF IInv, Shape, KnownConfigs, VisibleAreTold
  <2>1. ASSUME NEW v \in Vantages, NEW s \in Samples, Measure(v, s) PROVE IInv'
    BY <2>1 DEF Measure
  <2>2. ASSUME NEW v \in Vantages, CommitRound(v) PROVE IInv'
    BY <2>2, CommitIInv
  <2>3. ASSUME NEW v \in Vantages, DropRound(v) PROVE IInv'
    BY <2>3 DEF DropRound
  <2>4. ASSUME NEW c \in Configs, SeedReload(c) PROVE IInv'
    BY <2>4 DEF SeedReload
  <2>5. CASE SwapRuntime
    BY <2>5, SwapIInv
  <2>6. CASE Restart
    BY <2>6, RestartIInv
  <2>7. CASE UNCHANGED vars
    BY <2>7 DEF vars
  <2>. QED  BY <2>1, <2>2, <2>3, <2>4, <2>5, <2>6, <2>7 DEF Next
<1>. QED  BY <1>1, <1>2, PTL DEF Spec

-----------------------------------------------------------------------------
(* No RESOLVED reaches a recipient without an open FIRING of the alert,    *)
(* whatever reloads and restarts came between (engine.go, InheritStateFrom *)
(* and the visible bit).                                                   *)
THEOREM CloseOutsFollowFirings == Spec => NoOrphanResolved
<1>1. IInv =>
        \A v \in Vantages : Evaluates(v) =>
          \A n \in Names : Closes(eng[v], cfg, eng'[v].state, n) =>
            Recipients(cfg, n) \subseteq told[v][n]
  BY DEF IInv, VisibleAreTold, Closes
<1>2. IInv =>
        [\A v \in Vantages : Evaluates(v) =>
           \A n \in Names : Closes(eng[v], cfg, eng'[v].state, n) =>
             Recipients(cfg, n) \subseteq told[v][n]]_vars
  BY <1>1
<1>. QED  BY <1>2, Invariance, PTL DEF NoOrphanResolved

(* What an evaluated round does, in the terms of the two properties below. *)
LEMMA EvaluatesEffect ==
  ASSUME IInv, NEW v \in Vantages, Evaluates(v), NEW n \in Attached(cfg)
  PROVE  /\ n \in Names
         /\ eng'[v].visible[n] <=>
              \/ Surfaces(eng[v], cfg, eng'[v].state, n)
              \/ eng[v].visible[n] /\ ~Closes(eng[v], cfg, eng'[v].state, n)
         /\ told'[v] = Notified(v, eng'[v])
<1>1. n \in Names
  BY HubAssumption DEF IInv, KnownConfigs
<1>. QED  BY <1>1, CommitEffect, EvaluateVisible DEF IInv, Evaluates

(* An alert becomes visible only in a round in which none of strictly      *)
(* higher priority fires (engine.go, the second pass of Evaluate).         *)
THEOREM InhibitionHolds == Spec => InhibitedStaysQuiet
<1>1. ASSUME IInv, NEW v \in Vantages, Evaluates(v),
             NEW m \in Attached(cfg), NEW n \in Attached(cfg),
             eng'[v].visible[n], ~eng[v].visible[n], eng'[v].state[m]
      PROVE  ~Outranks(cfg, m, n)
  BY <1>1, EvaluatesEffect DEF Surfaces, Inhibited
<1>2. IInv =>
        [\A v \in Vantages : Evaluates(v) =>
           \A m, n \in Attached(cfg) :
             eng'[v].visible[n] /\ ~eng[v].visible[n] /\ eng'[v].state[m] =>
               ~Outranks(cfg, m, n)]_vars
  BY <1>1
<1>. QED  BY <1>2, Invariance, PTL DEF InhibitedStaysQuiet

(* After every round, a firing alert that nothing suppresses is known to   *)
(* all its recipients (engine.go: emission is keyed to visible, not to the *)
(* matcher's edge).                                                        *)
THEOREM ActiveAlertsReachRecipients == Spec => ActiveIsDelivered
<1>1. ASSUME IInv, NEW v \in Vantages, Evaluates(v), NEW n \in Attached(cfg),
             eng'[v].state[n], \A m \in Attached(cfg) : eng'[v].state[m] => ~Outranks(cfg, m, n)
      PROVE  Recipients(cfg, n) \subseteq told'[v][n]
  <2>1. n \in Names /\ told'[v] = Notified(v, eng'[v])
    BY <1>1, EvaluatesEffect
  <2>2. ~Closes(eng[v], cfg, eng'[v].state, n)
    BY <1>1 DEF Closes
  <2>3. CASE Surfaces(eng[v], cfg, eng'[v].state, n)
    BY <2>1, <2>3 DEF Notified
  <2>4. CASE ~Surfaces(eng[v], cfg, eng'[v].state, n)
    <3>1. eng[v].visible[n]
      BY <1>1, <2>4 DEF Surfaces, Inhibited
    <3>2. told'[v][n] = told[v][n]
      BY <2>1, <2>2, <2>4 DEF Notified
    <3>. QED  BY <1>1, <2>1, <3>1, <3>2 DEF IInv, VisibleAreTold
  <2>. QED  BY <2>3, <2>4
<1>2. IInv =>
        [\A v \in Vantages : Evaluates(v) =>
           \A n \in Attached(cfg) :
             eng'[v].state[n] /\ (\A m \in Attached(cfg) : eng'[v].state[m] => ~Outranks(cfg, m, n))
               => Recipients(cfg, n) \subseteq told'[v][n]]_vars
  BY <1>1
<1>. QED  BY <1>2, Invariance, PTL DEF ActiveIsDelivered

-----------------------------------------------------------------------------
(* Reloads leave the recipients of every alert alone.                      *)
FixedRouting ==
  \A c, d \in Configs :
    c.alertee = d.alertee /\ \A n \in Names : c.def[n].to = d.def[n].to

OnlyRecipientsTold ==
  \A v \in Vantages, n \in Names : told[v][n] \subseteq Recipients(cfg, n)

RInv == IInv /\ OpenFiringsRemembered /\ OnlyRecipientsTold

LEMMA CommitRInv ==
  ASSUME RInv, IInv', NEW v \in Vantages, CommitRound(v)
  PROVE  RInv'
<1>1. CASE cfg.alerts = <<>>
  BY <1>1 DEF CommitRound, RInv, OpenFiringsRemembered, OnlyRecipientsTold, Recipients
<1>2. CASE cfg.alerts # <<>>
  <2> DEFINE new == Evaluate(eng[v], cfg, Head(flight[v]))
  <2>1. /\ eng'[v] = new
        /\ told'[v] = Notified(v, new)
        /\ \A w \in Vantages \ {v} : eng'[w] = eng[w] /\ told'[w] = told[w]
        /\ cfg' = cfg
    BY <1>2, CommitEffect DEF RInv, IInv
  <2>2. \A n \in Names :
          new.visible[n] <=> \/ Surfaces(eng[v], cfg, new.state, n)
                             \/ eng[v].visible[n] /\ ~Closes(eng[v], cfg, new.state, n)
    BY EvaluateVisible
  <2> HIDE DEF new
  <2>3. ASSUME NEW w \in Vantages, NEW n \in Names
        PROVE  /\ told'[w][n] # {} => eng'[w].visible[n]
               /\ told'[w][n] \subseteq Recipients(cfg, n)
    <3>1. CASE w # v
      BY <3>1, <2>1 DEF RInv, OpenFiringsRemembered, OnlyRecipientsTold
    <3>2. CASE w = v /\ Surfaces(eng[v], cfg, new.state, n)
      BY <3>2, <2>1, <2>2 DEF Notified, RInv, OnlyRecipientsTold
    <3>3. CASE w = v /\ ~Surfaces(eng[v], cfg, new.state, n) /\ Closes(eng[v], cfg, new.state, n)
      BY <3>3, <2>1, <2>2 DEF Notified, RInv, OnlyRecipientsTold
    <3>4. CASE w = v /\ ~Surfaces(eng[v], cfg, new.state, n) /\ ~Closes(eng[v], cfg, new.state, n)
      BY <3>4, <2>1, <2>2 DEF Notified, RInv, OpenFiringsRemembered, OnlyRecipientsTold
    <3>. QED  BY <3>1, <3>2, <3>3, <3>4
  <2>4. OpenFiringsRemembered' /\ OnlyRecipientsTold'
    BY <2>1, <2>3 DEF OpenFiringsRemembered, OnlyRecipientsTold, Recipients
  <2>. QED  BY <2>4 DEF RInv
<1>. QED  BY <1>1, <1>2

LEMMA SwapRInv ==
  ASSUME FixedRouting, RInv, IInv', SwapRuntime
  PROVE  RInv'
<1>1. PICK s \in swap :
        /\ cfg' = s.to
        /\ eng' = [v \in Vantages |-> InheritStateFrom(eng[v], cfg, s.to, s.seed[v])]
        /\ told' = [v \in Vantages |->
             [n \in Names |-> IF SameMeaning(cfg, s.to, n) THEN told[v][n] ELSE {}]]
  BY DEF SwapRuntime
<1>2. cfg \in Configs /\ s.to \in Configs
  BY DEF RInv, IInv, KnownConfigs
<1>3. ASSUME NEW v \in Vantages, NEW n \in Names
      PROVE  /\ told'[v][n] # {} => eng'[v].visible[n]
             /\ told'[v][n] \subseteq Recipients(s.to, n)
  <2>1. CASE told'[v][n] = {}
    BY <2>1
  <2>2. CASE told'[v][n] # {}
    <3>1. SameMeaning(cfg, s.to, n) /\ told'[v][n] = told[v][n] /\ told[v][n] # {}
      BY <1>1, <2>2
    <3>2. eng[v].visible[n] /\ told[v][n] \subseteq Recipients(cfg, n)
      BY <3>1 DEF RInv, OpenFiringsRemembered, OnlyRecipientsTold
    <3>3. s.to.alerts # <<>>
      BY <3>1 DEF SameMeaning, Attached, ToSet
    <3>4. SameTarget(cfg, s.to)
      BY <3>1, <3>3, <1>2, HubAssumption DEF SameMeaning, SameTarget
    <3>5. cfg.def[n].to = s.to.def[n].to /\ cfg.alertee = s.to.alertee
      BY <1>2 DEF FixedRouting
    <3>6. KeepsDelivery(cfg, s.to, n)
      BY <3>1, <3>4, <3>5 DEF KeepsDelivery, KeepsState, SameMeaning
    <3>7. eng'[v].visible[n]
      BY <1>1, <3>2, <3>6 DEF InheritStateFrom
    <3>8. Recipients(cfg, n) = Recipients(s.to, n)
      BY <3>5 DEF Recipients
    <3>. QED  BY <3>1, <3>2, <3>7, <3>8
  <2>. QED  BY <2>1, <2>2
<1>4. OpenFiringsRemembered' /\ OnlyRecipientsTold'
  BY <1>1, <1>3 DEF OpenFiringsRemembered, OnlyRecipientsTold, Recipients
<1>. QED  BY <1>4 DEF RInv

(* As long as reloads leave the routing alone, an alert somebody has been  *)
(* told of is never forgotten while it means the same: its close-out stays *)
(* due, and an edge-triggered alert is not announced again.                *)
THEOREM OpenFiringsStayKnown == FixedRouting => (Spec => []OpenFiringsRemembered)
<1> SUFFICES ASSUME FixedRouting PROVE Spec => []OpenFiringsRemembered
  OBVIOUS
<1>1. Init => OpenFiringsRemembered /\ OnlyRecipientsTold
  BY DEF Init, OpenFiringsRemembered, OnlyRecipientsTold, NoneTold
<1>2. RInv /\ IInv' /\ [Next]_vars => RInv'
  <2> SUFFICES ASSUME RInv, IInv', [Next]_vars PROVE RInv'
    OBVIOUS
  <2> USE DEF RInv, OpenFiringsRemembered, OnlyRecipientsTold, Recipients
  <2>1. ASSUME NEW v \in Vantages, NEW s \in Samples, Measure(v, s) PROVE RInv'
    BY <2>1 DEF Measure
  <2>2. ASSUME NEW v \in Vantages, CommitRound(v) PROVE RInv'
    BY <2>2, CommitRInv
  <2>3. ASSUME NEW v \in Vantages, DropRound(v) PROVE RInv'
    BY <2>3 DEF DropRound
  <2>4. ASSUME NEW c \in Configs, SeedReload(c) PROVE RInv'
    BY <2>4 DEF SeedReload
  <2>5. CASE SwapRuntime
    BY <2>5, SwapRInv
  <2>6. CASE Restart
    BY <2>6 DEF Restart, NoneTold
  <2>7. CASE UNCHANGED vars
    BY <2>7 DEF vars
  <2>. QED  BY <2>1, <2>2, <2>3, <2>4, <2>5, <2>6, <2>7 DEF Next
<1>3. IInv /\ OpenFiringsRemembered /\ OnlyRecipientsTold <=> RInv
  BY DEF RInv
<1>. QED  BY <1>1, <1>2, <1>3, Invariance, PTL DEF Spec
-----------------------------------------------------------------------------
(* The greatest of a set of numbers, and tails of sequences.               *)
LEMMA LeastNumber ==
  ASSUME NEW T \in SUBSET Nat, T # {}
  PROVE  \E x \in T : \A y \in T : x <= y
<1>1. PICK x \in T : \A y \in T : ~(<<y, x>> \in OpToRel(<, Nat))
  BY NatLessThanWellFounded, WFMin
<1>2. ASSUME NEW y \in T PROVE x <= y
  <2>1. ~(<<y, x>> \in {ss \in Nat \X Nat : ss[1] < ss[2]})
    BY <1>1 DEF OpToRel
  <2>. QED  BY <2>1
<1>. QED  BY <1>2

LEMMA GreatestNumber ==
  ASSUME NEW T \in SUBSET Nat, T # {}, NEW b \in Nat, \A y \in T : y <= b
  PROVE  \E x \in T : \A y \in T : y <= x
<1>. DEFINE D == {b - y : y \in T}
<1>1. D \in SUBSET Nat /\ D # {}
  <2>1. \A y \in T : b - y \in Nat
    OBVIOUS
  <2>2. PICK y \in T : TRUE
    OBVIOUS
  <2>. QED  BY <2>1, <2>2
<1>2. PICK u \in D : \A v \in D : u <= v
  <2>. HIDE DEF D
  <2>. QED  BY <1>1, LeastNumber
<1>3. PICK x \in T : u = b - x
  OBVIOUS
<1>4. ASSUME NEW y \in T PROVE y <= x
  <2>1. b - x <= b - y
    BY <1>2, <1>3
  <2>. QED  BY <2>1
<1>. QED  BY <1>4

LEMMA MaxIs ==
  ASSUME NEW T \in SUBSET Nat, T # {}, NEW b \in Nat, \A y \in T : y <= b
  PROVE  Max(T) \in T /\ \A y \in T : y <= Max(T)
<1>1. \E x \in T : \A y \in T : x >= y
  BY GreatestNumber
<1>2. Max(T) \in T /\ \A y \in T : Max(T) >= y
  BY <1>1 DEF Max
<1>. QED  BY <1>2

(* t is what s ends with.                                                  *)
IsTail(t, s) ==
  /\ Len(t) <= Len(s)
  /\ \A i \in 1 .. Len(t) : t[i] = s[Len(s) - Len(t) + i]

LEMMA TailOfTail ==
  ASSUME NEW S, NEW s \in Seq(S), NEW t \in Seq(S), NEW u \in Seq(S),
         IsTail(t, s), IsTail(u, t)
  PROVE  IsTail(u, s)
<1>1. Len(u) \in Nat /\ Len(t) \in Nat /\ Len(s) \in Nat
  OBVIOUS
<1>2. ASSUME NEW i \in 1 .. Len(u) PROVE u[i] = s[Len(s) - Len(u) + i]
  <2>1. Len(t) - Len(u) + i \in 1 .. Len(t)
    BY <1>1 DEF IsTail
  <2>2. u[i] = t[Len(t) - Len(u) + i]
    BY DEF IsTail
  <2>3. t[Len(t) - Len(u) + i] = s[Len(s) - Len(t) + (Len(t) - Len(u) + i)]
    BY <2>1 DEF IsTail
  <2>4. Len(s) - Len(t) + (Len(t) - Len(u) + i) = Len(s) - Len(u) + i
    BY <1>1
  <2>. QED  BY <2>2, <2>3, <2>4
<1>3. Len(u) <= Len(s)
  BY <1>1 DEF IsTail
<1>. QED  BY <1>2, <1>3 DEF IsTail

LEMMA TailCopyIs ==
  ASSUME NEW S, NEW s \in Seq(S), NEW n \in Nat
  PROVE  /\ tailCopy(s, n) \in Seq(S)
         /\ Len(tailCopy(s, n)) = IF Len(s) > n THEN n ELSE Len(s)
         /\ IsTail(tailCopy(s, n), s)
<1>1. CASE Len(s) > n
  <2> DEFINE m == Len(s) - n + 1
  <2>1. m \in 1 .. Len(s) + 1 /\ Len(s) \in 1 .. Len(s) /\ Len(s) - m + 1 = n
    BY <1>1
  <2>2. tailCopy(s, n) = SubSeq(s, m, Len(s))
    BY <1>1 DEF tailCopy
  <2>3. SubSeq(s, m, Len(s)) \in Seq(S) /\ Len(SubSeq(s, m, Len(s))) = n
    <3>1. CASE n = 0
      BY <3>1, <2>1
    <3>2. CASE n # 0
      BY <3>2, <1>1, <2>1, SubSeqProperties
    <3>. QED  BY <3>1, <3>2
  <2>4. ASSUME NEW i \in 1 .. n PROVE SubSeq(s, m, Len(s))[i] = s[Len(s) - n + i]
    <3>1. SubSeq(s, m, Len(s))[i] = s[m + i - 1]
      BY <2>1
    <3>2. m + i - 1 = Len(s) - n + i
      OBVIOUS
    <3>. QED  BY <3>1, <3>2
  <2>. QED  BY <1>1, <2>2, <2>3, <2>4 DEF IsTail
<1>2. CASE ~(Len(s) > n)
  BY <1>2 DEF tailCopy, IsTail
<1>. QED  BY <1>1, <1>2

LEMMA AppendCapIs ==
  ASSUME NEW S, NEW s \in Seq(S), NEW r \in S, NEW n \in Nat \ {0}
  PROVE  /\ appendCap(s, r, n) \in Seq(S) /\ appendCap(s, r, n) # <<>>
         /\ Len(appendCap(s, r, n)) = IF Len(s) + 1 > n THEN n ELSE Len(s) + 1
         /\ IsTail(appendCap(s, r, n), Append(s, r))
<1>1. PICK a \in Seq(S) : a = Append(s, r)
  <2>1. Append(s, r) \in Seq(S)
    OBVIOUS
  <2>. QED  BY Zenon, <2>1
<1>2. Len(a) = Len(s) + 1
  BY <1>1
<1>3. appendCap(s, r, n) = tailCopy(a, n)
  BY <1>1 DEF appendCap
<1>4. /\ tailCopy(a, n) \in Seq(S)
      /\ Len(tailCopy(a, n)) = IF Len(a) > n THEN n ELSE Len(a)
      /\ IsTail(tailCopy(a, n), a)
  BY TailCopyIs
<1>5. tailCopy(a, n) # <<>>
  BY <1>2, <1>4
<1>. QED  BY <1>1, <1>2, <1>3, <1>4, <1>5

(* A window stays what the history ends with when both get a round.        *)
LEMMA AppendKeepsTail ==
  ASSUME NEW S, NEW w \in Seq(S), NEW h \in Seq(S), NEW r \in S, IsTail(w, h),
         NEW m \in Nat \ {0}, NEW n \in Nat \ {0}, m <= n
  PROVE  IsTail(appendCap(w, r, m), appendCap(h, r, n))
<1>1. PICK a \in Seq(S) : a = appendCap(w, r, m)
  BY AppendCapIs
<1>2. PICK b \in Seq(S) : b = appendCap(h, r, n)
  BY AppendCapIs
<1>3. PICK wr \in Seq(S) : wr = Append(w, r)
  <2>1. Append(w, r) \in Seq(S)
    OBVIOUS
  <2>. QED  BY Zenon, <2>1
<1>4. PICK hr \in Seq(S) : hr = Append(h, r)
  <2>1. Append(h, r) \in Seq(S)
    OBVIOUS
  <2>. QED  BY Zenon, <2>1
<1>5. Len(a) = (IF Len(w) + 1 > m THEN m ELSE Len(w) + 1) /\ IsTail(a, wr)
  BY <1>1, <1>3, AppendCapIs
<1>6. Len(b) = (IF Len(h) + 1 > n THEN n ELSE Len(h) + 1) /\ IsTail(b, hr)
  BY <1>2, <1>4, AppendCapIs
<1>7. /\ Len(wr) = Len(w) + 1 /\ wr[Len(wr)] = r
      /\ Len(hr) = Len(h) + 1 /\ hr[Len(hr)] = r
      /\ \A i \in 1 .. Len(w) : wr[i] = w[i]
      /\ \A i \in 1 .. Len(h) : hr[i] = h[i]
  BY <1>3, <1>4
<1>8. /\ Len(w) <= Len(h) /\ Len(a) <= Len(b)
      /\ Len(a) <= Len(wr) /\ Len(b) <= Len(hr)
  BY <1>5, <1>6, <1>7 DEF IsTail
<1>9. IsTail(wr, hr)
  <2>1. ASSUME NEW i \in 1 .. Len(wr) PROVE wr[i] = hr[Len(hr) - Len(wr) + i]
    <3>1. Len(hr) - Len(wr) + i = Len(h) - Len(w) + i
      BY <1>7
    <3>2. CASE i = Len(wr)
      <4>1. Len(hr) - Len(wr) + i = Len(hr)
        BY <3>2
      <4>. QED  BY <1>7, <3>2, <4>1
    <3>3. CASE i # Len(wr)
      <4>1. i \in 1 .. Len(w) /\ Len(h) - Len(w) + i \in 1 .. Len(h)
        BY <1>7, <1>8, <3>3
      <4>2. w[i] = h[Len(h) - Len(w) + i]
        BY <4>1 DEF IsTail
      <4>. QED  BY <1>7, <3>1, <4>1, <4>2
    <3>. QED  BY <3>2, <3>3
  <2>. QED  BY <1>7, <1>8, <2>1 DEF IsTail
<1>10. IsTail(a, hr)
  BY <1>5, <1>9, TailOfTail
<1>11. ASSUME NEW i \in 1 .. Len(a) PROVE a[i] = b[Len(b) - Len(a) + i]
  <2>1. Len(b) - Len(a) + i \in 1 .. Len(b)
    BY <1>8
  <2>2. a[i] = hr[Len(hr) - Len(a) + i]
    BY <1>10 DEF IsTail
  <2>3. b[Len(b) - Len(a) + i] = hr[Len(hr) - Len(b) + (Len(b) - Len(a) + i)]
    BY <1>6, <2>1 DEF IsTail
  <2>4. Len(hr) - Len(b) + (Len(b) - Len(a) + i) = Len(hr) - Len(a) + i
    OBVIOUS
  <2>. QED  BY <2>2, <2>3, <2>4
<1>. QED  BY <1>1, <1>2, <1>8, <1>11 DEF IsTail

-----------------------------------------------------------------------------
Measured ==
  {[loss |-> s.loss, rtt |-> s.rtt, fp |-> c.fp] : s \in Samples, c \in {d \in Configs : d.fp # Absent}}

(* What the store keeps of a measurement identity is its host.             *)
Hosted(win, c) == \A i \in 1 .. Len(win) : win[i].fp.host = c.fp.host

RoundsTyped ==
  /\ flight \in [Vantages -> Seq(Measured)]
  /\ hist \in [Vantages -> Seq(Measured)]

(* Windows and seeds hold rounds of the host; a target without alerts has  *)
(* neither, and no seed is read for one that the reload redefines.         *)
WindowsHosted ==
  \A v \in Vantages :
    /\ eng[v].win \in Seq(Measured) /\ Hosted(eng[v].win, cfg)
    /\ cfg.alerts = <<>> => eng[v].win = <<>>

SeedsHosted ==
  \A s \in swap, v \in Vantages :
    /\ s.seed[v] \in Seq(Measured) /\ Hosted(s.seed[v], s.to)
    /\ s.seed[v] # <<>> => cfg.fp \in {Absent, s.to.fp} /\ s.to.alerts # <<>>

HostInv == RoundsTyped /\ WindowsHosted /\ SeedsHosted

LEMMA EmptyHosted ==
  ASSUME NEW c
  PROVE  <<>> \in Seq(Measured) /\ Hosted(<<>>, c)
<1>1. <<>> \in Seq(Measured) /\ Len(<<>>) = 0 /\ 1 .. 0 = {}
  OBVIOUS
<1>. QED  BY <1>1 DEF Hosted

LEMMA MeasuredIdentity ==
  ASSUME NEW r \in Measured
  PROVE  \E c \in Configs : c.fp # Absent /\ r.fp = c.fp
BY DEF Measured

LEMMA WindowCapIs ==
  ASSUME NEW c \in Configs
  PROVE  /\ windowCap(c) \in Nat \ {0} /\ windowCap(c) <= HistoryKept
         /\ \A n \in Attached(c) : Length(c.def[n].matcher) <= windowCap(c)
<1> DEFINE lengths == {Length(c.def[n].matcher) : n \in Attached(c)}
           T == {1} \cup lengths
<1>1. lengths \subseteq 1 .. HistoryKept /\ HistoryKept \in Nat \ {0}
  BY HubAssumption
<1>2. \A n \in Attached(c) : Length(c.def[n].matcher) \in lengths
  OBVIOUS
<1> HIDE DEF lengths
<1>3. T \in SUBSET Nat /\ T # {} /\ 1 \in T /\ \A y \in T : y <= HistoryKept
  BY <1>1
<1>4. lengths \subseteq T
  OBVIOUS
<1>5. windowCap(c) = Max(T)
  BY DEF windowCap, lengths
<1> HIDE DEF T
<1>6. Max(T) \in T /\ \A y \in T : y <= Max(T)
  BY <1>1, <1>3, MaxIs
<1>7. windowCap(c) \in Nat /\ windowCap(c) <= HistoryKept /\ 1 <= windowCap(c)
  BY <1>3, <1>5, <1>6
<1>. QED  BY <1>2, <1>4, <1>5, <1>6, <1>7

(* The rounds a config is seeded with: the end of the history, and nothing *)
(* measured on another host.                                               *)
LEMMA ContiguousIs ==
  ASSUME NEW h \in Seq(Measured), NEW c \in Configs
  PROVE  /\ recentContiguous(h, c) \in Seq(Measured)
         /\ IsTail(recentContiguous(h, c), h)
         /\ Hosted(recentContiguous(h, c), c)
<1> DEFINE breaks == {i \in DOMAIN h : h[i].fp.host # c.fp.host}
           T == {0} \cup breaks
           m == Max(T)
<1>1. Len(h) \in Nat /\ DOMAIN h = 1 .. Len(h)
  OBVIOUS
<1>2. T \in SUBSET Nat /\ T # {} /\ \A y \in T : y <= Len(h)
  BY <1>1
<1>3. \A i \in 1 .. Len(h) : i \notin T => h[i].fp.host = c.fp.host
  BY <1>1
<1>4. recentContiguous(h, c) = tailCopy(h, Len(h) - m)
  BY DEF recentContiguous
<1> HIDE DEF T
<1>5. m \in T /\ \A y \in T : y <= m
  BY <1>1, <1>2, MaxIs
<1>6. m \in Nat /\ m <= Len(h)
  BY <1>2, <1>5
<1> HIDE DEF m
<1>7. PICK k \in Nat : k = Len(h) - m
  <2>1. Len(h) - m \in Nat
    BY <1>1, <1>6
  <2>. QED  BY Zenon, <2>1
<1>8. PICK t \in Seq(Measured) : t = recentContiguous(h, c)
  BY <1>4, <1>7, TailCopyIs
<1>9. Len(t) = k /\ IsTail(t, h)
  <2>1. /\ Len(tailCopy(h, k)) = IF Len(h) > k THEN k ELSE Len(h)
        /\ IsTail(tailCopy(h, k), h)
    BY <1>7, TailCopyIs
  <2>2. t = tailCopy(h, k)
    BY <1>4, <1>7, <1>8
  <2>3. k <= Len(h)
    BY <1>1, <1>6, <1>7
  <2>. QED  BY <1>1, <1>7, <2>1, <2>2, <2>3
<1>10. ASSUME NEW i \in 1 .. Len(t) PROVE t[i].fp.host = c.fp.host
  <2>1. PICK j \in 1 .. Len(h) : j = m + i
    BY <1>1, <1>6, <1>7, <1>9
  <2>2. t[i] = h[j]
    <3>1. Len(h) - Len(t) + i = j
      BY <1>1, <1>6, <1>7, <1>9, <2>1
    <3>. QED  BY <1>9, <3>1 DEF IsTail
  <2>3. j \notin T
    BY <1>5, <1>6, <2>1
  <2>4. h[j].fp.host = c.fp.host
    BY <1>3, <2>3
  <2>. QED  BY <2>2, <2>4
<1>. QED  BY <1>8, <1>9, <1>10 DEF Hosted

LEMMA SeedWindowIs ==
  ASSUME NEW h \in Seq(Measured), NEW c \in Configs
  PROVE  /\ SeedWindow(h, c) \in Seq(Measured)
         /\ IsTail(SeedWindow(h, c), h)
         /\ Hosted(SeedWindow(h, c), c)
         /\ c.alerts = <<>> => SeedWindow(h, c) = <<>>
<1>1. CASE c.alerts = <<>>
  <2>1. SeedWindow(h, c) = <<>>
    BY <1>1 DEF SeedWindow
  <2>. QED  BY <2>1 DEF IsTail, Hosted
<1>2. CASE c.alerts # <<>>
  <2>1. PICK r \in Seq(Measured) : r = recentContiguous(h, c)
    BY ContiguousIs
  <2>2. IsTail(r, h) /\ Hosted(r, c)
    BY <2>1, ContiguousIs
  <2>3. PICK k \in Nat : k = windowCap(c)
    BY WindowCapIs
  <2>4. PICK t \in Seq(Measured) : t = SeedWindow(h, c) /\ IsTail(t, r)
    <3>1. SeedWindow(h, c) = tailCopy(r, k)
      BY <1>2, <2>1, <2>3 DEF SeedWindow
    <3>. QED  BY <3>1, TailCopyIs
  <2>5. IsTail(t, h)
    BY <2>2, <2>4, TailOfTail
  <2>6. ASSUME NEW i \in 1 .. Len(t) PROVE t[i].fp.host = c.fp.host
    <3>1. Len(r) - Len(t) + i \in 1 .. Len(r) /\ t[i] = r[Len(r) - Len(t) + i]
      BY <2>4 DEF IsTail
    <3>. QED  BY <2>2, <3>1 DEF Hosted
  <2>. QED  BY <1>2, <2>4, <2>5, <2>6 DEF Hosted
<1>. QED  BY <1>1, <1>2

(* The round that arrives is one the target measured as it is now.         *)
LEMMA CommittedRound ==
  ASSUME IInv, HostInv, NEW v \in Vantages, CommitRound(v)
  PROVE  /\ Head(flight[v]) \in Measured /\ Head(flight[v]).fp = cfg.fp
         /\ Tail(flight[v]) \in Seq(Measured)
         /\ cfg \in Configs /\ cfg.fp # Absent
<1>1. flight[v] \in Seq(Measured) /\ flight[v] # <<>>
  BY DEF CommitRound, HostInv, RoundsTyped
<1>2. Head(flight[v]) \in Measured /\ Tail(flight[v]) \in Seq(Measured)
  BY <1>1
<1>3. Head(flight[v]).fp = cfg.fp
  BY DEF CommitRound, IsLive
<1>. QED  BY <1>2, <1>3, MeasuredIdentity DEF IInv, KnownConfigs

(* What CommitRound does to the histories and the windows.                 *)
LEMMA CommitWindows ==
  ASSUME IInv, HostInv, NEW v \in Vantages, CommitRound(v)
  PROVE  LET r == Head(flight[v])
         IN /\ hist'[v] = appendCap(hist[v], r, HistoryKept)
            /\ eng'[v].win = IF cfg.alerts = <<>> THEN eng[v].win
                             ELSE appendCap(eng[v].win, r, windowCap(cfg))
            /\ \A w \in Vantages \ {v} : hist'[w] = hist[w] /\ eng'[w] = eng[w]
            /\ cfg' = cfg /\ swap' = swap
<1>1. /\ hist' = [hist EXCEPT ![v] = appendCap(hist[v], Head(flight[v]), HistoryKept)]
      /\ cfg' = cfg /\ swap' = swap
  BY DEF CommitRound
<1>2. v \in DOMAIN hist
  BY DEF HostInv, RoundsTyped
<1>3. CASE cfg.alerts = <<>>
  BY <1>1, <1>2, <1>3 DEF CommitRound
<1>4. CASE cfg.alerts # <<>>
  <2>1. /\ eng'[v] = Evaluate(eng[v], cfg, Head(flight[v]))
        /\ \A w \in Vantages \ {v} : eng'[w] = eng[w]
    BY <1>4, CommitEffect DEF IInv
  <2>2. eng'[v].win = appendCap(eng[v].win, Head(flight[v]), windowCap(cfg))
    BY <2>1 DEF Evaluate
  <2>. QED  BY <1>1, <1>2, <1>4, <2>1, <2>2
<1>. QED  BY <1>3, <1>4

LEMMA AppendHosted ==
  ASSUME NEW c, NEW w \in Seq(Measured), Hosted(w, c), NEW r \in Measured, r.fp.host = c.fp.host,
         NEW n \in Nat \ {0}
  PROVE  appendCap(w, r, n) \in Seq(Measured) /\ Hosted(appendCap(w, r, n), c)
<1>1. PICK a \in Seq(Measured) : a = appendCap(w, r, n)
  BY AppendCapIs
<1>2. PICK b \in Seq(Measured) : b = Append(w, r)
  <2>1. Append(w, r) \in Seq(Measured)
    OBVIOUS
  <2>. QED  BY Zenon, <2>1
<1>3. IsTail(a, b)
  BY <1>1, <1>2, AppendCapIs
<1>4. ASSUME NEW i \in 1 .. Len(b) PROVE b[i].fp.host = c.fp.host
  <2>1. CASE i = Len(b)
    BY <1>2, <2>1
  <2>2. CASE i # Len(b)
    BY <1>2, <2>2 DEF Hosted
  <2>. QED  BY <2>1, <2>2
<1>5. ASSUME NEW i \in 1 .. Len(a) PROVE a[i].fp.host = c.fp.host
  <2>1. Len(b) - Len(a) + i \in 1 .. Len(b) /\ a[i] = b[Len(b) - Len(a) + i]
    BY <1>3 DEF IsTail
  <2>. QED  BY <1>4, <2>1
<1>. QED  BY <1>1, <1>5 DEF Hosted

LEMMA MeasureHosted ==
  ASSUME IInv, HostInv, NEW v \in Vantages, NEW s \in Samples, Measure(v, s)
  PROVE  HostInv'
<1>1. PICK r \in Measured : r = [loss |-> s.loss, rtt |-> s.rtt, fp |-> cfg.fp]
  <2>1. cfg \in {d \in Configs : d.fp # Absent}
    BY DEF Measure, IInv, KnownConfigs
  <2>2. [loss |-> s.loss, rtt |-> s.rtt, fp |-> cfg.fp] \in Measured
    BY <2>1 DEF Measured
  <2>. QED  BY Zenon, <2>2
<1>2. flight' = [flight EXCEPT ![v] = Append(flight[v], r)]
  BY <1>1 DEF Measure
<1>3. flight[v] \in Seq(Measured)
  BY DEF HostInv, RoundsTyped
<1>4. Append(flight[v], r) \in Seq(Measured)
  BY <1>3
<1>5. flight' \in [Vantages -> Seq(Measured)]
  BY <1>2, <1>4 DEF HostInv, RoundsTyped
<1>. QED  BY <1>5 DEF Measure, HostInv, RoundsTyped, WindowsHosted, SeedsHosted, Hosted

LEMMA CommitHosted ==
  ASSUME IInv, HostInv, NEW v \in Vantages, CommitRound(v)
  PROVE  HostInv'
<1>1. PICK r \in Measured : r = Head(flight[v]) /\ r.fp = cfg.fp
  BY CommittedRound
<1>2. /\ hist'[v] = appendCap(hist[v], r, HistoryKept)
      /\ eng'[v].win = IF cfg.alerts = <<>> THEN eng[v].win
                       ELSE appendCap(eng[v].win, r, windowCap(cfg))
      /\ \A w \in Vantages \ {v} : hist'[w] = hist[w] /\ eng'[w] = eng[w]
      /\ cfg' = cfg /\ swap' = swap
  BY <1>1, CommitWindows
<1>3. RoundsTyped'
  <2>1. flight' = [flight EXCEPT ![v] = Tail(flight[v])]
    BY DEF CommitRound
  <2>2. flight' \in [Vantages -> Seq(Measured)]
    BY <2>1, CommittedRound DEF HostInv, RoundsTyped
  <2>3. HistoryKept \in Nat \ {0} /\ hist[v] \in Seq(Measured)
    BY HubAssumption DEF HostInv, RoundsTyped
  <2>4. appendCap(hist[v], r, HistoryKept) \in Seq(Measured)
    BY <2>3, AppendCapIs
  <2>5. hist' = [hist EXCEPT ![v] = appendCap(hist[v], r, HistoryKept)]
    BY <1>1 DEF CommitRound
  <2>6. hist' \in [Vantages -> Seq(Measured)]
    BY <2>4, <2>5 DEF HostInv, RoundsTyped
  <2>. QED  BY <2>2, <2>6 DEF RoundsTyped
<1>4. ASSUME NEW w \in Vantages
      PROVE  /\ eng'[w].win \in Seq(Measured) /\ Hosted(eng'[w].win, cfg)
             /\ cfg.alerts = <<>> => eng'[w].win = <<>>
  <2>1. /\ eng[w].win \in Seq(Measured) /\ Hosted(eng[w].win, cfg)
        /\ cfg.alerts = <<>> => eng[w].win = <<>>
    BY DEF HostInv, WindowsHosted
  <2>2. CASE w = v /\ cfg.alerts # <<>>
    <3>1. windowCap(cfg) \in Nat \ {0}
      BY CommittedRound, WindowCapIs
    <3>2. eng'[w].win = appendCap(eng[w].win, r, windowCap(cfg))
      BY <1>2, <2>2
    <3>. QED  BY <1>1, <2>1, <2>2, <3>1, <3>2, AppendHosted
  <2>3. CASE ~(w = v /\ cfg.alerts # <<>>)
    BY <1>2, <2>1, <2>3
  <2>. QED  BY <2>2, <2>3
<1>5. WindowsHosted'
  BY <1>2, <1>4 DEF WindowsHosted, Hosted
<1>6. SeedsHosted'
  BY <1>2 DEF HostInv, SeedsHosted, Hosted
<1>. QED  BY <1>3, <1>5, <1>6 DEF HostInv

LEMMA DropHosted ==
  ASSUME IInv, HostInv, NEW v \in Vantages, DropRound(v)
  PROVE  HostInv'
<1>1. flight[v] \in Seq(Measured) /\ flight[v] # <<>>
  BY DEF DropRound, HostInv, RoundsTyped
<1>2. Tail(flight[v]) \in Seq(Measured)
  BY <1>1
<1>3. flight' = [flight EXCEPT ![v] = Tail(flight[v])]
  BY DEF DropRound
<1>4. flight' \in [Vantages -> Seq(Measured)]
  BY <1>2, <1>3 DEF HostInv, RoundsTyped
<1>. QED  BY <1>4 DEF DropRound, HostInv, RoundsTyped, WindowsHosted, SeedsHosted, Hosted

(* What a reload reads: the end of the history of a target it leaves as it *)
(* is, and nothing of one it redefines.                                    *)
LEMMA SeedIs ==
  ASSUME IInv, HostInv, NEW c \in Configs, SeedReload(c), NEW s \in swap', NEW v \in Vantages
  PROVE  /\ s.to = c
         /\ s.seed[v] \in Seq(Measured)
         /\ Hosted(s.seed[v], c)
         /\ \/ s.seed[v] = <<>>
            \/ /\ cfg.fp \in {Absent, c.fp} /\ c.alerts # <<>>
               /\ IsTail(s.seed[v], hist[v])
<1>1. PICK read \in SUBSET Vantages :
        s = [to |-> c, seed |->
              [w \in Vantages |-> IF w \in read THEN reloadSeed(hist[w], cfg, c) ELSE <<>>]]
  BY DEF SeedReload
<1>2. s.to = c /\ s.seed[v] = IF v \in read THEN reloadSeed(hist[v], cfg, c) ELSE <<>>
  BY <1>1
<1>3. hist[v] \in Seq(Measured)
  BY DEF HostInv, RoundsTyped
<1>4. CASE s.seed[v] = <<>>
  <2>1. <<>> \in Seq(Measured) /\ Hosted(<<>>, c)
    BY EmptyHosted
  <2>. QED  BY Zenon, <1>2, <1>4, <2>1
<1>5. CASE s.seed[v] # <<>>
  <2>1. s.seed[v] = SeedWindow(hist[v], c) /\ cfg.fp \in {Absent, c.fp} /\ c.alerts # <<>>
    BY <1>2, <1>5 DEF reloadSeed, SeedWindow
  <2>. QED  BY <1>2, <1>3, <2>1, SeedWindowIs
<1>. QED  BY <1>4, <1>5

LEMMA SeedHosted ==
  ASSUME IInv, HostInv, NEW c \in Configs, SeedReload(c)
  PROVE  HostInv'
<1>1. ASSUME NEW s \in swap', NEW v \in Vantages
      PROVE  /\ s.seed[v] \in Seq(Measured) /\ Hosted(s.seed[v], s.to)
             /\ s.seed[v] # <<>> => cfg.fp \in {Absent, s.to.fp} /\ s.to.alerts # <<>>
  BY SeedIs
<1>2. SeedsHosted'
  BY <1>1 DEF SeedReload, SeedsHosted, Hosted
<1>. QED  BY <1>2 DEF SeedReload, HostInv, RoundsTyped, WindowsHosted, Hosted

LEMMA SwapHosted ==
  ASSUME IInv, HostInv, SwapRuntime
  PROVE  HostInv'
<1>1. PICK s \in swap :
        /\ cfg' = s.to
        /\ eng' = [v \in Vantages |-> InheritStateFrom(eng[v], cfg, s.to, s.seed[v])]
        /\ swap' = {} /\ UNCHANGED <<hist, flight>>
  BY DEF SwapRuntime
<1>2. ASSUME NEW v \in Vantages
      PROVE  /\ eng'[v].win \in Seq(Measured) /\ Hosted(eng'[v].win, s.to)
             /\ s.to.alerts = <<>> => eng'[v].win = <<>>
  <2>1. eng'[v].win = IF SameTarget(cfg, s.to) /\ eng[v].win # <<>> THEN eng[v].win ELSE s.seed[v]
    BY <1>1 DEF InheritStateFrom
  <2>2. eng[v].win \in Seq(Measured) /\ Hosted(eng[v].win, cfg)
    BY DEF HostInv, WindowsHosted
  <2>3. /\ s.seed[v] \in Seq(Measured) /\ Hosted(s.seed[v], s.to)
        /\ s.seed[v] # <<>> => s.to.alerts # <<>>
    BY DEF HostInv, SeedsHosted
  <2>. QED  BY <2>1, <2>2, <2>3 DEF SameTarget, Hosted
<1>. QED  BY <1>1, <1>2 DEF HostInv, RoundsTyped, WindowsHosted, SeedsHosted, Hosted

(* The window an engine starts with after a restart.                       *)
LEMMA RestartWindows ==
  ASSUME IInv, HostInv, Restart, NEW v \in Vantages
  PROVE  /\ eng'[v].win \in Seq(Measured)
         /\ IsTail(eng'[v].win, hist[v])
         /\ Hosted(eng'[v].win, cfg')
         /\ cfg'.alerts = <<>> => eng'[v].win = <<>>
<1>1. PICK read \in SUBSET Vantages :
        eng' = [w \in Vantages |->
          [Fresh EXCEPT !.win = IF w \in read THEN SeedWindow(hist[w], cfg') ELSE <<>>]]
  BY DEF Restart
<1>2. eng'[v].win = IF v \in read THEN SeedWindow(hist[v], cfg') ELSE <<>>
  BY <1>1 DEF Fresh
<1>3. hist[v] \in Seq(Measured) /\ Len(hist[v]) \in Nat
  BY DEF HostInv, RoundsTyped
<1>4. cfg' \in Configs
  BY RestartIInv DEF IInv, KnownConfigs
<1>5. CASE v \in read
  <2>1. PICK c \in Configs : c = cfg'
    BY <1>4
  <2>. QED  BY <1>2, <1>3, <1>5, <2>1, SeedWindowIs
<1>6. CASE v \notin read
  BY <1>2, <1>3, <1>6 DEF IsTail, Hosted
<1>. QED  BY <1>5, <1>6

LEMMA RestartHosted ==
  ASSUME IInv, HostInv, Restart
  PROVE  HostInv'
<1>1. ASSUME NEW v \in Vantages
      PROVE  /\ eng'[v].win \in Seq(Measured) /\ Hosted(eng'[v].win, cfg')
             /\ cfg'.alerts = <<>> => eng'[v].win = <<>>
  BY RestartWindows
<1>2. WindowsHosted'
  BY <1>1 DEF WindowsHosted, Hosted
<1>3. flight' = [flight EXCEPT ![Local] = <<>>] /\ hist' = hist /\ swap' = {}
  BY DEF Restart
<1>4. <<>> \in Seq(Measured)
  OBVIOUS
<1>5. flight' \in [Vantages -> Seq(Measured)]
  BY <1>3, <1>4 DEF HostInv, RoundsTyped
<1>. QED  BY <1>2, <1>3, <1>5 DEF HostInv, RoundsTyped, SeedsHosted

LEMMA HostStep ==
  ASSUME IInv, HostInv, [Next]_vars
  PROVE  HostInv'
<1>1. ASSUME NEW v \in Vantages, NEW s \in Samples, Measure(v, s) PROVE HostInv'
  BY <1>1, MeasureHosted
<1>2. ASSUME NEW v \in Vantages, CommitRound(v) PROVE HostInv'
  BY <1>2, CommitHosted
<1>3. ASSUME NEW v \in Vantages, DropRound(v) PROVE HostInv'
  BY <1>3, DropHosted
<1>4. ASSUME NEW c \in Configs, SeedReload(c) PROVE HostInv'
  BY <1>4, SeedHosted
<1>5. CASE SwapRuntime
  BY <1>5, SwapHosted
<1>6. CASE Restart
  BY <1>6, RestartHosted
<1>7. CASE UNCHANGED vars
  BY <1>7 DEF vars, HostInv, RoundsTyped, WindowsHosted, SeedsHosted, Hosted
<1>. QED  BY <1>1, <1>2, <1>3, <1>4, <1>5, <1>6, <1>7 DEF Next

LEMMA HostInit == Init => HostInv
<1> SUFFICES ASSUME Init PROVE HostInv
  OBVIOUS
<1>1. <<>> \in Seq(Measured) /\ Hosted(<<>>, cfg)
  BY EmptyHosted
<1>2. \A v \in Vantages : eng[v].win = <<>>
  BY DEF Init, Fresh
<1>3. WindowsHosted
  BY Zenon, <1>1, <1>2 DEF WindowsHosted
<1>4. RoundsTyped /\ SeedsHosted
  BY <1>1 DEF Init, RoundsTyped, SeedsHosted
<1>. QED  BY <1>3, <1>4 DEF HostInv

LEMMA HostInvariance == Spec => [](IInv /\ HostInv)
<1>1. IInv /\ HostInv /\ [Next]_vars => HostInv'
  BY HostStep
<1>. QED  BY <1>1, HostInit, Invariance, PTL DEF Spec

(* Where a round of another definition can have come from.                 *)
FromSeed(v, r) ==
  /\ r.fp.host = cfg'.fp.host
  /\ \/ Restart
     \/ SwapRuntime /\ eng[v].win = <<>> /\ cfg.fp \in {Absent, cfg'.fp}

LEMMA ObsoleteInSwap ==
  ASSUME IInv, HostInv, SwapRuntime, NEW v \in Vantages, NEW r \in Obsolete(eng'[v].win, cfg')
  PROVE  (cfg'.fp = cfg.fp /\ r \in Obsolete(eng[v].win, cfg)) \/ FromSeed(v, r)
<1>1. PICK s \in swap :
        /\ cfg' = s.to
        /\ eng' = [w \in Vantages |-> InheritStateFrom(eng[w], cfg, s.to, s.seed[w])]
  BY DEF SwapRuntime
<1>2. eng'[v].win = IF SameTarget(cfg, s.to) /\ eng[v].win # <<>> THEN eng[v].win ELSE s.seed[v]
  BY <1>1 DEF InheritStateFrom
<1>3. CASE SameTarget(cfg, s.to) /\ eng[v].win # <<>>
  BY <1>1, <1>2, <1>3 DEF SameTarget, Obsolete
<1>4. CASE ~(SameTarget(cfg, s.to) /\ eng[v].win # <<>>)
  <2>1. PICK i \in DOMAIN s.seed[v] : r = s.seed[v][i]
    BY <1>2, <1>4 DEF Obsolete, ToSet
  <2>2. /\ s.seed[v] \in Seq(Measured) /\ Hosted(s.seed[v], s.to)
        /\ s.seed[v] # <<>> => cfg.fp \in {Absent, s.to.fp} /\ s.to.alerts # <<>>
    BY DEF HostInv, SeedsHosted
  <2>3. r.fp.host = s.to.fp.host /\ s.seed[v] # <<>>
    BY <2>1, <2>2 DEF Hosted
  <2>4. eng[v].win = <<>>
    <3>1. CASE cfg.fp = s.to.fp
      <4>1. s.to.fp # Absent
        BY <2>2, <2>3, HubAssumption DEF IInv, KnownConfigs
      <4>. QED  BY <1>4, <2>2, <2>3, <3>1, <4>1 DEF SameTarget
    <3>2. CASE cfg.fp # s.to.fp
      <4>1. cfg.alerts = <<>>
        BY <2>2, <2>3, <3>2, HubAssumption DEF IInv, KnownConfigs
      <4>. QED  BY <4>1 DEF HostInv, WindowsHosted
    <3>. QED  BY <3>1, <3>2
  <2>. QED  BY <1>1, <2>2, <2>3, <2>4 DEF FromSeed
<1>. QED  BY <1>3, <1>4

LEMMA ObsoleteInCommit ==
  ASSUME IInv, HostInv, NEW w \in Vantages, CommitRound(w),
         NEW v \in Vantages, NEW r \in Obsolete(eng'[v].win, cfg')
  PROVE  cfg'.fp = cfg.fp /\ r \in Obsolete(eng[v].win, cfg)
<1>1. PICK last \in Measured : last = Head(flight[w]) /\ last.fp = cfg.fp
  BY CommittedRound
<1>2. /\ eng'[w].win = IF cfg.alerts = <<>> THEN eng[w].win
                       ELSE appendCap(eng[w].win, last, windowCap(cfg))
      /\ \A u \in Vantages \ {w} : eng'[u] = eng[u]
      /\ cfg' = cfg
  BY <1>1, CommitWindows
<1>3. CASE v = w /\ cfg.alerts # <<>>
  <2>1. PICK m \in Nat \ {0} : m = windowCap(cfg)
    BY CommittedRound, WindowCapIs
  <2>2. PICK old \in Seq(Measured) : old = eng[v].win
    BY DEF HostInv, WindowsHosted
  <2>3. PICK longer \in Seq(Measured) :
          /\ longer = Append(old, last) /\ Len(longer) = Len(old) + 1
          /\ \A k \in 1 .. Len(old) : longer[k] = old[k]
          /\ longer[Len(old) + 1] = last
    <3>1. Append(old, last) \in Seq(Measured)
      OBVIOUS
    <3>. QED  BY Zenon, <3>1, AppendProperties
  <2>4. PICK new \in Seq(Measured) : new = appendCap(old, last, m) /\ IsTail(new, longer)
    BY <2>3, AppendCapIs
  <2>5. PICK i \in 1 .. Len(new) : r = new[i]
    BY <1>2, <1>3, <2>1, <2>2, <2>4 DEF Obsolete, ToSet
  <2>6. PICK j \in 1 .. Len(old) + 1 : r = longer[j]
    <3>1. Len(new) <= Len(longer) /\ new[i] = longer[Len(longer) - Len(new) + i]
      BY <2>4 DEF IsTail
    <3>2. Len(longer) - Len(new) + i \in 1 .. Len(old) + 1
      BY <2>3, <3>1
    <3>. QED  BY <2>5, <3>1, <3>2
  <2>7. r.fp # cfg.fp
    BY <1>2 DEF Obsolete
  <2>8. j # Len(old) + 1
    BY <1>1, <2>6, <2>7, <2>3
  <2>9. r = old[j] /\ j \in DOMAIN old
    BY <2>6, <2>8, <2>3
  <2>. QED  BY <1>2, <2>2, <2>7, <2>9 DEF Obsolete, ToSet
<1>4. CASE ~(v = w /\ cfg.alerts # <<>>)
  BY <1>2, <1>4
<1>. QED  BY <1>3, <1>4

(* No round of an obsolete definition of the target counts towards its     *)
(* alerts unless a window was seeded with it: it is not accepted when it   *)
(* arrives, not taken over from the old engine, and not read back by a     *)
(* reload that redefines the target (reloadSeedTargets, InheritStateFrom,  *)
(* storeLocal and commitRemote).                                           *)
THEOREM WindowsHoldLiveRounds == Spec => ObsoleteOnlyFromSeed
<1>1. ASSUME IInv, HostInv, Next, NEW v \in Vantages, NEW r \in Obsolete(eng'[v].win, cfg')
      PROVE  (cfg'.fp = cfg.fp /\ r \in Obsolete(eng[v].win, cfg)) \/ FromSeed(v, r)
  <2>1. CASE UNCHANGED <<cfg, eng>>
    BY <1>1, <2>1
  <2>2. ASSUME NEW w \in Vantages, NEW s \in Samples, Measure(w, s) PROVE UNCHANGED <<cfg, eng>>
    BY <2>2 DEF Measure
  <2>3. ASSUME NEW w \in Vantages, CommitRound(w)
        PROVE  cfg'.fp = cfg.fp /\ r \in Obsolete(eng[v].win, cfg)
    BY <1>1, <2>3, ObsoleteInCommit
  <2>4. ASSUME NEW w \in Vantages, DropRound(w) PROVE UNCHANGED <<cfg, eng>>
    BY <2>4 DEF DropRound
  <2>5. ASSUME NEW c \in Configs, SeedReload(c) PROVE UNCHANGED <<cfg, eng>>
    BY <2>5 DEF SeedReload
  <2>6. CASE SwapRuntime
    BY <1>1, <2>6, ObsoleteInSwap
  <2>7. CASE Restart
    <3>1. eng'[v].win \in Seq(Measured) /\ Hosted(eng'[v].win, cfg')
      BY <1>1, <2>7, RestartWindows
    <3>2. r.fp.host = cfg'.fp.host
      BY <3>1 DEF Obsolete, ToSet, Hosted
    <3>. QED  BY <2>7, <3>2 DEF FromSeed
  <2>. QED  BY <1>1, <2>1, <2>2, <2>3, <2>4, <2>5, <2>6, <2>7 DEF Next
<1>2. IInv /\ HostInv /\ [Next]_vars =>
        [\A v \in Vantages : \A r \in Obsolete(eng'[v].win, cfg') :
           \/ cfg'.fp = cfg.fp /\ r \in Obsolete(eng[v].win, cfg)
           \/ /\ r.fp.host = cfg'.fp.host
              /\ \/ Restart
                 \/ SwapRuntime /\ eng[v].win = <<>> /\ cfg.fp \in {Absent, cfg'.fp}]_vars
  BY <1>1 DEF FromSeed
<1>. QED  BY <1>2, HostInvariance, PTL DEF Spec, ObsoleteOnlyFromSeed

-----------------------------------------------------------------------------
(* What a window knows of the history: the rounds it was given since it    *)
(* was seeded are the last of it and measured the live definition; and, if *)
(* none is missing before them, all of the window is what the history ends *)
(* with.                                                                   *)
AgreesFor(k, win, h, fp) ==
  \A i \in 1 .. Len(win) : i > Len(win) - k =>
    /\ Len(h) - Len(win) + i \in 1 .. Len(h)
    /\ win[i] = h[Len(h) - Len(win) + i]
    /\ win[i].fp = fp

SeenTyped == seen \in [Vantages -> [rounds : 0 .. HistoryKept, late : BOOLEAN, gap : BOOLEAN]]

WindowsFollow ==
  \A v \in Vantages :
    /\ AgreesFor(seen[v].rounds, eng[v].win, hist[v], cfg.fp)
    /\ ~seen[v].gap => IsTail(eng[v].win, hist[v])

SeedsFollow == \A s \in swap, v \in Vantages : ~seen[v].late => IsTail(s.seed[v], hist[v])

FollowInv == SeenTyped /\ WindowsFollow /\ SeedsFollow

LEMMA AppendAgrees ==
  ASSUME NEW w \in Seq(Measured), NEW h \in Seq(Measured), NEW r \in Measured,
         NEW k \in Nat, AgreesFor(k, w, h, r.fp), NEW m \in Nat \ {0}, NEW n \in Nat \ {0}, m <= n,
         NEW l \in Nat, l <= k + 1, l <= n
  PROVE  AgreesFor(l, appendCap(w, r, m), appendCap(h, r, n), r.fp)
<1>1. PICK a \in Seq(Measured) : a = appendCap(w, r, m)
  BY AppendCapIs
<1>2. PICK b \in Seq(Measured) : b = appendCap(h, r, n)
  BY AppendCapIs
<1>3. PICK wr \in Seq(Measured) : wr = Append(w, r)
  <2>1. Append(w, r) \in Seq(Measured)
    OBVIOUS
  <2>. QED  BY Zenon, <2>1
<1>4. PICK hr \in Seq(Measured) : hr = Append(h, r)
  <2>1. Append(h, r) \in Seq(Measured)
    OBVIOUS
  <2>. QED  BY Zenon, <2>1
<1>5. Len(a) = (IF Len(w) + 1 > m THEN m ELSE Len(w) + 1) /\ IsTail(a, wr)
  BY <1>1, <1>3, AppendCapIs
<1>6. Len(b) = (IF Len(h) + 1 > n THEN n ELSE Len(h) + 1) /\ IsTail(b, hr)
  BY <1>2, <1>4, AppendCapIs
<1>7. /\ Len(wr) = Len(w) + 1 /\ wr[Len(wr)] = r
      /\ Len(hr) = Len(h) + 1 /\ hr[Len(hr)] = r
      /\ \A i \in 1 .. Len(w) : wr[i] = w[i]
      /\ \A i \in 1 .. Len(h) : hr[i] = h[i]
  BY <1>3, <1>4
<1>8. Len(w) \in Nat /\ Len(h) \in Nat /\ Len(a) <= Len(wr) /\ Len(b) <= Len(hr)
  BY <1>5, <1>6 DEF IsTail
<1>9. ASSUME NEW i \in 1 .. Len(a), i > Len(a) - l
      PROVE  /\ Len(b) - Len(a) + i \in 1 .. Len(b)
             /\ a[i] = b[Len(b) - Len(a) + i]
             /\ a[i].fp = r.fp
  <2>1. PICK p \in 1 .. Len(wr) : p = Len(wr) - Len(a) + i
    <3>1. Len(wr) - Len(a) + i \in 1 .. Len(wr)
      BY <1>7, <1>8
    <3>. QED  BY Zenon, <3>1
  <2>2. a[i] = wr[p]
    BY <1>5, <2>1 DEF IsTail
  <2>3. CASE p = Len(wr)
    <3>1. i = Len(a)
      BY <1>7, <1>8, <2>1, <2>3
    <3>2. Len(b) - Len(a) + i = Len(b) /\ Len(b) \in 1 .. Len(b)
      BY <1>6, <1>8, <3>1
    <3>3. b[Len(b)] = hr[Len(hr) - Len(b) + Len(b)]
      BY <1>6, <3>2 DEF IsTail
    <3>4. b[Len(b)] = r
      BY <1>7, <1>8, <3>3
    <3>. QED  BY <1>7, <2>2, <2>3, <3>2, <3>4
  <2>4. CASE p # Len(wr)
    <3>1. p \in 1 .. Len(w) /\ p > Len(w) - k
      BY <1>7, <1>8, <1>9, <2>1, <2>4
    <3>2. PICK q \in 1 .. Len(h) : q = Len(h) - Len(w) + p /\ w[p] = h[q] /\ w[p].fp = r.fp
      BY <3>1 DEF AgreesFor
    <3>3. PICK j \in 1 .. Len(b) : j = Len(b) - Len(a) + i
      <4>1. Len(b) - Len(a) + i <= Len(b)
        BY <1>8
      <4>2. Len(b) - Len(a) + i >= 1
        <5>1. CASE Len(b) = n
          <6>1. Len(a) - i + 1 <= l /\ l <= n
            BY <1>9
          <6>. QED  BY <5>1, <6>1
        <5>2. CASE Len(b) = Len(h) + 1
          <6>1. Len(h) - Len(w) + (Len(w) + 1 - Len(a) + i) >= 1
            BY <1>7, <2>1, <3>2
          <6>. QED  BY <1>8, <5>2, <6>1
        <5>. QED  BY <1>6, <5>1, <5>2
      <4>3. Len(b) - Len(a) + i \in 1 .. Len(b)
        BY <4>1, <4>2
      <4>. QED  BY Zenon, <4>3
    <3>4. Len(hr) - Len(b) + j = q
      BY <1>7, <1>8, <2>1, <3>2, <3>3
    <3>5. b[j] = hr[q]
      BY <1>6, <3>3, <3>4 DEF IsTail
    <3>. QED  BY <1>7, <2>2, <3>1, <3>2, <3>3, <3>5
  <2>. QED  BY <2>3, <2>4
<1>. QED  BY <1>1, <1>2, <1>9 DEF AgreesFor

LEMMA EmptyFollows ==
  ASSUME NEW k \in Nat, NEW h \in Seq(Measured), NEW fp
  PROVE  AgreesFor(k, <<>>, h, fp) /\ IsTail(<<>>, h)
<1>1. Len(<<>>) = 0 /\ 1 .. 0 = {} /\ 0 <= Len(h)
  OBVIOUS
<1>. QED  BY <1>1 DEF AgreesFor, IsTail

LEMMA CommitFollows ==
  ASSUME IInv, HostInv, FollowInv, NEW v \in Vantages, CommitRound(v)
  PROVE  FollowInv'
<1>1. PICK r \in Measured : r = Head(flight[v]) /\ r.fp = cfg.fp
  BY CommittedRound
<1>2. cfg \in Configs /\ cfg.fp # Absent
  BY CommittedRound
<1>3. /\ hist'[v] = appendCap(hist[v], r, HistoryKept)
      /\ eng'[v].win = IF cfg.alerts = <<>> THEN eng[v].win
                       ELSE appendCap(eng[v].win, r, windowCap(cfg))
      /\ \A w \in Vantages \ {v} : hist'[w] = hist[w] /\ eng'[w] = eng[w]
      /\ cfg' = cfg /\ swap' = swap
  BY <1>1, <1>2, CommitWindows
<1>4. PICK m \in Nat \ {0} : m = windowCap(cfg) /\ m <= HistoryKept
  BY <1>2, WindowCapIs
<1>5. HistoryKept \in Nat \ {0}
  BY HubAssumption
<1>6. /\ eng[v].win \in Seq(Measured) /\ hist[v] \in Seq(Measured)
      /\ cfg.alerts = <<>> => eng[v].win = <<>>
  BY DEF HostInv, RoundsTyped, WindowsHosted
<1>7. PICK k \in 0 .. HistoryKept, late \in BOOLEAN, gap \in BOOLEAN :
        k = seen[v].rounds /\ late = seen[v].late /\ gap = seen[v].gap
  BY DEF FollowInv, SeenTyped
<1>8. PICK l \in 0 .. HistoryKept :
        /\ l <= k + 1
        /\ cfg.alerts = <<>> => l = k
        /\ seen' = [seen EXCEPT ![v] = [rounds |-> l, late |-> late \/ swap # {}, gap |-> gap]]
  <2>1. CASE cfg.alerts = <<>>
    BY <1>7, <2>1 DEF CommitRound
  <2>2. CASE cfg.alerts # <<>>
    <3>1. {k + 1, HistoryKept} \in SUBSET Nat /\ {k + 1, HistoryKept} # {}
      BY <1>5, <1>7
    <3>2. Min({k + 1, HistoryKept}) \in {k + 1, HistoryKept} /\ \A y \in {k + 1, HistoryKept} : Min({k + 1, HistoryKept}) <= y
      <4>1. \E x \in {k + 1, HistoryKept} : \A y \in {k + 1, HistoryKept} : x <= y
        BY <3>1, LeastNumber
      <4>. QED  BY <4>1 DEF Min
    <3>3. Min({k + 1, HistoryKept}) \in 0 .. HistoryKept /\ Min({k + 1, HistoryKept}) <= k + 1
      BY <1>5, <1>7, <3>2
    <3>4. seen' = [seen EXCEPT ![v] = [rounds |-> Min({k + 1, HistoryKept}), late |-> late \/ swap # {}, gap |-> gap]]
      BY <1>7, <2>2 DEF CommitRound
    <3>. QED  BY <2>2, <3>3, <3>4
  <2>. QED  BY <2>1, <2>2
<1>9. /\ seen'[v] = [rounds |-> l, late |-> late \/ swap # {}, gap |-> gap]
      /\ \A w \in Vantages \ {v} : seen'[w] = seen[w]
      /\ SeenTyped'
  BY <1>8 DEF FollowInv, SeenTyped
<1>10. AgreesFor(k, eng[v].win, hist[v], cfg.fp) /\ (~gap => IsTail(eng[v].win, hist[v]))
  BY <1>7 DEF FollowInv, WindowsFollow
<1>11. AgreesFor(l, eng'[v].win, hist'[v], cfg.fp) /\ (~gap => IsTail(eng'[v].win, hist'[v]))
  <2>1. CASE cfg.alerts # <<>>
    <3>1. AgreesFor(l, appendCap(eng[v].win, r, m), appendCap(hist[v], r, HistoryKept), cfg.fp)
      BY <1>1, <1>4, <1>5, <1>6, <1>7, <1>8, <1>10, AppendAgrees
    <3>2. ~gap => IsTail(appendCap(eng[v].win, r, m), appendCap(hist[v], r, HistoryKept))
      BY <1>4, <1>5, <1>6, <1>10, AppendKeepsTail
    <3>. QED  BY <1>3, <1>4, <2>1, <3>1, <3>2
  <2>2. CASE cfg.alerts = <<>>
    <3>1. PICK h \in Seq(Measured) : h = appendCap(hist[v], r, HistoryKept)
      BY <1>5, <1>6, AppendCapIs
    <3>2. AgreesFor(l, <<>>, h, cfg.fp) /\ IsTail(<<>>, h)
      BY <1>8, EmptyFollows
    <3>. QED  BY <1>3, <1>6, <2>2, <3>1, <3>2
  <2>. QED  BY <2>1, <2>2
<1>12. ASSUME NEW w \in Vantages
       PROVE  /\ AgreesFor(seen'[w].rounds, eng'[w].win, hist'[w], cfg.fp)
              /\ ~seen'[w].gap => IsTail(eng'[w].win, hist'[w])
  <2>1. CASE w = v
    BY <1>9, <1>11, <2>1
  <2>2. CASE w # v
    BY <1>3, <1>9, <2>2 DEF FollowInv, WindowsFollow
  <2>. QED  BY <2>1, <2>2
<1>13. WindowsFollow'
  BY <1>3, <1>12 DEF WindowsFollow
<1>14. ASSUME NEW s \in swap, NEW w \in Vantages, ~seen'[w].late
       PROVE  IsTail(s.seed[w], hist'[w])
  <2>1. CASE w = v
    <3>1. seen'[w].late = (late \/ swap # {})
      BY <1>9, <2>1
    <3>2. swap # {}
      OBVIOUS
    <3>. QED  BY <1>14, <3>1, <3>2, Zenon
  <2>2. CASE w # v
    BY <1>3, <1>9, <1>14, <2>2 DEF FollowInv, SeedsFollow
  <2>. QED  BY <2>1, <2>2
<1>15. SeedsFollow'
  BY <1>3, <1>14 DEF SeedsFollow
<1>. QED  BY <1>9, <1>13, <1>15 DEF FollowInv

LEMMA SwapFollows ==
  ASSUME IInv, HostInv, FollowInv, SwapRuntime
  PROVE  FollowInv'
<1>1. PICK s \in swap :
        /\ cfg' = s.to
        /\ eng' = [v \in Vantages |-> InheritStateFrom(eng[v], cfg, s.to, s.seed[v])]
        /\ seen' = [v \in Vantages |->
             IF SameTarget(cfg, s.to) /\ eng[v].win # <<>> THEN [seen[v] EXCEPT !.late = FALSE]
             ELSE Reseeded(seen[v].late)]
        /\ swap' = {} /\ hist' = hist
  BY DEF SwapRuntime
<1>2. SeenTyped'
  <2>1. ASSUME NEW v \in Vantages
        PROVE  seen'[v] \in [rounds : 0 .. HistoryKept, late : BOOLEAN, gap : BOOLEAN]
    <3>1. seen[v] \in [rounds : 0 .. HistoryKept, late : BOOLEAN, gap : BOOLEAN]
      BY DEF FollowInv, SeenTyped
    <3>2. [seen[v] EXCEPT !.late = FALSE] \in [rounds : 0 .. HistoryKept, late : BOOLEAN, gap : BOOLEAN]
      BY <3>1
    <3>3. Reseeded(seen[v].late) \in [rounds : 0 .. HistoryKept, late : BOOLEAN, gap : BOOLEAN]
      BY <3>1, HubAssumption DEF Reseeded
    <3>4. seen'[v] = IF SameTarget(cfg, s.to) /\ eng[v].win # <<>>
                     THEN [seen[v] EXCEPT !.late = FALSE] ELSE Reseeded(seen[v].late)
      BY <1>1
    <3>. QED  BY <3>2, <3>3, <3>4
  <2>2. seen' = [v \in Vantages |-> seen'[v]]
    BY <1>1
  <2>. QED  BY <2>1, <2>2 DEF SeenTyped
<1>3. ASSUME NEW v \in Vantages
      PROVE  /\ AgreesFor(seen'[v].rounds, eng'[v].win, hist[v], s.to.fp)
             /\ ~seen'[v].gap => IsTail(eng'[v].win, hist[v])
  <2>1. eng'[v].win = IF SameTarget(cfg, s.to) /\ eng[v].win # <<>> THEN eng[v].win ELSE s.seed[v]
    BY <1>1 DEF InheritStateFrom
  <2>2. seen[v] \in [rounds : 0 .. HistoryKept, late : BOOLEAN, gap : BOOLEAN]
    BY DEF FollowInv, SeenTyped
  <2>3. CASE SameTarget(cfg, s.to) /\ eng[v].win # <<>>
    <3>1. eng'[v].win = eng[v].win /\ seen'[v].rounds = seen[v].rounds /\ seen'[v].gap = seen[v].gap
      BY <1>1, <2>1, <2>2, <2>3
    <3>2. s.to.fp = cfg.fp
      BY <1>1, <2>3 DEF SameTarget
    <3>3. /\ AgreesFor(seen[v].rounds, eng[v].win, hist[v], cfg.fp)
          /\ ~seen[v].gap => IsTail(eng[v].win, hist[v])
      BY DEF FollowInv, WindowsFollow
    <3>. QED  BY <3>1, <3>2, <3>3
  <2>4. CASE ~(SameTarget(cfg, s.to) /\ eng[v].win # <<>>)
    <3>1. eng'[v].win = s.seed[v] /\ seen'[v].rounds = 0 /\ seen'[v].gap = seen[v].late
      BY <1>1, <2>1, <2>4 DEF Reseeded
    <3>2. s.seed[v] \in Seq(Measured) /\ Len(s.seed[v]) \in Nat
      BY DEF HostInv, SeedsHosted
    <3>3. ~seen[v].late => IsTail(s.seed[v], hist[v])
      BY DEF FollowInv, SeedsFollow
    <3>4. AgreesFor(0, s.seed[v], hist[v], s.to.fp)
      BY <3>2 DEF AgreesFor
    <3>. QED  BY <3>1, <3>3, <3>4
  <2>. QED  BY <2>3, <2>4
<1>4. WindowsFollow'
  BY <1>1, <1>3 DEF WindowsFollow
<1>5. SeedsFollow'
  BY <1>1 DEF SeedsFollow
<1>. QED  BY <1>2, <1>4, <1>5 DEF FollowInv

LEMMA RestartFollows ==
  ASSUME IInv, HostInv, FollowInv, Restart
  PROVE  FollowInv'
<1>1. seen' = [v \in Vantages |-> Reseeded(FALSE)] /\ hist' = hist /\ swap' = {}
  BY DEF Restart
<1>2. SeenTyped'
  BY <1>1, HubAssumption DEF SeenTyped, Reseeded
<1>3. ASSUME NEW v \in Vantages
      PROVE  /\ seen'[v].rounds = 0 /\ IsTail(eng'[v].win, hist'[v])
             /\ eng'[v].win \in Seq(Measured) /\ Len(eng'[v].win) \in Nat
  BY <1>1, RestartWindows DEF Reseeded
<1>4. ASSUME NEW v \in Vantages
      PROVE  /\ AgreesFor(seen'[v].rounds, eng'[v].win, hist'[v], cfg'.fp)
             /\ ~seen'[v].gap => IsTail(eng'[v].win, hist'[v])
  <2>1. AgreesFor(0, eng'[v].win, hist'[v], cfg'.fp)
    BY <1>3 DEF AgreesFor
  <2>. QED  BY <1>3, <2>1
<1>6. WindowsFollow'
  BY <1>4 DEF WindowsFollow
<1>5. SeedsFollow'
  BY <1>1 DEF SeedsFollow
<1>. QED  BY <1>2, <1>5, <1>6 DEF FollowInv

LEMMA FollowStep ==
  ASSUME IInv, HostInv, FollowInv, [Next]_vars
  PROVE  FollowInv'
<1>1. CASE UNCHANGED <<cfg, eng, hist, swap, seen>>
  BY <1>1 DEF FollowInv, SeenTyped, WindowsFollow, SeedsFollow, AgreesFor, IsTail
<1>2. ASSUME NEW v \in Vantages, NEW s \in Samples, Measure(v, s)
      PROVE  UNCHANGED <<cfg, eng, hist, swap, seen>>
  BY <1>2 DEF Measure
<1>3. ASSUME NEW v \in Vantages, CommitRound(v) PROVE FollowInv'
  BY <1>3, CommitFollows
<1>4. ASSUME NEW v \in Vantages, DropRound(v) PROVE UNCHANGED <<cfg, eng, hist, swap, seen>>
  BY <1>4 DEF DropRound
<1>5. ASSUME NEW c \in Configs, SeedReload(c) PROVE FollowInv'
  <2>1. ASSUME NEW s \in swap', NEW v \in Vantages PROVE IsTail(s.seed[v], hist[v])
    <3>1. hist[v] \in Seq(Measured)
      BY DEF HostInv, RoundsTyped
    <3>2. IsTail(<<>>, hist[v])
      BY <3>1, EmptyFollows
    <3>3. s.seed[v] = <<>> \/ IsTail(s.seed[v], hist[v])
      BY <1>5, SeedIs
    <3>. QED  BY <3>2, <3>3
  <2>2. UNCHANGED <<cfg, eng, hist, seen>>
    BY <1>5 DEF SeedReload
  <2>3. SeedsFollow'
    BY <2>1, <2>2 DEF SeedsFollow
  <2>. QED  BY <2>2, <2>3 DEF FollowInv, SeenTyped, WindowsFollow, AgreesFor
<1>6. CASE SwapRuntime
  BY <1>6, SwapFollows
<1>7. CASE Restart
  BY <1>7, RestartFollows
<1>8. CASE UNCHANGED vars
  BY <1>1, <1>8 DEF vars
<1>. QED  BY <1>1, <1>2, <1>3, <1>4, <1>5, <1>6, <1>7, <1>8 DEF Next

LEMMA FollowInit == Init => FollowInv
<1> SUFFICES ASSUME Init PROVE FollowInv
  OBVIOUS
<1>1. <<>> \in Seq(Measured)
  OBVIOUS
<1>2. AgreesFor(0, <<>>, <<>>, cfg.fp) /\ IsTail(<<>>, <<>>)
  BY <1>1, EmptyFollows
<1>3. \A v \in Vantages : eng[v].win = <<>> /\ hist[v] = <<>> /\ seen[v].rounds = 0
  BY DEF Init, Fresh, Reseeded
<1>4. swap = {}
  BY DEF Init
<1>5. SeenTyped
  BY HubAssumption DEF Init, SeenTyped, Reseeded
<1>6. WindowsFollow
  BY Zenon, <1>2, <1>3 DEF WindowsFollow
<1>7. SeedsFollow
  BY <1>4 DEF SeedsFollow
<1>. QED  BY <1>5, <1>6, <1>7 DEF FollowInv

(* A loss alert that begins to fire saw its last X rounds at its threshold *)
(* or above (CheckLoss.Test, hysteresis).                                  *)
LEMMA RiseOfLoss ==
  ASSUME NEW m, m.kind = "loss", m.X \in Nat \ {0}, NEW w \in Seq(Measured), Test(m, w, FALSE)
  PROVE  /\ m.X <= Len(w)
         /\ \A i \in Len(w) - m.X + 1 .. Len(w) : w[i].loss >= m.L
<1>1. PICK x \in Nat \ {0} : x = m.X
  OBVIOUS
<1>2. PICK u \in Seq({e.loss : e \in Measured}) : u = Series("loss", w)
  <2>1. Series("loss", w) \in [1 .. Len(w) -> {e.loss : e \in Measured}]
    BY DEF Series
  <2>2. Series("loss", w) \in Seq({e.loss : e \in Measured})
    BY <2>1
  <2>. QED  BY Zenon, <2>2
<1>3. Len(u) = Len(w) /\ \A i \in 1 .. Len(w) : u[i] = w[i].loss
  BY <1>2 DEF Series
<1>4. PICK t \in Seq({e.loss : e \in Measured}) : t = tailCopy(u, x)
  BY TailCopyIs
<1>5. Len(t) = (IF Len(u) > x THEN x ELSE Len(u)) /\ IsTail(t, u)
  BY <1>4, TailCopyIs
<1>6. hysteresis(u, x, m.L, FALSE)
  BY <1>1, <1>2 DEF Test
<1>7. ~(Len(u) < x) /\ \A i \in DOMAIN t : t[i] >= m.L
  BY <1>4, <1>6 DEF hysteresis
<1>8. Len(t) = x /\ x <= Len(w) /\ Len(w) \in Nat
  BY <1>3, <1>5, <1>7
<1>9. ASSUME NEW i \in Len(w) - x + 1 .. Len(w) PROVE w[i].loss >= m.L
  <2>1. PICK j \in 1 .. x : j = i - (Len(w) - x)
    <3>1. i - (Len(w) - x) \in 1 .. x
      BY <1>8
    <3>. QED  BY Zenon, <3>1
  <2>2. j \in DOMAIN t
    BY <1>8
  <2>3. t[j] >= m.L
    BY <1>7, <2>2
  <2>4. Len(w) - x + j = i /\ i \in 1 .. Len(w)
    BY <1>8, <2>1
  <2>5. t[j] = u[Len(w) - x + j]
    BY <1>3, <1>5, <1>8 DEF IsTail
  <2>6. t[j] = w[i].loss
    BY <1>3, <2>4, <2>5
  <2>. QED  BY <2>3, <2>6
<1>. QED  BY <1>1, <1>8, <1>9

LEMMA LeastOfTwo ==
  ASSUME NEW x \in Nat, NEW k \in Nat
  PROVE  Min({x, k}) \in Nat /\ Min({x, k}) <= x /\ Min({x, k}) <= k
<1>1. {x, k} \in SUBSET Nat /\ {x, k} # {}
  OBVIOUS
<1>2. \E y \in {x, k} : \A z \in {x, k} : y <= z
  BY <1>1, LeastNumber
<1>3. Min({x, k}) \in {x, k} /\ \A z \in {x, k} : Min({x, k}) <= z
  BY <1>2 DEF Min
<1>. QED  BY <1>3

LEMMA RiseIsDue ==
  ASSUME IInv, HostInv, HostInv', FollowInv', NEW v \in Vantages, Evaluates(v), NEW n \in LossAlerts,
         eng'[v].state[n], ~eng[v].state[n]
  PROVE  Due(v, n)
<1> DEFINE m == cfg.def[n].matcher
<1>1. n \in Attached(cfg) /\ m.kind = "loss" /\ n \in Names
  BY HubAssumption DEF LossAlerts, IInv, KnownConfigs
<1>2. m.X \in Nat \ {0} /\ m.X = Length(m)
  BY <1>1, HubAssumption DEF Length, IInv, KnownConfigs
<1>3. PICK w \in Seq(Measured) : w = eng'[v].win
  BY DEF HostInv, WindowsHosted
<1>4. PICK h \in Seq(Measured) : h = hist'[v]
  BY DEF HostInv, RoundsTyped
<1>5. PICK k \in Nat, gap \in BOOLEAN : k = seen'[v].rounds /\ gap = seen'[v].gap
  BY HubAssumption DEF FollowInv, SeenTyped
<1>6. cfg' = cfg /\ \A i \in 1 .. Len(w) : w[i].fp.host = cfg.fp.host
  BY <1>3 DEF HostInv, WindowsHosted, Hosted, Evaluates, CommitRound
<1>7. /\ ~gap => IsTail(w, h)
      /\ \A i \in 1 .. Len(w) : i > Len(w) - k =>
           /\ Len(h) - Len(w) + i \in 1 .. Len(h)
           /\ w[i] = h[Len(h) - Len(w) + i]
           /\ w[i].fp = cfg.fp
  BY <1>3, <1>4, <1>5, <1>6 DEF FollowInv, WindowsFollow, AgreesFor
<1>8. Test(m, w, FALSE)
  <2>1. eng'[v] = Evaluate(eng[v], cfg, Head(flight[v]))
    BY CommitEffect DEF Evaluates, IInv
  <2>2. eng'[v].state = Tested(eng[v], cfg, w)
    BY <1>3, <2>1 DEF Evaluate
  <2>3. Test(m, w, eng[v].state[n])
    BY <1>1, <2>2 DEF Tested
  <2>. QED  BY <2>3 DEF Test, hysteresis
<1> HIDE DEF m
<1>9. PICK x \in Nat \ {0} : x = m.X
  BY <1>2
<1>10. x <= Len(w) /\ \A i \in Len(w) - x + 1 .. Len(w) : w[i].loss >= m.L
  BY <1>1, <1>2, <1>8, <1>9, RiseOfLoss
<1>11. PICK since \in Nat : since = Min({x, k}) /\ since <= x /\ since <= k
  BY LeastOfTwo
<1>12. PICK due \in Nat : due = (IF gap THEN since ELSE x) /\ since <= due /\ due <= x
  BY <1>11
<1>13. ASSUME NEW j \in 1 .. Len(w), j > Len(w) - due
       PROVE  /\ Len(h) - Len(w) + j \in 1 .. Len(h)
              /\ w[j] = h[Len(h) - Len(w) + j]
  <2>1. CASE gap
    <3>1. j > Len(w) - k
      BY <1>11, <1>12, <1>13, <2>1
    <3>. QED  BY <1>7, <3>1
  <2>2. CASE ~gap
    BY <1>7, <2>2 DEF IsTail
  <2>. QED  BY <2>1, <2>2
<1>14. due <= Len(h)
  <2>1. CASE due = 0
    BY <2>1
  <2>2. CASE due # 0
    <3>1. Len(w) - due + 1 \in 1 .. Len(w) /\ Len(w) - due + 1 > Len(w) - due
      BY <1>10, <1>12, <2>2
    <3>2. Len(h) - Len(w) + (Len(w) - due + 1) \in 1 .. Len(h)
      BY <1>13, <3>1
    <3>. QED  BY <3>2
  <2>. QED  BY <2>1, <2>2
<1>15. ASSUME NEW i \in Len(h) - due + 1 .. Len(h)
       PROVE  /\ h[i].loss >= m.L /\ h[i].fp.host = cfg.fp.host
              /\ i > Len(h) - since => h[i].fp = cfg.fp
  <2>1. PICK j \in 1 .. Len(w) : j = i - (Len(h) - Len(w)) /\ j > Len(w) - due
    <3>1. i - (Len(h) - Len(w)) \in 1 .. Len(w) /\ i - (Len(h) - Len(w)) > Len(w) - due
      BY <1>10, <1>12
    <3>. QED  BY Zenon, <3>1
  <2>2. Len(h) - Len(w) + j = i
    BY <2>1
  <2>3. w[j] = h[i]
    BY <1>13, <2>1, <2>2
  <2>4. w[j].loss >= m.L
    <3>1. j \in Len(w) - x + 1 .. Len(w)
      BY <1>10, <1>12, <2>1
    <3>. QED  BY <1>10, <3>1
  <2>5. w[j].fp.host = cfg.fp.host
    BY <1>6
  <2>6. i > Len(h) - since => j > Len(w) - k
    BY <1>11, <2>1
  <2>. QED  BY <1>7, <2>3, <2>4, <2>5, <2>6
<1>. QED  BY <1>4, <1>5, <1>9, <1>11, <1>12, <1>14, <1>15 DEF Due, m

(* A loss alert begins to fire only when the X rounds stored last are at   *)
(* its threshold or above, whatever reloads, seeds and restarts came       *)
(* between: all of the target's host, and of the very target those         *)
(* evaluated since the window was seeded; but where a round was stored     *)
(* between a reload's seed and its swap and no live window took over, only *)
(* the rounds since are known to be the last (docs/alerting.md: "raises    *)
(* once x consecutive rounds are all at or above l% loss").                *)
THEOREM LossAlertsRaiseWhenDue == Spec => RaisesOnConsecutiveRounds
<1>1. IInv /\ HostInv /\ FollowInv /\ [Next]_vars => FollowInv'
  BY FollowStep
<1>2. IInv /\ HostInv /\ HostInv' /\ FollowInv' =>
        [\A v \in Vantages : Evaluates(v) =>
           \A n \in LossAlerts : eng'[v].state[n] /\ ~eng[v].state[n] => Due(v, n)]_vars
  BY RiseIsDue
<1>. QED  BY <1>1, <1>2, FollowInit, HostInvariance, PTL DEF Spec, RaisesOnConsecutiveRounds

-----------------------------------------------------------------------------
(* The third part: what a matcher says of the history it is shown the end  *)
(* of.  Induction is by the least counterexample.                          *)
LEMMA Induction ==
  ASSUME NEW K, 0 \in K, \A k \in Nat : k \in K => k + 1 \in K
  PROVE  \A k \in Nat : k \in K
<1> DEFINE T == {k \in Nat : k \notin K}
<1>1. ASSUME T # {} PROVE FALSE
  <2>1. PICK x \in T : \A y \in T : x <= y
    BY <1>1, LeastNumber
  <2>2. x \in Nat /\ x # 0
    BY <2>1
  <2>3. x - 1 \in Nat /\ x - 1 \notin T /\ x = (x - 1) + 1
    BY <2>1, <2>2
  <2>4. x - 1 \in K
    BY <2>3
  <2>. QED  BY <2>1, <2>3, <2>4
<1>. QED  BY <1>1

(* The table of matchSteps is well defined: a table that is right for the  *)
(* first k steps gives one that is right for one more.                     *)
EndsFrom(steps, series, g, si) ==
  IF si = 0 THEN 0 .. Len(series) ELSE MatchStep(steps[si], series, g[si - 1])

LEMMA EndsExist ==
  ASSUME NEW steps, NEW series, Len(steps) \in Nat
  PROVE  \E g : g = [si \in 0 .. Len(steps) |->
                       IF si = 0 THEN 0 .. Len(series) ELSE MatchStep(steps[si], series, g[si - 1])]
<1> DEFINE n == Len(steps)
           Next1(g) == [si \in 0 .. n |-> EndsFrom(steps, series, g, si)]
           Upto(g, k) == \A si \in 0 .. n : si <= k => g[si] = EndsFrom(steps, series, g, si)
           K == {k \in Nat : \E g : Upto(g, k)}
<1>1. 0 \in K
  <2>1. Upto(Next1(<<>>), 0)
    BY DEF EndsFrom
  <2>. QED  BY <2>1
<1>2. ASSUME NEW k \in Nat, k \in K PROVE k + 1 \in K
  <2>1. PICK g : Upto(g, k)
    BY <1>2
  <2>2. PICK h : h = Next1(g)
    OBVIOUS
  <2>3. ASSUME NEW si \in 0 .. n, si <= k + 1
        PROVE  h[si] = EndsFrom(steps, series, h, si)
    <3>1. h[si] = EndsFrom(steps, series, g, si)
      BY <2>2
    <3>2. CASE si = 0
      BY <3>1, <3>2 DEF EndsFrom
    <3>3. CASE si # 0
      <4>1. si - 1 \in 0 .. n /\ si - 1 <= k
        BY <2>3, <3>3
      <4>2. g[si - 1] = EndsFrom(steps, series, g, si - 1)
        BY <2>1, <4>1
      <4>3. h[si - 1] = g[si - 1]
        BY <2>2, <4>1, <4>2
      <4>. QED  BY <3>1, <3>3, <4>3 DEF EndsFrom
    <3>. QED  BY <3>2, <3>3
  <2>4. Upto(h, k + 1)
    BY <2>3
  <2>. QED  BY <2>4
<1>3. n \in K
  <2>. HIDE DEF K
  <2>. QED  BY <1>1, <1>2, Induction
<1>4. PICK g : Upto(g, n)
  BY <1>3
<1>5. PICK h : h = Next1(g)
  OBVIOUS
<1>6. \A si \in 0 .. n : h[si] = g[si]
  BY <1>4, <1>5
<1>7. ASSUME NEW si \in 0 .. n
      PROVE  EndsFrom(steps, series, g, si) = EndsFrom(steps, series, h, si)
  <2>1. CASE si = 0
    BY <2>1 DEF EndsFrom
  <2>2. CASE si # 0
    <3>1. si - 1 \in 0 .. n
      BY <2>2
    <3>. QED  BY <1>6, <2>2, <3>1 DEF EndsFrom
  <2>. QED  BY <2>1, <2>2
<1>8. h = Next1(h)
  BY <1>5, <1>7
<1>. QED  BY <1>8 DEF EndsFrom

(* Alignments of the first k steps, and what one step of them takes.       *)
Token == [op : STRING, val : Nat]

StepTakes(s, series, a, b) ==
  IF s.op = "skip" THEN b - a \in 0 .. s.val ELSE b = a + 1 /\ matchValue(s, series[b])

AlignedUpTo(steps, series, cut, k) ==
  /\ cut \in [0 .. k -> 0 .. Len(series)]
  /\ \A i \in 1 .. k : StepTakes(steps[i], series, cut[i - 1], cut[i])

LEMMA MatchStepIs ==
  ASSUME NEW s \in Token, NEW series, Len(series) \in Nat,
         NEW before, before \subseteq 0 .. Len(series), NEW pos \in 0 .. Len(series)
  PROVE  pos \in MatchStep(s, series, before) <=>
           \E a \in before : StepTakes(s, series, a, pos)
<1>1. s.val \in Nat /\ before \subseteq Int
  BY DEF Token
<1>2. CASE s.op = "skip"
  <2>1. ASSUME NEW k \in 0 .. s.val, pos - k \in before
        PROVE  \E a \in before : pos - a \in 0 .. s.val
    <3>1. pos - (pos - k) = k
      OBVIOUS
    <3>. QED  BY <2>1, <3>1
  <2>2. ASSUME NEW a \in before, pos - a \in 0 .. s.val
        PROVE  \E k \in 0 .. s.val : pos - k \in before
    <3>1. pos - (pos - a) = a
      BY <1>1
    <3>. QED  BY <2>2, <3>1
  <2>. QED  BY <1>2, <2>1, <2>2 DEF MatchStep, StepTakes
<1>3. CASE s.op # "skip"
  <2>1. ASSUME NEW a \in before, pos = a + 1
        PROVE  pos \in 1 .. Len(series) /\ pos - 1 = a
    BY <1>1, <2>1
  <2>2. ASSUME pos - 1 \in before
        PROVE  \E a \in before : pos = a + 1
    BY <2>2
  <2>. QED  BY <1>3, <2>1, <2>2 DEF MatchStep, StepTakes
<1>. QED  BY <1>2, <1>3

LEMMA EndsAreAligned ==
  ASSUME NEW steps \in Seq(Token), NEW series, Len(series) \in Nat, NEW g,
         \A k \in 0 .. Len(steps) : g[k] = EndsFrom(steps, series, g, k)
  PROVE  \A k \in 0 .. Len(steps) :
           /\ g[k] \subseteq 0 .. Len(series)
           /\ \A pos \in 0 .. Len(series) :
                pos \in g[k] <=> \E cut : AlignedUpTo(steps, series, cut, k) /\ cut[k] = pos
<1> DEFINE n == Len(steps)
           Right(k) == /\ g[k] \subseteq 0 .. Len(series)
                       /\ \A pos \in 0 .. Len(series) :
                            pos \in g[k] <=>
                              \E cut : AlignedUpTo(steps, series, cut, k) /\ cut[k] = pos
           K == {k \in Nat : k \in 0 .. n => Right(k)}
<1>1. 0 \in K
  <2>1. g[0] = 0 .. Len(series)
    BY DEF EndsFrom
  <2>2. ASSUME NEW pos \in 0 .. Len(series)
        PROVE  \E cut : AlignedUpTo(steps, series, cut, 0) /\ cut[0] = pos
    <3>1. AlignedUpTo(steps, series, [i \in 0 .. 0 |-> pos], 0)
      BY DEF AlignedUpTo
    <3>. QED  BY <3>1
  <2>. QED  BY <2>1, <2>2
<1>2. ASSUME NEW k \in Nat, k \in K PROVE k + 1 \in K
  <2>. SUFFICES ASSUME k + 1 \in 0 .. n PROVE Right(k + 1)
    OBVIOUS
  <2>1. k \in 0 .. n /\ Right(k) /\ (k + 1) - 1 = k
    BY <1>2
  <2>2. steps[k + 1] \in Token
    OBVIOUS
  <2>3. g[k + 1] = MatchStep(steps[k + 1], series, g[k])
    BY <2>1 DEF EndsFrom
  <2>4. g[k + 1] \subseteq 0 .. Len(series)
    BY <2>3 DEF MatchStep
  <2>5. ASSUME NEW pos \in 0 .. Len(series), pos \in g[k + 1]
        PROVE  \E cut : AlignedUpTo(steps, series, cut, k + 1) /\ cut[k + 1] = pos
    <3>1. PICK a \in g[k] : StepTakes(steps[k + 1], series, a, pos)
      BY <2>1, <2>2, <2>3, <2>5, MatchStepIs
    <3>2. PICK cut : AlignedUpTo(steps, series, cut, k) /\ cut[k] = a
      BY <2>1
    <3>3. PICK new : new = [i \in 0 .. k + 1 |-> IF i = k + 1 THEN pos ELSE cut[i]]
      OBVIOUS
    <3>4. \A i \in 0 .. k : new[i] = cut[i] /\ cut[i] \in 0 .. Len(series)
      BY <3>2, <3>3 DEF AlignedUpTo
    <3>5. new[k + 1] = pos /\ new[k] = a
      BY <3>2, <3>3, <3>4
    <3>6. new \in [0 .. k + 1 -> 0 .. Len(series)]
      BY <3>3, <3>4
    <3>7. ASSUME NEW i \in 1 .. k + 1 PROVE StepTakes(steps[i], series, new[i - 1], new[i])
      <4>1. CASE i = k + 1
        BY <2>1, <3>1, <3>5, <4>1
      <4>2. CASE i # k + 1
        <5>1. i \in 1 .. k /\ i - 1 \in 0 .. k /\ i \in 0 .. k
          BY <4>2
        <5>2. StepTakes(steps[i], series, cut[i - 1], cut[i])
          BY <3>2, <5>1 DEF AlignedUpTo
        <5>. QED  BY <3>4, <5>1, <5>2
      <4>. QED  BY <4>1, <4>2
    <3>. QED  BY <3>5, <3>6, <3>7 DEF AlignedUpTo
  <2>6. ASSUME NEW pos \in 0 .. Len(series),
               NEW cut, AlignedUpTo(steps, series, cut, k + 1), cut[k + 1] = pos
        PROVE  pos \in g[k + 1]
    <3>1. PICK old : old = [i \in 0 .. k |-> cut[i]]
      OBVIOUS
    <3>2. \A i \in 0 .. k : old[i] = cut[i] /\ cut[i] \in 0 .. Len(series)
      BY <2>6, <3>1 DEF AlignedUpTo
    <3>3. old \in [0 .. k -> 0 .. Len(series)]
      BY <3>1, <3>2
    <3>4. ASSUME NEW i \in 1 .. k PROVE StepTakes(steps[i], series, old[i - 1], old[i])
      <4>1. i \in 1 .. k + 1 /\ i - 1 \in 0 .. k /\ i \in 0 .. k
        OBVIOUS
      <4>2. StepTakes(steps[i], series, cut[i - 1], cut[i])
        BY <2>6, <4>1 DEF AlignedUpTo
      <4>. QED  BY <3>2, <4>1, <4>2
    <3>5. AlignedUpTo(steps, series, old, k)
      BY <3>3, <3>4 DEF AlignedUpTo
    <3>6. old[k] \in g[k]
      BY <2>1, <3>2, <3>5
    <3>7. StepTakes(steps[k + 1], series, old[k], pos)
      <4>1. k + 1 \in 1 .. k + 1 /\ k \in 0 .. k
        OBVIOUS
      <4>2. StepTakes(steps[k + 1], series, cut[(k + 1) - 1], cut[k + 1])
        BY <2>6, <4>1 DEF AlignedUpTo
      <4>. QED  BY <2>1, <2>6, <3>2, <4>1, <4>2
    <3>. QED  BY <2>1, <2>2, <2>3, <3>6, <3>7, MatchStepIs
  <2>. QED  BY <2>4, <2>5, <2>6
<1>3. \A k \in Nat : k \in K
  <2>. HIDE DEF K
  <2>. QED  BY <1>1, <1>2, Induction
<1>. QED  BY <1>3

(* Matching from the right finds an alignment if there is one.             *)
LEMMA MatchesIffAligned ==
  ASSUME NEW steps \in Seq(Token), NEW series, Len(series) \in Nat
  PROVE  matchSteps(steps, series) <=> Aligned(steps, series)
<1> DEFINE n == Len(steps)
           g == CHOOSE h : h = [si \in 0 .. n |->
                                 IF si = 0 THEN 0 .. Len(series)
                                 ELSE MatchStep(steps[si], series, h[si - 1])]
<1>1. n \in Nat /\ DOMAIN steps = 1 .. n
  OBVIOUS
<1>2. g = [si \in 0 .. n |-> IF si = 0 THEN 0 .. Len(series)
                             ELSE MatchStep(steps[si], series, g[si - 1])]
  BY <1>1, EndsExist
<1>3. matchSteps(steps, series) <=> Len(series) \in g[n]
  BY DEF matchSteps
<1> HIDE DEF g
<1>4. \A k \in 0 .. n : g[k] = EndsFrom(steps, series, g, k)
  BY <1>2 DEF EndsFrom
<1>5. \A pos \in 0 .. Len(series) :
        pos \in g[n] <=> \E cut : AlignedUpTo(steps, series, cut, n) /\ cut[n] = pos
  BY <1>1, <1>4, EndsAreAligned
<1>6. Aligned(steps, series) <=>
        \E cut : AlignedUpTo(steps, series, cut, n) /\ cut[n] = Len(series)
  BY <1>1 DEF Aligned, AlignedUpTo, StepTakes
<1>. QED  BY <1>3, <1>5, <1>6

(* A sum over a finite set: any element, and the rest.                     *)
Chosen(s) == CHOOSE x \in s : TRUE

AreSums(g, f, S) ==
  g = [s \in SUBSET S |-> IF s = {} THEN 0 ELSE f[Chosen(s)] + g[s \ {Chosen(s)}]]

SumsOf(f, S) == CHOOSE g : AreSums(g, f, S)

LEMMA SumIsLastOfSums ==
  ASSUME NEW f
  PROVE  SumFunction(f) = SumsOf(f, DOMAIN f)[DOMAIN f]
BY Zenon DEF SumFunction, SumFunctionOnSet, FoldFunctionOnSet, MapThenFoldSet, SumsOf,
             AreSums, Chosen

LEMMA SumsExist ==
  ASSUME NEW f, NEW S, IsFiniteSet(S)
  PROVE  \E g : AreSums(g, f, S)
<1> DEFINE From(g, s) == IF s = {} THEN 0 ELSE f[Chosen(s)] + g[s \ {Chosen(s)}]
           Next1(g) == [s \in SUBSET S |-> From(g, s)]
           Upto(g, k) == \A s \in SUBSET S : Cardinality(s) <= k => g[s] = From(g, s)
           K == {k \in Nat : \E g : Upto(g, k)}
<1>1. ASSUME NEW s \in SUBSET S, s # {}
      PROVE  /\ Chosen(s) \in s /\ s \ {Chosen(s)} \in SUBSET S
             /\ Cardinality(s) \in Nat /\ Cardinality(s \ {Chosen(s)}) = Cardinality(s) - 1
             /\ Cardinality(s) # 0
  <2>1. Chosen(s) \in s
    BY <1>1 DEF Chosen
  <2>2. IsFiniteSet(s)
    BY FS_Subset
  <2>. QED  BY <2>1, <2>2, FS_RemoveElement, FS_CardinalityType, FS_EmptySet
<1>2. \A s \in SUBSET S : s # {} => Cardinality(s) \in Nat \ {0}
  <2>. QED  BY <1>1
<1>3. 0 \in K
  <2>1. PICK h : h = Next1(<<>>)
    OBVIOUS
  <2>2. ASSUME NEW s \in SUBSET S, Cardinality(s) <= 0 PROVE h[s] = From(h, s)
    <3>1. s = {}
      BY <1>2, <2>2
    <3>. QED  BY <2>1, <3>1
  <2>. QED  BY <2>2
<1>4. ASSUME NEW k \in Nat, k \in K PROVE k + 1 \in K
  <2>1. PICK g : Upto(g, k)
    BY <1>4
  <2>2. PICK h : h = Next1(g)
    OBVIOUS
  <2>3. \A s \in SUBSET S : h[s] = From(g, s)
    BY <2>2
  <2>4. ASSUME NEW s \in SUBSET S, Cardinality(s) <= k + 1 PROVE h[s] = From(h, s)
    <3>1. CASE s = {}
      BY <2>3, <3>1
    <3>2. CASE s # {}
      <4>1. PICK r \in SUBSET S : r = s \ {Chosen(s)}
        BY <1>1, <3>2
      <4>2. Cardinality(r) <= k
        BY <1>1, <2>4, <3>2, <4>1
      <4>3. h[r] = g[r]
        BY <2>1, <2>3, <4>2
      <4>4. From(g, s) = f[Chosen(s)] + g[r] /\ From(h, s) = f[Chosen(s)] + h[r]
        BY <3>2, <4>1
      <4>. QED  BY <2>3, <4>3, <4>4
    <3>. QED  BY <3>1, <3>2
  <2>5. Upto(h, k + 1)
    BY <2>4
  <2>. HIDE DEF Upto
  <2>. QED  BY <2>5
<1>5. Cardinality(S) \in K
  <2>1. Cardinality(S) \in Nat
    BY FS_CardinalityType
  <2>. HIDE DEF K
  <2>. QED  BY <1>3, <1>4, <2>1, Induction
<1>6. PICK g : Upto(g, Cardinality(S))
  BY <1>5
<1>7. PICK h : h = Next1(g)
  OBVIOUS
<1>8. ASSUME NEW s \in SUBSET S PROVE g[s] = From(g, s)
  <2>1. Cardinality(s) <= Cardinality(S)
    BY FS_Subset
  <2>. QED  BY <1>6, <2>1
<1>9. \A s \in SUBSET S : h[s] = g[s]
  BY <1>7, <1>8
<1>10. ASSUME NEW s \in SUBSET S PROVE From(g, s) = From(h, s)
  <2>1. CASE s = {}
    BY <2>1
  <2>2. CASE s # {}
    <3>1. h[s \ {Chosen(s)}] = g[s \ {Chosen(s)}]
      BY <1>1, <1>9, <2>2
    <3>. QED  BY <2>2, <3>1
  <2>. QED  BY <2>1, <2>2
<1>11. h = Next1(h)
  <2>. HIDE DEF From
  <2>. QED  BY <1>7, <1>10
<1>. QED  BY <1>11 DEF AreSums

SumsRight(f, g, S) ==
  /\ g[{}] = 0
  /\ \A s \in SUBSET S : g[s] \in Nat
  /\ \A s \in SUBSET S : \A x \in s : g[s] = f[x] + g[s \ {x}]

LEMMA SumsAre ==
  ASSUME NEW S, IsFiniteSet(S), NEW f \in [S -> Nat], NEW g, g = SumsOf(f, S)
  PROVE  SumsRight(f, g, S)
<1>1. g = [s \in SUBSET S |-> IF s = {} THEN 0
                              ELSE f[Chosen(s)] + g[s \ {Chosen(s)}]]
  <2>1. AreSums(g, f, S)
    BY SumsExist DEF SumsOf
  <2>. QED  BY <2>1 DEF AreSums
<1>2. g[{}] = 0
  BY <1>1
<1>3. ASSUME NEW s \in SUBSET S, s # {}
      PROVE  Chosen(s) \in s /\ g[s] = f[Chosen(s)] + g[s \ {Chosen(s)}]
  BY <1>1, <1>3 DEF Chosen
<1> DEFINE Right(s) == g[s] \in Nat /\ \A x \in s : g[s] = f[x] + g[s \ {x}]
           K == {k \in Nat : \A s \in SUBSET S : Cardinality(s) <= k => Right(s)}
<1>4. ASSUME NEW s \in SUBSET S
      PROVE  /\ Cardinality(s) \in Nat /\ (Cardinality(s) = 0 <=> s = {})
             /\ \A x \in s : Cardinality(s \ {x}) = Cardinality(s) - 1
  <2>1. IsFiniteSet(s)
    BY FS_Subset
  <2>. QED  BY <2>1, FS_CardinalityType, FS_EmptySet, FS_RemoveElement
<1>5. 0 \in K
  BY <1>2, <1>4
<1>6. ASSUME NEW k \in Nat, k \in K PROVE k + 1 \in K
  <2>1. ASSUME NEW s \in SUBSET S, Cardinality(s) = k + 1 PROVE Right(s)
    <3>1. s # {}
      BY <1>4, <2>1
    <3>2. PICK c \in s : g[s] = f[c] + g[s \ {c}]
      BY <1>3, <3>1
    <3>3. ASSUME NEW x \in s PROVE Right(s \ {x})
      <4>1. PICK r \in SUBSET S : r = s \ {x}
        OBVIOUS
      <4>2. Cardinality(r) <= k
        BY <1>4, <2>1, <4>1
      <4>3. Right(r)
        BY <1>6, <4>2
      <4>. QED  BY <4>1, <4>3
    <3>4. f[c] \in Nat /\ g[s \ {c}] \in Nat
      BY <3>3
    <3>5. ASSUME NEW x \in s PROVE g[s] = f[x] + g[s \ {x}]
      <4>1. CASE x = c
        BY <3>2, <4>1
      <4>2. CASE x # c
        <5>1. PICK sc \in SUBSET S, sx \in SUBSET S : sc = s \ {c} /\ sx = s \ {x}
          OBVIOUS
        <5>2. PICK r \in SUBSET S : r = s \ {c, x}
          OBVIOUS
        <5>3. sc \ {x} = r /\ sx \ {c} = r /\ x \in sc /\ c \in sx
          BY <4>2, <5>1, <5>2
        <5>4. Right(sc) /\ Right(sx)
          BY <3>3, <5>1
        <5>5. g[s \ {c}] = f[x] + g[r] /\ g[s \ {x}] = f[c] + g[r]
          BY <5>1, <5>3, <5>4
        <5>6. Cardinality(r) <= k
          <6>1. Cardinality(sc) = k /\ Cardinality(r) = Cardinality(sc) - 1
            BY <1>4, <2>1, <5>1, <5>3
          <6>. QED  BY <6>1
        <5>7. g[r] \in Nat
          BY <1>6, <5>6
        <5>8. f[x] \in Nat
          OBVIOUS
        <5>. QED  BY <3>2, <3>4, <5>5, <5>7, <5>8
      <4>. QED  BY <4>1, <4>2
    <3>. QED  BY <3>2, <3>4, <3>5
  <2>2. ASSUME NEW s \in SUBSET S, Cardinality(s) <= k + 1 PROVE Right(s)
    <3>1. Cardinality(s) <= k \/ Cardinality(s) = k + 1
      BY <1>4, <2>2
    <3>. QED  BY <1>6, <2>1, <3>1
  <2>. QED  BY <2>2
<1>7. \A k \in Nat : k \in K
  <2>. HIDE DEF K
  <2>. QED  BY <1>5, <1>6, Induction
<1>8. \A s \in SUBSET S : Right(s)
  BY <1>4, <1>7
<1>. QED  BY <1>2, <1>8 DEF SumsRight

(* Pattern.Length as a sum of what the steps may take.                     *)
LEMMA WidthsAdd ==
  ASSUME NEW steps \in Seq(Token)
  PROVE  \E f, g :
           /\ f \in [1 .. Len(steps) -> Nat]
           /\ \A i \in 1 .. Len(steps) : f[i] = IF steps[i].op = "skip" THEN steps[i].val ELSE 1
           /\ patternLength(steps) = IF g[1 .. Len(steps)] < 1 THEN 1 ELSE g[1 .. Len(steps)]
           /\ SumsRight(f, g, 1 .. Len(steps))
<1>1. PICK f : f = [i \in DOMAIN steps |-> IF steps[i].op = "skip" THEN steps[i].val ELSE 1]
  OBVIOUS
<1>2. patternLength(steps) = IF SumFunction(f) < 1 THEN 1 ELSE SumFunction(f)
  BY <1>1 DEF patternLength
<1>3. PICK n \in Nat : n = Len(steps) /\ DOMAIN steps = 1 .. n
  OBVIOUS
<1>4. \A i \in 1 .. n : steps[i].val \in Nat
  <2>1. \A i \in 1 .. n : steps[i] \in Token
    BY <1>3
  <2>. QED  BY <2>1 DEF Token
<1>5. f \in [1 .. n -> Nat] /\ DOMAIN f = 1 .. n
  BY <1>1, <1>3, <1>4
<1>6. PICK g : g = SumsOf(f, 1 .. n)
  OBVIOUS
<1>7. SumFunction(f) = g[1 .. n]
  BY <1>5, <1>6, SumIsLastOfSums
<1>8. IsFiniteSet(1 .. n)
  BY <1>3, FS_Interval
<1>9. SumsRight(f, g, 1 .. n)
  BY <1>5, <1>6, <1>8, SumsAre
<1>. QED  BY <1>1, <1>2, <1>3, <1>5, <1>7, <1>9

(* An alignment reaches no further back than Pattern.Length.               *)
LEMMA AlignmentsFit ==
  ASSUME NEW steps \in Seq(Token), NEW series, Len(series) \in Nat,
         NEW cut, AlignedUpTo(steps, series, cut, Len(steps))
  PROVE  /\ \A k \in 0 .. Len(steps) : cut[k] \in 0 .. Len(series) /\ cut[0] <= cut[k]
         /\ cut[Len(steps)] - cut[0] <= patternLength(steps)
<1> DEFINE n == Len(steps)
<1>1. PICK f, g :
        /\ f \in [1 .. n -> Nat]
        /\ \A i \in 1 .. n : f[i] = IF steps[i].op = "skip" THEN steps[i].val ELSE 1
        /\ patternLength(steps) = IF g[1 .. n] < 1 THEN 1 ELSE g[1 .. n]
        /\ SumsRight(f, g, 1 .. n)
  BY WidthsAdd
<1>2. n \in Nat /\ DOMAIN steps = 1 .. n
  OBVIOUS
<1> DEFINE Fits(k) == cut[0] <= cut[k] /\ cut[k] - cut[0] <= g[1 .. k]
           K == {k \in Nat : k \in 0 .. n => Fits(k)}
<1>3. SumsRight(f, g, 1 .. n) /\ g[{}] = 0
  BY <1>1 DEF SumsRight
<1>7. \A k \in 0 .. n : cut[k] \in 0 .. Len(series)
  BY DEF AlignedUpTo
<1>8. 0 \in K
  <2>1. g[1 .. 0] = 0 /\ cut[0] \in Int
    BY <1>2, <1>3, <1>7
  <2>. QED  BY <2>1
<1>9. ASSUME NEW k \in Nat, k \in K PROVE k + 1 \in K
  <2>. SUFFICES ASSUME k + 1 \in 0 .. n PROVE Fits(k + 1)
    OBVIOUS
  <2>1. k \in 0 .. n /\ Fits(k) /\ k + 1 \in 1 .. n /\ (k + 1) - 1 = k
    BY <1>2, <1>9
  <2>2. StepTakes(steps[k + 1], series, cut[k], cut[k + 1])
    BY <2>1 DEF AlignedUpTo
  <2>3. cut[k] \in Int /\ cut[k + 1] \in Int /\ cut[0] \in Int
    BY <1>2, <1>7, <2>1
  <2>4. f[k + 1] \in Nat /\ f[k + 1] = IF steps[k + 1].op = "skip" THEN steps[k + 1].val ELSE 1
    BY <1>1, <2>1
  <2>5. cut[k] <= cut[k + 1] /\ cut[k + 1] - cut[k] <= f[k + 1]
    BY <2>2, <2>3, <2>4 DEF StepTakes
  <2>6. g[1 .. k + 1] = f[k + 1] + g[1 .. k] /\ g[1 .. k] \in Nat
    <3>1. PICK s \in SUBSET (1 .. n), r \in SUBSET (1 .. n) : s = 1 .. k + 1 /\ r = 1 .. k
      BY <2>1
    <3>2. k + 1 \in s /\ s \ {k + 1} = r
      BY <2>1, <3>1
    <3>3. g[s] = f[k + 1] + g[s \ {k + 1}] /\ g[r] \in Nat
      BY <1>3, <3>2 DEF SumsRight
    <3>. QED  BY <3>1, <3>2, <3>3
  <2>. QED  BY <2>1, <2>3, <2>4, <2>5, <2>6
<1>10. \A k \in 0 .. n : Fits(k)
  <2>1. \A k \in Nat : k \in K
    <3>. HIDE DEF K
    <3>. QED  BY <1>8, <1>9, Induction
  <2>. QED  BY <2>1
<1>11. g[1 .. n] \in Nat /\ cut[n] \in Int /\ cut[0] \in Int
  <2>1. g[1 .. n] \in Nat
    BY <1>3 DEF SumsRight
  <2>. QED  BY <1>2, <1>7, <2>1
<1>. QED  BY <1>1, <1>2, <1>7, <1>10, <1>11

LEMMA PatternLengthIs ==
  ASSUME NEW steps \in Seq(Token)
  PROVE  patternLength(steps) \in Nat \ {0}
<1>1. PICK f, g :
        /\ f \in [1 .. Len(steps) -> Nat]
        /\ patternLength(steps) = IF g[1 .. Len(steps)] < 1 THEN 1 ELSE g[1 .. Len(steps)]
        /\ SumsRight(f, g, 1 .. Len(steps))
  BY WidthsAdd
<1>2. g[1 .. Len(steps)] \in Nat
  BY <1>1 DEF SumsRight
<1>. QED  BY <1>1, <1>2

(* So any window at least as deep decides as the whole series does.        *)
LEMMA WindowDecides ==
  ASSUME NEW steps \in Seq(Token), NEW z \in Seq(Int), NEW w \in Seq(Int), IsTail(w, z),
         Len(w) = Len(z) \/ Len(w) >= patternLength(steps)
  PROVE  Aligned(steps, w) <=> Aligned(steps, z)
<1> DEFINE n == Len(steps)
<1>1. /\ n \in Nat /\ DOMAIN steps = 1 .. n /\ Len(w) \in Nat /\ Len(z) \in Nat
      /\ patternLength(steps) \in Nat \ {0}
  BY PatternLengthIs
<1>2. PICK d \in Nat : Len(z) = Len(w) + d
  <2>1. Len(z) - Len(w) \in Nat /\ Len(z) = Len(w) + (Len(z) - Len(w))
    BY <1>1 DEF IsTail
  <2>. QED  BY <2>1
<1>3. \A s : Len(s) \in Nat => (Aligned(steps, s) <=>
        \E cut : AlignedUpTo(steps, s, cut, n) /\ cut[n] = Len(s))
  BY <1>1 DEF Aligned, AlignedUpTo, StepTakes
<1>4. ASSUME NEW i \in 1 .. n, NEW a \in 0 .. Len(w), NEW b \in 0 .. Len(w)
      PROVE  StepTakes(steps[i], w, a, b) <=> StepTakes(steps[i], z, a + d, b + d)
  <2>1. (b + d) - (a + d) = b - a /\ (b + d = (a + d) + 1 <=> b = a + 1)
    OBVIOUS
  <2>2. CASE b = a + 1
    <3>1. b \in 1 .. Len(w) /\ Len(z) - Len(w) + b = b + d
      BY <1>2, <1>1, <2>2
    <3>2. w[b] = z[b + d]
      BY <3>1 DEF IsTail
    <3>. QED  BY <2>1, <3>2 DEF StepTakes
  <2>3. CASE b # a + 1
    BY <2>1, <2>3 DEF StepTakes
  <2>. QED  BY <2>2, <2>3
<1>5. ASSUME NEW cut, NEW new,
             \A i \in 0 .. n : /\ cut[i] \in 0 .. Len(w) /\ new[i] = cut[i] + d
      PROVE  \A i \in 1 .. n : StepTakes(steps[i], w, cut[i - 1], cut[i])
                                <=> StepTakes(steps[i], z, new[i - 1], new[i])
  <2>. TAKE i \in 1 .. n
  <2>1. i - 1 \in 0 .. n /\ i \in 0 .. n
    BY <1>1
  <2>2. PICK a \in 0 .. Len(w), b \in 0 .. Len(w) : a = cut[i - 1] /\ b = cut[i]
    BY <1>5, <2>1
  <2>3. new[i - 1] = a + d /\ new[i] = b + d
    BY <1>5, <2>1, <2>2
  <2>. QED  BY <1>4, <2>2, <2>3
<1>6. ASSUME NEW cut, AlignedUpTo(steps, w, cut, n), cut[n] = Len(w)
      PROVE  \E new : AlignedUpTo(steps, z, new, n) /\ new[n] = Len(z)
  <2>1. PICK new : new = [i \in 0 .. n |-> cut[i] + d]
    OBVIOUS
  <2>2. \A i \in 0 .. n : cut[i] \in 0 .. Len(w) /\ new[i] = cut[i] + d
    BY <1>6, <2>1 DEF AlignedUpTo
  <2>3. new \in [0 .. n -> 0 .. Len(z)] /\ new[n] = Len(z)
    <3>1. ASSUME NEW i \in 0 .. n PROVE new[i] \in 0 .. Len(z)
      <4>1. PICK c \in 0 .. Len(w) : cut[i] = c /\ new[i] = c + d
        BY <2>2
      <4>. QED  BY <1>2, <1>1, <4>1
    <3>2. new \in [0 .. n -> 0 .. Len(z)]
      <4>1. DOMAIN new = 0 .. n /\ new = [i \in 0 .. n |-> new[i]]
        BY <2>1
      <4>. QED  BY <3>1, <4>1
    <3>3. new[n] = Len(z)
      <4>1. n \in 0 .. n
        BY <1>1
      <4>2. new[n] = cut[n] + d /\ cut[n] = Len(w)
        BY <1>6, <2>2, <4>1
      <4>. QED  BY <1>1, <1>2, <4>2
    <3>. QED  BY <3>2, <3>3
  <2>4. \A i \in 1 .. n : StepTakes(steps[i], z, new[i - 1], new[i])
    BY <1>5, <1>6, <2>2 DEF AlignedUpTo
  <2>5. AlignedUpTo(steps, z, new, n)
    BY <2>3, <2>4 DEF AlignedUpTo
  <2>. QED  BY <2>3, <2>5
<1>7. ASSUME NEW cut, AlignedUpTo(steps, z, cut, n), cut[n] = Len(z)
      PROVE  \E new : AlignedUpTo(steps, w, new, n) /\ new[n] = Len(w)
  <2>1. /\ \A k \in 0 .. n : cut[k] \in 0 .. Len(z) /\ cut[0] <= cut[k]
        /\ cut[n] - cut[0] <= patternLength(steps)
    BY <1>1, <1>7, AlignmentsFit
  <2>2. cut[0] \in 0 .. Len(z) /\ cut[0] >= d
    BY <1>2, <1>1, <1>7, <2>1
  <2>3. PICK new : new = [i \in 0 .. n |-> cut[i] - d]
    OBVIOUS
  <2>4. ASSUME NEW i \in 0 .. n
        PROVE  new[i] \in 0 .. Len(w) /\ cut[i] = new[i] + d
    <3>1. new[i] = cut[i] - d /\ cut[i] \in 0 .. Len(z) /\ cut[i] >= d
      BY <2>1, <2>2, <2>3
    <3>. QED  BY <1>2, <1>1, <3>1
  <2>5. new \in [0 .. n -> 0 .. Len(w)] /\ new[n] = Len(w)
    BY <1>2, <1>1, <1>7, <2>3, <2>4
  <2>6. \A i \in 1 .. n : StepTakes(steps[i], w, new[i - 1], new[i])
    <3>1. \A i \in 1 .. n : StepTakes(steps[i], w, new[i - 1], new[i])
                           <=> StepTakes(steps[i], z, cut[i - 1], cut[i])
      BY <1>5, <2>4
    <3>. QED  BY <1>7, <3>1 DEF AlignedUpTo
  <2>7. AlignedUpTo(steps, w, new, n)
    BY <2>5, <2>6 DEF AlignedUpTo
  <2>. QED  BY <2>5, <2>7
<1>. QED  BY <1>1, <1>3, <1>6, <1>7

(* The samples of one field, as the matchers see them.                     *)
LEMMA SeriesIs ==
  ASSUME NEW S, NEW h \in Seq(S), NEW field, \A r \in S : r[field] \in Int
  PROVE  /\ Series(field, h) \in Seq(Int) /\ Len(Series(field, h)) = Len(h)
         /\ \A i \in 1 .. Len(h) : Series(field, h)[i] = h[i][field]
<1>1. PICK n \in Nat : n = Len(h) /\ DOMAIN h = 1 .. n
  OBVIOUS
<1>2. \A i \in 1 .. n : h[i][field] \in Int
  BY <1>1
<1>3. Series(field, h) = [i \in 1 .. n |-> h[i][field]]
  BY <1>1 DEF Series
<1>4. Series(field, h) \in [1 .. n -> Int]
  BY <1>2, <1>3
<1>5. Series(field, h) \in Seq(Int) /\ Len(Series(field, h)) = n
  BY <1>4
<1>. QED  BY <1>1, <1>3, <1>5

LEMMA SeriesTail ==
  ASSUME NEW S, NEW h \in Seq(S), NEW w \in Seq(S), IsTail(w, h),
         NEW field, \A r \in S : r[field] \in Int
  PROVE  IsTail(Series(field, w), Series(field, h))
<1>1. /\ Len(Series(field, h)) = Len(h) /\ Len(Series(field, w)) = Len(w)
      /\ \A i \in 1 .. Len(h) : Series(field, h)[i] = h[i][field]
      /\ \A i \in 1 .. Len(w) : Series(field, w)[i] = w[i][field]
  BY SeriesIs
<1>2. Len(w) \in Nat /\ Len(h) \in Nat /\ Len(w) <= Len(h)
  BY DEF IsTail
<1>3. ASSUME NEW i \in 1 .. Len(w)
      PROVE  Series(field, w)[i] = Series(field, h)[Len(h) - Len(w) + i]
  <2>1. Len(h) - Len(w) + i \in 1 .. Len(h)
    BY <1>2
  <2>2. w[i] = h[Len(h) - Len(w) + i]
    BY DEF IsTail
  <2>. QED  BY <1>1, <2>1, <2>2
<1>. QED  BY <1>1, <1>2, <1>3 DEF IsTail

LEMMA SeriesAppend ==
  ASSUME NEW S, NEW h \in Seq(S), NEW r \in S,
         NEW field, \A s \in S : s[field] \in Int
  PROVE  Series(field, Append(h, r)) = Append(Series(field, h), r[field])
<1>1. PICK n \in Nat : n = Len(h) /\ DOMAIN h = 1 .. n
  OBVIOUS
<1>2. PICK a \in Seq(S) : a = Append(h, r)
  <2>1. Append(h, r) \in Seq(S)
    OBVIOUS
  <2>. QED  BY Zenon, <2>1
<1>3. Len(a) = n + 1 /\ a[n + 1] = r /\ \A i \in 1 .. n : a[i] = h[i]
  BY <1>1, <1>2
<1>4. PICK z \in Seq(Int) : z = Series(field, h) /\ Len(z) = n /\ \A i \in 1 .. n : z[i] = h[i][field]
  BY <1>1, SeriesIs
<1>5. PICK y \in Seq(Int) : /\ y = Series(field, a) /\ Len(y) = n + 1
                            /\ \A i \in 1 .. n + 1 : y[i] = a[i][field]
  BY <1>3, SeriesIs
<1>6. PICK b \in Seq(Int) : b = Append(z, r[field])
  <2>1. Append(z, r[field]) \in Seq(Int)
    BY AppendProperties
  <2>. QED  BY Zenon, <2>1
<1>7. Len(b) = n + 1 /\ b[n + 1] = r[field] /\ \A i \in 1 .. n : b[i] = z[i]
  BY <1>4, <1>6
<1>8. ASSUME NEW i \in 1 .. n + 1 PROVE y[i] = b[i]
  <2>1. CASE i = n + 1
    BY <1>3, <1>5, <1>7, <2>1
  <2>2. CASE i # n + 1
    <3>1. i \in 1 .. n
      BY <2>2
    <3>2. y[i] = a[i][field] /\ a[i] = h[i]
      BY <1>3, <1>5, <3>1
    <3>3. b[i] = z[i] /\ z[i] = h[i][field]
      BY <1>4, <1>7, <3>1
    <3>. QED  BY <3>2, <3>3
  <2>. QED  BY <2>1, <2>2
<1>9. y = b
  BY <1>5, <1>7, <1>8, SeqEqual
<1>. QED  BY <1>2, <1>4, <1>5, <1>6, <1>9

(* What x samples in a row say, and what was the last thing said.          *)
BadRun(z, x, L, n) == n >= x /\ \A i \in n - x + 1 .. n : Known(z[i]) /\ z[i] >= L
GoodRun(z, x, L, n) == n >= x /\ \A i \in n - x + 1 .. n : Known(z[i]) /\ ~(z[i] >= L)
Raised(z, x, L) ==
  \E i \in 1 .. Len(z) : BadRun(z, x, L, i) /\ \A j \in i + 1 .. Len(z) : ~GoodRun(z, x, L, j)

(* What the last samples of a series say to a matcher that was at prev.    *)
LastOf(z, x) == Len(z) - x + 1 .. Len(z)
Verdict(z, x, L, prev, last) ==
  IF Len(z) < x \/ \E i \in last : ~Known(z[i]) THEN prev
  ELSE IF prev THEN \E i \in last : z[i] >= L ELSE \A i \in last : z[i] >= L

LEMMA HysteresisIs ==
  ASSUME NEW z \in Seq(Int), NEW w \in Seq(Int), IsTail(w, z),
         NEW x \in Nat \ {0}, NEW L \in Nat, NEW prev \in BOOLEAN,
         Len(w) = Len(z) \/ Len(w) >= x
  PROVE  hysteresis(w, x, L, prev) <=> Verdict(z, x, L, prev, LastOf(z, x))
<1>0. PICK n, last : n = Len(z) /\ last = n - x + 1 .. n /\ last = LastOf(z, x)
  BY DEF LastOf
<1>1. n \in Nat /\ Len(w) \in Nat /\ Len(w) <= n
  BY <1>0 DEF IsTail
<1>2. CASE Len(w) < x
  BY <1>0, <1>1, <1>2 DEF hysteresis, Verdict
<1>3. CASE ~(Len(w) < x)
  <2>1. PICK t \in Seq(Int) : t = tailCopy(w, x)
    BY TailCopyIs
  <2>2. Len(t) = x /\ IsTail(t, w)
    BY <1>1, <1>3, <2>1, TailCopyIs
  <2>3. IsTail(t, z)
    BY <2>2, TailOfTail
  <2>4. DOMAIN t = 1 .. x /\ ~(n < x)
    BY <1>0, <1>1, <1>3, <2>2
  <2>5. ASSUME NEW i \in 1 .. x PROVE n - x + i \in last /\ t[i] = z[n - x + i]
    <3>1. n - x + i \in last
      BY <1>0, <1>1
    <3>2. t[i] = z[Len(z) - Len(t) + i]
      BY <2>2, <2>3 DEF IsTail
    <3>. QED  BY <1>0, <2>2, <3>1, <3>2
  <2>6. \A j \in last : \E i \in 1 .. x : t[i] = z[j]
    <3>. TAKE j \in last
    <3>1. j - (n - x) \in 1 .. x /\ n - x + (j - (n - x)) = j
      BY <1>0, <1>1
    <3>. QED  BY <2>5, <3>1
  <2>7. /\ (\E i \in DOMAIN t : ~Known(t[i])) <=> \E i \in last : ~Known(z[i])
        /\ (\E i \in DOMAIN t : t[i] >= L) <=> \E i \in last : z[i] >= L
        /\ (\A i \in DOMAIN t : t[i] >= L) <=> \A i \in last : z[i] >= L
    BY <2>4, <2>5, <2>6
  <2>8. hysteresis(w, x, L, prev) <=>
          IF \E i \in DOMAIN t : ~Known(t[i]) THEN prev
          ELSE IF prev THEN \E i \in DOMAIN t : t[i] >= L ELSE \A i \in DOMAIN t : t[i] >= L
    <3>1. ~(x <= 0) /\ ~(Len(w) < x)
      BY <1>3
    <3>. QED  BY Zenon, <2>1, <3>1 DEF hysteresis
  <2>9. hysteresis(w, x, L, prev) <=> Verdict(z, x, L, prev, last)
    BY <1>0, <2>4, <2>7, <2>8 DEF Verdict
  <2>. QED  BY <1>0, <2>9
<1>. QED  BY <1>2, <1>3

Longer(y, z) == Len(y) = Len(z) + 1 /\ \A i \in 1 .. Len(z) : y[i] = z[i]

LEMMA HysteresisStep ==
  ASSUME NEW z \in Seq(Int), NEW y \in Seq(Int), NEW w \in Seq(Int),
         Longer(y, z), IsTail(w, y),
         NEW x \in Nat \ {0}, NEW L \in Nat,
         Len(w) = Len(y) \/ Len(w) >= x
  PROVE  hysteresis(w, x, L, Raised(z, x, L)) <=> Raised(y, x, L)
<1>0. PICK prev \in BOOLEAN : prev = Raised(z, x, L)
  BY DEF Raised
<1>1. PICK n \in Nat : n = Len(z) /\ Len(y) = n + 1 /\ \A i \in 1 .. n : y[i] = z[i]
  BY DEF Longer
<1>2. ASSUME NEW j \in 1 .. n
      PROVE  (BadRun(y, x, L, j) <=> BadRun(z, x, L, j)) /\ (GoodRun(y, x, L, j) <=> GoodRun(z, x, L, j))
  <2>1. ASSUME j >= x, NEW i \in j - x + 1 .. j PROVE y[i] = z[i]
    <3>1. i \in 1 .. n
      BY <2>1
    <3>. QED  BY <1>1, <3>1
  <2>. QED  BY <2>1 DEF BadRun, GoodRun
<1>3. Raised(y, x, L) <=> \/ BadRun(y, x, L, n + 1)
                          \/ Raised(z, x, L) /\ ~GoodRun(y, x, L, n + 1)
  <2>1. ASSUME Raised(y, x, L), ~BadRun(y, x, L, n + 1)
        PROVE  Raised(z, x, L) /\ ~GoodRun(y, x, L, n + 1)
    <3>1. PICK i \in 1 .. n + 1 : /\ BadRun(y, x, L, i)
                                  /\ \A j \in i + 1 .. n + 1 : ~GoodRun(y, x, L, j)
      BY <1>1, <2>1 DEF Raised
    <3>2. i \in 1 .. n /\ n + 1 \in i + 1 .. n + 1
      <4>1. i # n + 1
        BY <2>1, <3>1
      <4>. QED  BY <4>1
    <3>3. \A j \in i + 1 .. n : j \in 1 .. n /\ j \in i + 1 .. n + 1
      BY <3>2
    <3>. QED  BY <1>1, <1>2, <3>1, <3>2, <3>3 DEF Raised
  <2>2. ASSUME BadRun(y, x, L, n + 1) PROVE Raised(y, x, L)
    <3>1. n + 1 \in 1 .. n + 1 /\ (n + 1) + 1 .. n + 1 = {}
      OBVIOUS
    <3>. QED  BY <1>1, <2>2, <3>1 DEF Raised
  <2>3. ASSUME Raised(z, x, L), ~GoodRun(y, x, L, n + 1) PROVE Raised(y, x, L)
    <3>1. PICK i \in 1 .. n : /\ BadRun(z, x, L, i)
                              /\ \A j \in i + 1 .. n : ~GoodRun(z, x, L, j)
      BY <1>1, <2>3 DEF Raised
    <3>2. ASSUME NEW j \in i + 1 .. n + 1 PROVE ~GoodRun(y, x, L, j)
      <4>1. CASE j = n + 1
        BY <2>3, <4>1
      <4>2. CASE j # n + 1
        BY <1>2, <3>1, <4>2
      <4>. QED  BY <4>1, <4>2
    <3>3. i \in 1 .. n + 1 /\ BadRun(y, x, L, i)
      BY <1>2, <3>1
    <3>. QED  BY <1>1, <3>2, <3>3 DEF Raised
  <2>. QED  BY <2>1, <2>2, <2>3
<1>4. PICK last : last = (n + 1) - x + 1 .. n + 1
  OBVIOUS
<1>5. hysteresis(w, x, L, prev) <=>
        IF n + 1 < x \/ \E i \in last : ~Known(y[i]) THEN prev
        ELSE IF prev THEN \E i \in last : y[i] >= L ELSE \A i \in last : y[i] >= L
  <2>1. Len(y) = n + 1 /\ last = LastOf(y, x)
    BY <1>1, <1>4 DEF LastOf
  <2>2. hysteresis(w, x, L, prev) <=> Verdict(y, x, L, prev, last)
    BY <2>1, HysteresisIs
  <2>. QED  BY <2>1, <2>2 DEF Verdict
<1>6. /\ BadRun(y, x, L, n + 1) <=> n + 1 >= x /\ \A i \in last : Known(y[i]) /\ y[i] >= L
      /\ GoodRun(y, x, L, n + 1) <=> n + 1 >= x /\ \A i \in last : Known(y[i]) /\ ~(y[i] >= L)
  BY <1>4 DEF BadRun, GoodRun
<1>7. n + 1 \in last
  BY <1>4
<1>8. n + 1 < x <=> ~(n + 1 >= x)
  OBVIOUS
<1>9. hysteresis(w, x, L, prev) <=> Raised(y, x, L)
  BY <1>0, <1>3, <1>5, <1>6, <1>7, <1>8, Zenon
<1>. QED  BY Zenon, <1>0, <1>9

(* What the documentation says of a history, whatever the window.          *)
Fired(m, h) ==
  \/ m.kind = "pattern" /\ Len(h) > 0 /\ Aligned(m.steps, Series(m.field, h))
  \/ m.kind # "pattern" /\ Raised(Series(m.kind, h), m.X, m.L)

WatchInv ==
  /\ matcher \in Matchers
  /\ capacity \in Nat /\ capacity >= Length(matcher)
  /\ history \in Seq(Rounds) /\ window \in Seq(Rounds) /\ IsTail(window, history)
  /\ Len(window) = Len(history) \/ Len(window) >= capacity
  /\ firing \in BOOLEAN /\ (firing <=> Fired(matcher, history))

LEMMA MatcherIs ==
  ASSUME NEW m \in Matchers
  PROVE  /\ Length(m) \in Nat \ {0}
         /\ m.kind # "pattern" => m.kind \in {"loss", "rtt"} /\ m.X \in Nat \ {0} /\ m.L \in Nat
         /\ m.kind = "pattern" =>
              m.field \in {"loss", "rtt"} /\ m.steps \in Seq(Token) /\ m.steps # <<>>
<1>1. IsMatcher(m)
  BY WatchAssumption
<1>2. CASE m.kind = "pattern"
  <2>1. m.field \in {"loss", "rtt"} /\ m.steps \in Seq(Token) /\ Accepted(m.field, m.steps)
    BY <1>1, <1>2 DEF IsMatcher, Token
  <2>2. m.steps # <<>>
    BY <2>1 DEF Accepted
  <2>3. patternLength(m.steps) \in Nat \ {0}
    BY <2>1, PatternLengthIs
  <2>. QED  BY <1>2, <2>1, <2>2, <2>3 DEF Length
<1>3. CASE m.kind # "pattern"
  BY <1>1, <1>3 DEF IsMatcher, Length
<1>. QED  BY <1>2, <1>3

LEMMA RoundIs ==
  ASSUME NEW field \in {"loss", "rtt"}
  PROVE  \A r \in Rounds : r[field] \in Int
BY WatchAssumption DEF U

(* One more round: the window tells what the whole history does.           *)
LEMMA TestTells ==
  ASSUME NEW m \in Matchers, NEW h \in Seq(Rounds), NEW r \in Rounds,
         NEW g \in Seq(Rounds), g = Append(h, r),
         NEW w \in Seq(Rounds), IsTail(w, g), Len(w) = Len(g) \/ Len(w) >= Length(m)
  PROVE  Test(m, w, Fired(m, h)) <=> Fired(m, g)
<1>0. PICK prev \in BOOLEAN : prev = Fired(m, h)
  BY DEF Fired
<1>1. Len(g) = Len(h) + 1 /\ Len(g) > 0 /\ Len(h) \in Nat
  OBVIOUS
<1>2. CASE m.kind = "pattern"
  <2>1. PICK steps \in Seq(Token), field \in {"loss", "rtt"} :
          steps = m.steps /\ field = m.field /\ steps # <<>>
    BY <1>2, MatcherIs
  <2>2. \A s \in Rounds : s[field] \in Int
    BY RoundIs
  <2>3. PICK z \in Seq(Int) : z = Series(field, g) /\ Len(z) = Len(g)
    BY <2>2, SeriesIs
  <2>4. PICK v \in Seq(Int) : v = Series(field, w) /\ Len(v) = Len(w)
    BY <2>2, SeriesIs
  <2>5. IsTail(v, z)
    BY <2>2, <2>3, <2>4, SeriesTail
  <2>6. Len(v) = Len(z) \/ Len(v) >= patternLength(steps)
    BY <1>2, <2>1, <2>3, <2>4 DEF Length
  <2>7. matchSteps(steps, v) <=> Aligned(steps, z)
    <3>1. matchSteps(steps, v) <=> Aligned(steps, v)
      <4>1. Len(v) \in Nat
        OBVIOUS
      <4>. QED  BY <4>1, MatchesIffAligned
    <3>2. Aligned(steps, v) <=> Aligned(steps, z)
      BY <2>5, <2>6, WindowDecides
    <3>. QED  BY <3>1, <3>2
  <2>8. Test(m, w, prev) <=> matchSteps(steps, v)
    BY <1>2, <2>1, <2>4 DEF Test
  <2>9. Fired(m, g) <=> Aligned(steps, z)
    BY <1>1, <1>2, <2>1, <2>3 DEF Fired
  <2>. QED  BY Zenon, <1>0, <2>7, <2>8, <2>9
<1>3. CASE m.kind # "pattern"
  <2>1. PICK field \in {"loss", "rtt"}, x \in Nat \ {0}, L \in Nat :
          field = m.kind /\ x = m.X /\ L = m.L
    BY <1>3, MatcherIs
  <2>2. \A s \in Rounds : s[field] \in Int
    BY RoundIs
  <2>3. PICK z \in Seq(Int) : z = Series(field, h) /\ Len(z) = Len(h)
    BY <2>2, SeriesIs
  <2>4. PICK y \in Seq(Int) : y = Series(field, g) /\ Len(y) = Len(g)
    BY <2>2, SeriesIs
  <2>5. PICK v \in Seq(Int) : v = Series(field, w) /\ Len(v) = Len(w)
    BY <2>2, SeriesIs
  <2>6. IsTail(v, y)
    BY <2>2, <2>4, <2>5, SeriesTail
  <2>7. y = Append(z, r[field])
    BY <2>2, <2>3, <2>4, SeriesAppend
  <2>8. Longer(y, z)
    BY <2>2, <2>7 DEF Longer
  <2>9. Len(v) = Len(y) \/ Len(v) >= x
    BY <1>3, <2>1, <2>4, <2>5 DEF Length
  <2>10. prev = Raised(z, x, L)
    <3>1. prev <=> Raised(z, x, L)
      BY <1>0, <1>3, <2>1, <2>3 DEF Fired
    <3>. QED  BY <3>1 DEF Raised
  <2>11. hysteresis(v, x, L, prev) <=> Raised(y, x, L)
    <3>1. hysteresis(v, x, L, Raised(z, x, L)) <=> Raised(y, x, L)
      BY <2>6, <2>8, <2>9, HysteresisStep
    <3>. QED  BY Zenon, <2>10, <3>1
  <2>12. Test(m, w, prev) <=> hysteresis(v, x, L, prev)
    BY <1>3, <2>1, <2>5 DEF Test
  <2>13. Fired(m, g) <=> Raised(y, x, L)
    BY <1>3, <2>1, <2>4 DEF Fired
  <2>. QED  BY Zenon, <1>0, <2>11, <2>12, <2>13
<1>. QED  BY <1>2, <1>3

LEMMA WatchStarts == InitWatch => WatchInv
<1> SUFFICES ASSUME InitWatch PROVE WatchInv
  OBVIOUS
<1>1. matcher \in Matchers /\ history = <<>> /\ window = <<>> /\ firing = FALSE
  BY DEF InitWatch
<1>2. capacity \in Nat /\ capacity >= Length(matcher)
  <2>1. PICK s \in Spare : capacity = Length(matcher) + s
    BY DEF InitWatch
  <2>2. Length(matcher) \in Nat /\ s \in Nat
    BY <1>1, MatcherIs, WatchAssumption
  <2>. QED  BY <2>1, <2>2
<1>3. ~Fired(matcher, <<>>)
  <2>1. Len(Series(matcher.kind, <<>>)) = 0
    BY DEF Series
  <2>2. ~Raised(Series(matcher.kind, <<>>), matcher.X, matcher.L)
    BY <2>1 DEF Raised
  <2>. QED  BY <2>2 DEF Fired
<1>4. IsTail(window, history) /\ window \in Seq(Rounds) /\ Len(window) = Len(history)
  BY <1>1 DEF IsTail
<1>. QED  BY <1>1, <1>2, <1>3, <1>4 DEF WatchInv

LEMMA WatchStep == WatchInv /\ [NextWatch]_watched => WatchInv'
<1> SUFFICES ASSUME WatchInv, [NextWatch]_watched PROVE WatchInv'
  OBVIOUS
<1> USE DEF WatchInv
<1>1. ASSUME NEW r \in Rounds, NewRound(r) PROVE WatchInv'
  <2>1. /\ matcher' = matcher /\ capacity' = capacity /\ history' = Append(history, r)
        /\ window' = appendCap(window, r, capacity) /\ firing' = Test(matcher, window', firing)
    BY <1>1 DEF NewRound, appendCap
  <2>2. PICK h \in Seq(Rounds), g \in Seq(Rounds) : h = history /\ g = history'
    <3>1. Append(history, r) \in Seq(Rounds)
      OBVIOUS
    <3>. QED  BY Zenon, <2>1, <3>1
  <2>3. PICK m \in Matchers, c \in Nat \ {0} : m = matcher /\ c = capacity /\ c >= Length(m)
    <3>1. Length(matcher) \in Nat \ {0}
      BY MatcherIs
    <3>. QED  BY <3>1
  <2>4. PICK v \in Seq(Rounds), w \in Seq(Rounds) : v = window /\ w = window'
    BY <2>1, <2>3, AppendCapIs
  <2>5. g = Append(h, r) /\ w = appendCap(v, r, c) /\ Len(g) = Len(h) + 1 /\ IsTail(v, h)
    BY <2>1, <2>2, <2>3, <2>4
  <2>6. Len(w) = IF Len(v) + 1 > c THEN c ELSE Len(v) + 1
    <3>1. Len(appendCap(v, r, c)) = IF Len(v) + 1 > c THEN c ELSE Len(v) + 1
      BY AppendCapIs
    <3>. QED  BY <2>5, <3>1
  <2>7. Len(v) \in Nat /\ Len(h) \in Nat /\ Len(v) <= Len(h) /\ Len(w) \in Nat
    BY <2>5 DEF IsTail
  <2>8. Len(w) = Len(g) \/ Len(w) >= c
    BY <2>2, <2>3, <2>4, <2>5, <2>6, <2>7
  <2>9. IsTail(w, g)
    <3>1. PICK n \in Nat \ {0} : n >= c /\ n >= Len(h) + 1
      <4>1. c + Len(h) + 1 \in Nat \ {0} /\ c + Len(h) + 1 >= c /\ c + Len(h) + 1 >= Len(h) + 1
        BY <2>7
      <4>. QED  BY <4>1
    <3>2. IsTail(appendCap(v, r, c), appendCap(h, r, n))
      BY <2>5, <3>1, AppendKeepsTail
    <3>3. appendCap(h, r, n) = g
      BY <2>5, <2>7, <3>1 DEF appendCap, tailCopy
    <3>. QED  BY <2>5, <3>2, <3>3
  <2>10. PICK prev \in BOOLEAN : prev = firing /\ prev = Fired(m, h)
    BY <2>2, <2>3 DEF Fired
  <2>11. Length(m) \in Nat /\ (Len(w) = Len(g) \/ Len(w) >= Length(m))
    BY <2>3, <2>6, <2>8, MatcherIs
  <2>12. Test(m, w, prev) <=> Fired(m, g)
    <3>1. Test(m, w, Fired(m, h)) <=> Fired(m, g)
      BY <2>5, <2>9, <2>11, TestTells
    <3>. QED  BY Zenon, <2>10, <3>1
  <2>13. firing' = Test(m, w, prev) /\ Test(m, w, prev) \in BOOLEAN
    BY <2>1, <2>3, <2>4, <2>10 DEF Test
  <2>. QED  BY <2>1, <2>2, <2>3, <2>4, <2>8, <2>9, <2>12, <2>13
<1>2. CASE UNCHANGED watched
  BY <1>2 DEF watched
<1>. QED  BY <1>1, <1>2 DEF NextWatch

LEMMA WatchTells == WatchInv => FiresAsDocumented
<1> SUFFICES ASSUME WatchInv PROVE FiresAsDocumented
  OBVIOUS
<1> USE DEF WatchInv
<1>1. PatternSeesEnough
  BY DEF PatternSeesEnough, Fired
<1>2. ASSUME matcher.kind # "pattern" PROVE HysteresisRemembers
  <2>1. PICK field \in {"loss", "rtt"}, x \in Nat \ {0}, L \in Nat :
          field = matcher.kind /\ x = matcher.X /\ L = matcher.L
    BY <1>2, MatcherIs
  <2>2. PICK n \in Nat : n = Len(history) /\ DOMAIN history = 1 .. n
    OBVIOUS
  <2>3. PICK z \in Seq(Int) : /\ z = Series(field, history) /\ Len(z) = n
                              /\ \A i \in 1 .. n : z[i] = history[i][field]
    <3>1. \A r \in Rounds : r[field] \in Int
      BY RoundIs
    <3>. QED  BY <2>2, <3>1, SeriesIs
  <2>4. ASSUME NEW j \in 1 .. n
        PROVE  /\ AllBad(j) <=> BadRun(z, x, L, j)
               /\ AllGood(j) <=> GoodRun(z, x, L, j)
    <3>1. j >= x => Run(j) = j - x + 1 .. j
      BY <2>1, <2>2 DEF Run
    <3>2. \A i \in 1 .. n : /\ Bad(history[i]) <=> Known(z[i]) /\ z[i] >= L
                            /\ history[i][matcher.kind] = z[i]
      BY <2>1, <2>3 DEF Bad
    <3>3. j >= x => \A i \in j - x + 1 .. j : i \in 1 .. n
      OBVIOUS
    <3>. QED  BY <2>1, <3>1, <3>2, <3>3 DEF AllBad, AllGood, BadRun, GoodRun
  <2>5. firing <=> Raised(z, x, L)
    BY <1>2, <2>1, <2>3 DEF Fired
  <2>6. \A i \in 1 .. n : \A j \in i + 1 .. n : j \in 1 .. n
    OBVIOUS
  <2>7. Raised(z, x, L) <=> \E i \in 1 .. n : AllBad(i) /\ \A j \in i + 1 .. n : ~AllGood(j)
    BY <2>3, <2>4, <2>6 DEF Raised
  <2>. QED  BY <2>2, <2>5, <2>7 DEF HysteresisRemembers
<1>3. HysteresisRemembers
  BY <1>2 DEF HysteresisRemembers
<1>. QED  BY <1>1, <1>3 DEF FiresAsDocumented

(* Whatever is measured, for however long and however deep the window is   *)
(* beyond what the matcher asked for, a loss or latency alert remembers    *)
(* the last X-in-a-row that said anything, and a pattern fires exactly     *)
(* when it can be aligned with the newest rounds of the whole history      *)
(* (matcher.go's hysteresis, matchSteps and Length).                       *)
THEOREM AlertsFireAsDocumented == SpecWatch => []FiresAsDocumented
<1>1. SpecWatch => []WatchInv
  BY WatchStarts, WatchStep, PTL DEF SpecWatch
<1>. QED  BY <1>1, WatchTells, PTL
=============================================================================
