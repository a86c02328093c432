-------------------------- MODULE SchedulerProofs --------------------------
(***************************************************************************)
(* Proofs about the Scheduler module, for every family of job sets, number *)
(* of workers, sleep, lag and bound.                                       *)
(*                                                                         *)
(* IInv relates the three views the dispatcher has of a job: the set of    *)
(* keys in flight, the goroutines that run, and the batches the wait group *)
(* counts; and it ties the time a round was begun to what is stored.       *)
(***************************************************************************)
EXTENDS Scheduler, WellFoundedInduction, TLAPS

Clock ==
  /\ now \in Nat /\ ticked \in 0 .. now
  /\ jobs \in Configs

PlanTyped ==
  /\ DOMAIN step = DOMAIN next
  /\ \A n \in DOMAIN next : next[n] \in Nat /\ step[n] \in Nat \ {0}

(* What is in flight is what runs, under the key of its target.            *)
PoolConsistent ==
  /\ inflight = {r.key : r \in running}
  /\ \A r \in running : r.key \in Keys /\ r.held = r.key
  /\ \A q, r \in running : q.key = r.key => q = r

(* Every goroutine belongs to a batch that is waited for.                  *)
BatchesCover ==
  /\ \A r \in running : r.batch \in batches
  /\ pc = "returned" => batches = {}

(* A round that has begun was not begun before the one stored last.        *)
StoredBehind ==
  /\ stored \in [Keys -> Nat]
  /\ \A k \in Keys : stored[k] <= now
  /\ \A r \in running : r.phase # "queued" =>
       r.start \in Nat /\ stored[r.key] <= r.start /\ r.start <= now

IInv ==
  /\ Clock /\ PlanTyped /\ PlanOnGrid
  /\ PoolConsistent /\ BatchesCover /\ StoredBehind

-----------------------------------------------------------------------------
(* The delay to the next grid point: at least one, at most an interval,    *)
(* and the sum is on the grid.                                             *)
LEMMA NextDelayOnGrid ==
  ASSUME NEW t \in Nat, NEW s \in Nat \ {0}
  PROVE  /\ NextDelay(t, s) \in 1 .. s
         /\ (t + NextDelay(t, s)) % s = 0
PROOF
<1>1. t = s * (t \div s) + (t % s) /\ t % s \in 0 .. s - 1 /\ t \div s \in Int
  BY SMT
<1>2. t + NextDelay(t, s) = s * (t \div s) + s
  BY <1>1, SMT DEF NextDelay
<1>3. s * (t \div s) + s = s * ((t \div s) + 1)
  BY <1>1, SMT
<1>4. ASSUME NEW q \in Int PROVE (s * q) % s = 0
  BY SMT
<1>5. (s * ((t \div s) + 1)) % s = 0
  <2>1. (t \div s) + 1 \in Int
    BY <1>1
  <2> QED
    BY <2>1, <1>4
<1>6. (t + NextDelay(t, s)) % s = 0
  BY <1>2, <1>3, <1>5
<1>7. NextDelay(t, s) \in 1 .. s
  <2> DEFINE m == t % s
  <2>1. m \in 0 .. s - 1
    BY <1>1
  <2> HIDE DEF m
  <2>2. s - m \in 1 .. s
    BY <2>1
  <2> QED
    BY <2>2 DEF m, NextDelay
<1> QED
  BY <1>6, <1>7

(* The job found by name is one of the live ones.                          *)
LEMMA JobNamedIsLive ==
  ASSUME NEW n \in {j.name : j \in jobs}
  PROVE  JobNamed(n) \in jobs /\ JobNamed(n).name = n
BY DEF JobNamed

-----------------------------------------------------------------------------
LEMMA InitInv == Init => IInv
<1> SUFFICES ASSUME Init PROVE IInv
  OBVIOUS
<1>1. Clock
  BY SchedulerAssumption DEF Init, Clock
<1>2. DOMAIN next = {} /\ DOMAIN step = {}
  BY DEF Init
<1>3. PlanTyped /\ PlanOnGrid
  BY <1>2 DEF PlanTyped, PlanOnGrid
<1>4. PoolConsistent /\ BatchesCover
  BY DEF Init, PoolConsistent, BatchesCover
<1>5. StoredBehind
  BY DEF Init, StoredBehind
<1> QED
  BY <1>1, <1>3, <1>4, <1>5 DEF IInv

(* What Tick plans is typed and on the grid.                               *)
LEMMA PlanInv ==
  ASSUME IInv, Plan, ticked' = now, now' = now
  PROVE  PlanTyped' /\ PlanOnGrid'
<1> DEFINE names == {j.name : j \in jobs}
<1>1. now \in Nat /\ ticked \in 0 .. now /\ jobs \in Configs
  BY DEF IInv, Clock
<1>2. DOMAIN next' = names /\ DOMAIN step' = names
  BY DEF Plan
<1>3. ASSUME NEW n \in names
      PROVE  /\ step'[n] \in Nat \ {0}
             /\ next'[n] \in Nat
             /\ next'[n] % step'[n] = 0
             /\ next'[n] \in now + 1 .. now + step'[n]
  <2> DEFINE j == JobNamed(n)
  <2>1. j \in jobs /\ j.name = n
    BY JobNamedIsLive
  <2>2. j.step \in Nat \ {0}
    BY <2>1, <1>1, SchedulerAssumption
  <2>3. step'[n] = j.step
    BY DEF Plan
  <2>4. CASE Due(j)
    <3>1. next'[n] = now + NextDelay(now, j.step)
      BY <2>4 DEF Plan
    <3>2. NextDelay(now, j.step) \in 1 .. j.step /\ (now + NextDelay(now, j.step)) % j.step = 0
      BY <1>1, <2>2, NextDelayOnGrid
    <3> HIDE DEF j
    <3> QED
      BY <1>1, <2>2, <2>3, <3>1, <3>2
  <2>5. CASE ~Due(j)
    <3>1. next'[n] = next[n]
      BY <2>5 DEF Plan
    <3>2. n \in DOMAIN next /\ step[n] = j.step /\ ~(next[n] <= now)
      BY <2>5, <2>1 DEF Due, Rearmed, IInv, PlanTyped
    <3>3. next[n] \in Nat /\ next[n] % step[n] = 0 /\ next[n] \in ticked + 1 .. ticked + step[n]
      BY <3>2 DEF IInv, PlanTyped, PlanOnGrid
    <3> HIDE DEF j
    <3> QED
      BY <1>1, <2>2, <2>3, <3>1, <3>2, <3>3
  <2> QED
    BY <2>4, <2>5
<1> QED
  BY <1>2, <1>3 DEF PlanTyped, PlanOnGrid

(* The jobs dispatched are new in flight, one per key, and in a batch.     *)
LEMMA GoInv ==
  ASSUME IInv, Go({j \in jobs : Due(j)}), pc' # "returned",
         UNCHANGED <<now, stored>>
  PROVE  PoolConsistent' /\ BatchesCover' /\ StoredBehind'
<1> DEFINE due   == {j \in jobs : Due(j)}
           run   == {j \in due : InflightKey(j) \notin inflight}
           batch == Min((0 .. Cardinality(batches)) \ batches)
           Job(j) == [key |-> j.key, held |-> InflightKey(j), batch |-> batch,
                      budget |-> roundBudget(j), phase |-> "queued", start |-> 0]
<1>1. CASE run = {}
  <2>1. UNCHANGED <<inflight, running, batches>>
    BY <1>1 DEF Go, pool
  <2> QED
    BY <2>1 DEF IInv, PoolConsistent, BatchesCover, StoredBehind
<1>2. CASE run # {}
  <2>1. /\ inflight' = inflight \cup {InflightKey(j) : j \in run}
        /\ batches' = batches \cup {batch}
        /\ running' = running \cup {Job(j) : j \in run}
    BY <1>2 DEF Go
  <2> HIDE DEF batch
  <2>2. \A j \in run : j.key \in Keys /\ j.key \notin inflight
    BY DEF IInv, Clock, Keys, InflightKey
  <2>3. \A i, j \in run : i.key = j.key => i = j
    BY SchedulerAssumption DEF IInv, Clock
  <2>4. \A j \in run : /\ Job(j).key = j.key /\ Job(j).held = j.key
                       /\ Job(j).batch = batch /\ Job(j).phase = "queued"
    BY DEF InflightKey
  <2>5. inflight' = inflight \cup {j.key : j \in run}
    BY <2>1 DEF InflightKey
  <2> HIDE DEF run, Job
  <2>6. PoolConsistent'
    BY <2>1, <2>2, <2>3, <2>4, <2>5 DEF IInv, PoolConsistent
  <2>7. BatchesCover'
    BY <2>1, <2>4 DEF IInv, BatchesCover
  <2>8. StoredBehind'
    BY <2>1, <2>4 DEF IInv, StoredBehind
  <2> QED
    BY <2>6, <2>7, <2>8
<1> QED
  BY <1>1, <1>2

LEMMA StepInv == IInv /\ [Next]_vars => IInv'
<1> SUFFICES ASSUME IInv, [Next]_vars PROVE IInv'
  OBVIOUS
<1> USE DEF planner, loop, pool
<1>1. CASE Tick
  <2>1. Clock'
    BY <1>1 DEF Tick, IInv, Clock
  <2>2. PlanTyped' /\ PlanOnGrid'
    BY <1>1, PlanInv DEF Tick
  <2>3. PoolConsistent' /\ BatchesCover' /\ StoredBehind'
    BY <1>1, GoInv DEF Tick
  <2> QED
    BY <2>1, <2>2, <2>3 DEF IInv
<1>2. CASE Sleep \/ Wake \/ Stop
  BY <1>2 DEF Sleep, Wake, Stop, IInv, Clock, PlanTyped, PlanOnGrid, PoolConsistent,
     BatchesCover, StoredBehind
<1>3. CASE Return
  BY <1>3 DEF Return, IInv, Clock, PlanTyped, PlanOnGrid, PoolConsistent,
     BatchesCover, StoredBehind
<1>4. ASSUME NEW r \in running, StartProbe(r) PROVE IInv'
  <2> DEFINE q == [r EXCEPT !.phase = "probing", !.start = now]
  <2>1. /\ running' = (running \ {r}) \cup {q}
        /\ UNCHANGED <<now, inflight, batches, pc, stored>>
    BY <1>4 DEF StartProbe, Becomes
  <2>2. q.key = r.key /\ q.held = r.held /\ q.batch = r.batch
    OBVIOUS
  <2>3. Clock' /\ PlanTyped' /\ PlanOnGrid'
    BY <1>4 DEF StartProbe, IInv, Clock, PlanTyped, PlanOnGrid
  <2>4. q.start = now \/ (q.start = r.start /\ q.phase = r.phase)
    OBVIOUS
  <2> HIDE DEF q
  <2>5. PoolConsistent' /\ BatchesCover'
    BY <2>1, <2>2 DEF IInv, PoolConsistent, BatchesCover
  <2>6. StoredBehind'
    BY <2>1, <2>2, <2>4 DEF IInv, Clock, PoolConsistent, StoredBehind
  <2> QED
    BY <2>3, <2>5, <2>6 DEF IInv
<1>5. ASSUME NEW r \in running, ProbeReturns(r) PROVE IInv'
  <2> DEFINE q == [r EXCEPT !.phase = "storing"]
  <2>1. /\ running' = (running \ {r}) \cup {q}
        /\ r.phase = "probing"
        /\ UNCHANGED <<now, inflight, batches, pc, stored>>
    BY <1>5 DEF ProbeReturns, Becomes, HeldThroughStore
  <2>2. q.key = r.key /\ q.held = r.held /\ q.batch = r.batch /\ q.start = r.start
    OBVIOUS
  <2>3. Clock' /\ PlanTyped' /\ PlanOnGrid'
    BY <1>5 DEF ProbeReturns, IInv, Clock, PlanTyped, PlanOnGrid
  <2> HIDE DEF q
  <2>4. PoolConsistent' /\ BatchesCover'
    BY <2>1, <2>2 DEF IInv, PoolConsistent, BatchesCover
  <2>5. StoredBehind'
    BY <2>1, <2>2 DEF IInv, PoolConsistent, StoredBehind
  <2> QED
    BY <2>3, <2>4, <2>5 DEF IInv
<1>6. ASSUME NEW r \in running, StoreResult(r) PROVE IInv'
  <2>1. /\ running' = running \ {r} /\ r.phase = "storing"
        /\ stored' = [stored EXCEPT ![r.key] = r.start]
        /\ inflight' = inflight \ {r.held}
        /\ UNCHANGED <<now, batches, pc>>
    BY <1>6 DEF StoreResult, Released
  <2>2. Clock' /\ PlanTyped' /\ PlanOnGrid'
    BY <1>6 DEF StoreResult, IInv, Clock, PlanTyped, PlanOnGrid
  <2>3. PoolConsistent' /\ BatchesCover'
    BY <2>1 DEF IInv, PoolConsistent, BatchesCover
  <2>4. StoredBehind'
    BY <2>1 DEF IInv, PoolConsistent, StoredBehind
  <2> QED
    BY <2>2, <2>3, <2>4 DEF IInv
<1>7. ASSUME NEW b \in batches, EndBatch(b) PROVE IInv'
  <2>1. /\ batches' = batches \ {b} /\ \A r \in running : r.batch # b
        /\ UNCHANGED <<now, pc, inflight, running, stored>>
    BY <1>7 DEF EndBatch, BatchOver
  <2>2. Clock' /\ PlanTyped' /\ PlanOnGrid'
    BY <1>7 DEF EndBatch, IInv, Clock, PlanTyped, PlanOnGrid
  <2>3. PoolConsistent' /\ BatchesCover' /\ StoredBehind'
    BY <2>1 DEF IInv, PoolConsistent, BatchesCover, StoredBehind
  <2> QED
    BY <2>2, <2>3 DEF IInv
<1>8. ASSUME NEW c \in Configs, Reload(c) PROVE IInv'
  BY <1>8 DEF Reload, IInv, Clock, PlanTyped, PlanOnGrid, PoolConsistent,
     BatchesCover, StoredBehind
<1>9. CASE Cancel
  BY <1>9 DEF Cancel, IInv, Clock, PlanTyped, PlanOnGrid, PoolConsistent,
     BatchesCover, StoredBehind
<1>10. CASE Advance
  <2>1. now' = now + 1 /\ UNCHANGED <<jobs, planner, loop, pool, stored>>
    BY <1>10 DEF Advance
  <2>2. Clock' /\ PlanTyped' /\ PlanOnGrid'
    BY <2>1 DEF IInv, Clock, PlanTyped, PlanOnGrid
  <2>3. PoolConsistent' /\ BatchesCover'
    BY <2>1 DEF IInv, PoolConsistent, BatchesCover
  <2>4. StoredBehind'
    BY <2>1 DEF IInv, Clock, PoolConsistent, StoredBehind
  <2> QED
    BY <2>2, <2>3, <2>4 DEF IInv
<1>11. CASE UNCHANGED vars
  BY <1>11 DEF vars, IInv, Clock, PlanTyped, PlanOnGrid, PoolConsistent,
     BatchesCover, StoredBehind
<1> QED
  BY <1>1, <1>2, <1>3, <1>4, <1>5, <1>6, <1>7, <1>8, <1>9, <1>10, <1>11
  DEF Next, LoopStep, Starts, Finishes

LEMMA InvariantHolds == Spec => []IInv
BY InitInv, StepInv, PTL DEF Spec

-----------------------------------------------------------------------------
(* A target is never measured twice at a time, from its dispatch to the    *)
(* end of the storing of its result, whatever reloads do, and what is in   *)
(* flight is what runs (Dispatcher.Go).                                    *)
THEOREM TargetsNeverOverlap == Spec => []NeverOverlapsItself
<1>1. IInv => NeverOverlapsItself
  BY DEF IInv, PoolConsistent, NeverOverlapsItself
<1> QED
  BY InvariantHolds, <1>1, PTL

(* The plan stays on the grid, for every interval and lag, through changes *)
(* of intervals (Planner.Tick, NextDelay).                                 *)
THEOREM PlanStaysOnGrid == Spec => []PlanOnGrid
<1>1. IInv => PlanOnGrid
  BY DEF IInv
<1> QED
  BY InvariantHolds, <1>1, PTL

(* When the loop has returned no probe runs and no result is being stored  *)
(* (Dispatcher.Wait, and main's wait on pollDone).                         *)
THEOREM ReturnsDrained == Spec => []DrainedOnReturn
<1>1. IInv => DrainedOnReturn
  BY DEF IInv, BatchesCover, DrainedOnReturn
<1> QED
  BY InvariantHolds, <1>1, PTL

(* A target's rounds are stored in the order they were begun (the target   *)
(* stays in flight through onEach).                                        *)
THEOREM ResultsStoredInOrder == Spec => StoredInOrder
<1>1. IInv /\ [Next]_vars => [\A k \in Keys : stored'[k] >= stored[k]]_vars
  <2> SUFFICES ASSUME IInv, Next PROVE \A k \in Keys : stored'[k] >= stored[k]
    OBVIOUS
  <2>1. \A k \in Keys : stored[k] \in Nat
    BY DEF IInv, StoredBehind
  <2>2. ASSUME NEW r \in running, StoreResult(r)
        PROVE  \A k \in Keys : stored'[k] >= stored[k]
    <3>1. stored' = [stored EXCEPT ![r.key] = r.start] /\ r.phase = "storing"
      BY <2>2 DEF StoreResult
    <3>2. r.start \in Nat /\ stored[r.key] <= r.start /\ stored \in [Keys -> Nat]
      BY <3>1 DEF IInv, StoredBehind
    <3> QED
      BY <2>1, <3>1, <3>2
  <2>3. CASE UNCHANGED stored
    BY <2>1, <2>3
  <2> QED
    BY <2>2, <2>3 DEF Next, LoopStep, Tick, Sleep, Wake, Stop, Return, Starts, Finishes,
       StartProbe, ProbeReturns, EndBatch, Reload, Cancel, Advance
<1> QED
  BY InvariantHolds, <1>1, PTL DEF Spec, StoredInOrder

-----------------------------------------------------------------------------
(* The firing that is planned is that of the next interval, and the loop   *)
(* is late for it by no more than Lag.                                     *)
NextInterval ==
  /\ DOMAIN fired = DOMAIN next
  /\ \A n \in DOMAIN next :
       fired[n] \in Nat /\ next[n] = step[n] * (fired[n] + 1)

InTime(t) ==
  /\ t \in Nat
  /\ t <= ticked + Lag \/ \A n \in DOMAIN next : t <= next[n]

OnTime ==
  /\ pc \in {"tick", "asleep"} => InTime(now)
  /\ pc = "planned" => now <= ticked + Lag
  /\ pc = "asleep" => now <= wake /\ InTime(wake)

FiringInv == NextInterval /\ OnTime

(* A set of numbers has a least one.                                       *)
LEMMA LeastNumber ==
  ASSUME NEW T \in SUBSET Nat, T # {}
  PROVE  \E x \in T : \A y \in T : x <= y
<1>1. PICK x \in T : \A y \in T : ~(<<y, x>> \in OpToRel(<, Nat))
  BY NatLessThanWellFounded, WFMin
<1>2. ASSUME NEW y \in T PROVE x <= y
  <2>1. x \in Nat /\ y \in Nat
    OBVIOUS
  <2>2. ~(<<y, x>> \in {ss \in Nat \X Nat : ss[1] < ss[2]})
    BY <1>1 DEF OpToRel
  <2>3. ~(y < x)
    BY <2>1, <2>2
  <2>. QED  BY <2>1, <2>3
<1>. QED  BY <1>2

(* The loop sleeps to the first firing planned, or not at all.             *)
LEMMA SleepIsShort ==
  ASSUME IInv
  PROVE  /\ SleepToNext \in Nat
         /\ SleepToNext = 0 \/ \A n \in DOMAIN next : now + SleepToNext <= next[n]
<1>. DEFINE S == {MaxSleep} \cup {next[n] - now : n \in DOMAIN next}
            T == {MaxSleep + now} \cup {next[n] : n \in DOMAIN next}
<1>1. now \in Nat /\ MaxSleep \in Nat /\ \A n \in DOMAIN next : next[n] \in Nat
  BY SchedulerAssumption DEF IInv, Clock, PlanTyped
<1>2. PICK x \in T : \A y \in T : x <= y
  <2>1. T \in SUBSET Nat /\ T # {}
    BY <1>1
  <2>. HIDE DEF T
  <2>. QED  BY <2>1, LeastNumber
<1>3. x - now \in S /\ (\A y \in S : x - now <= y) /\ \A y \in S : y \in Int
  BY <1>1, <1>2
<1>. DEFINE m == Min(S)
<1>4. m \in S /\ \A y \in S : m <= y
  <2>. HIDE DEF S
  <2>. QED  BY <1>3 DEF Min
<1>5. m \in Int /\ \A n \in DOMAIN next : m <= next[n] - now
  BY <1>3, <1>4
<1>6. SleepToNext = Max({0, m})
  BY DEF SleepToNext
<1>. HIDE DEF m
<1>7. Max({0, m}) \in {0, m} /\ Max({0, m}) >= 0 /\ Max({0, m}) >= m
  <2>1. \E z \in {0, m} : \A y \in {0, m} : z >= y
    BY <1>5
  <2>. QED  BY <2>1 DEF Max
<1>8. SleepToNext = 0 \/ SleepToNext = m
  BY <1>6, <1>7
<1>. QED  BY <1>1, <1>5, <1>6, <1>7, <1>8

(* Division, at a time within an interval.                                 *)
LEMMA IntervalOf ==
  ASSUME NEW t \in Nat, NEW s \in Nat \ {0}, NEW k \in Nat,
         s * k <= t, t < s * (k + 1)
  PROVE  t \div s = k
<1>1. t = s * (t \div s) + (t % s) /\ t % s \in 0 .. s - 1 /\ t \div s \in Nat
  BY SMT
<1>. DEFINE q == t \div s
<1>2. q \in Nat /\ s * q <= t /\ t < s * q + s
  BY <1>1
<1>. HIDE DEF q
<1>3. s * (k + 1) = s * k + s
  BY SMT
<1>4. ASSUME q < k PROVE FALSE
  <2>1. s * (q + 1) <= s * k /\ s * (q + 1) = s * q + s
    BY <1>2, <1>4, SMT
  <2>. QED  BY <1>2, <2>1, SMT
<1>5. ASSUME q > k PROVE FALSE
  <2>1. s * (k + 1) <= s * q
    BY <1>2, <1>5, SMT
  <2>. QED  BY <1>2, <2>1, SMT
<1>6. q = k
  BY <1>2, <1>4, <1>5
<1>. QED  BY <1>6 DEF q

(* Where the grid's next point lies.                                       *)
LEMMA NextGridPoint ==
  ASSUME NEW t \in Nat, NEW s \in Nat \ {0}
  PROVE  t \div s \in Nat /\ t + NextDelay(t, s) = s * ((t \div s) + 1)
<1>1. t = s * (t \div s) + (t % s) /\ t % s \in 0 .. s - 1 /\ t \div s \in Nat
  BY SMT
<1>2. t + NextDelay(t, s) = s * (t \div s) + s
  BY <1>1, SMT DEF NextDelay
<1>. QED  BY <1>1, <1>2, SMT

LEMMA InitFiring == Init => FiringInv
<1>. SUFFICES ASSUME Init PROVE FiringInv
  OBVIOUS
<1>1. DOMAIN next = {} /\ DOMAIN fired = {} /\ pc = "tick" /\ now = 0 /\ ticked = 0
  BY DEF Init
<1>. QED  BY <1>1, SchedulerAssumption DEF FiringInv, NextInterval, OnTime, InTime

(* What Tick records is the interval it ticks in.                          *)
LEMMA TickFires ==
  ASSUME IInv, FiringInv, Tick
  PROVE  /\ FiringInv'
         /\ \A n \in DOMAIN fired \cap DOMAIN fired' :
              step'[n] = step[n] /\ Lag <= step[n] => fired'[n] \in {fired[n], fired[n] + 1}
<1>. DEFINE names == {j.name : j \in jobs}
<1>1. now \in Nat /\ ticked \in 0 .. now /\ jobs \in Configs /\ Lag \in Nat
  BY SchedulerAssumption DEF IInv, Clock
<1>2. /\ DOMAIN next' = names /\ DOMAIN fired' = names /\ now' = now /\ ticked' = now
      /\ pc = "tick" /\ pc' = "planned"
  BY DEF Tick, Plan
<1>3. ASSUME NEW n \in names
      PROVE  /\ fired'[n] \in Nat /\ next'[n] = step'[n] * (fired'[n] + 1)
             /\ n \in DOMAIN fired /\ step'[n] = step[n] /\ Lag <= step[n]
                  => fired'[n] \in {fired[n], fired[n] + 1}
  <2>. DEFINE j == JobNamed(n)
  <2>1. j \in jobs /\ j.name = n
    BY JobNamedIsLive
  <2>2. j.step \in Nat \ {0}
    BY <2>1, <1>1, SchedulerAssumption
  <2>3. step'[n] = j.step
    BY DEF Tick, Plan
  <2>4. CASE Due(j)
    <3>1. next'[n] = now + NextDelay(now, j.step) /\ fired'[n] = now \div j.step
      BY <2>4 DEF Tick, Plan
    <3>2. /\ now \div j.step \in Nat
          /\ now + NextDelay(now, j.step) = j.step * ((now \div j.step) + 1)
      BY <1>1, <2>2, NextGridPoint
    <3>3. ASSUME n \in DOMAIN fired, step'[n] = step[n], Lag <= step[n]
          PROVE  fired'[n] = fired[n] + 1
      <4>1. n \in DOMAIN next /\ step[n] = j.step /\ next[n] <= now
        BY <2>1, <2>3, <2>4, <3>3 DEF Due, Rearmed, FiringInv, NextInterval
      <4>2. fired[n] \in Nat /\ next[n] = j.step * (fired[n] + 1) /\ next[n] \in ticked + 1 .. ticked + j.step
        BY <4>1 DEF FiringInv, NextInterval, IInv, PlanOnGrid
      <4>3. now <= ticked + Lag \/ now <= next[n]
        BY <1>2, <4>1 DEF FiringInv, OnTime, InTime
      <4>. DEFINE k == fired[n] + 1
                  s == j.step
      <4>4. k \in Nat /\ s \in Nat \ {0} /\ next[n] = s * k /\ Lag <= s
        <5>1. k \in Nat /\ next[n] = s * k
          BY <4>2
        <5>2. step[n] = s /\ s \in Nat \ {0}
          BY <2>2, <4>1
        <5>. QED  BY <3>3, <5>1, <5>2
      <4>. HIDE DEF k, s
      <4>5. s * (k + 1) = s * k + s
        BY <4>4, SMT
      <4>6. next[n] <= now /\ now < next[n] + s
        BY <1>1, <4>1, <4>2, <4>3, <4>4
      <4>7. s * k <= now /\ now < s * (k + 1)
        BY <4>4, <4>5, <4>6
      <4>8. now \div s = k
        BY <1>1, <4>4, <4>7, IntervalOf
      <4>. QED  BY <3>1, <4>8 DEF k, s
    <3>. QED  BY <2>3, <3>1, <3>2, <3>3
  <2>5. CASE ~Due(j)
    <3>1. next'[n] = next[n] /\ fired'[n] = fired[n]
      BY <2>5 DEF Tick, Plan
    <3>2. n \in DOMAIN next /\ step[n] = j.step
      BY <2>5, <2>1 DEF Due, Rearmed, IInv, PlanTyped
    <3>. QED  BY <2>3, <3>1, <3>2 DEF FiringInv, NextInterval
  <2>. QED  BY <2>4, <2>5
<1>4. NextInterval'
  BY <1>2, <1>3 DEF NextInterval
<1>5. OnTime'
  BY <1>1, <1>2 DEF OnTime
<1>. QED  BY <1>2, <1>3, <1>4, <1>5 DEF FiringInv

LEMMA NextFiring ==
  IInv /\ FiringInv /\ [Next]_vars =>
    /\ FiringInv'
    /\ \/ Tick
       \/ UNCHANGED <<next, step, fired>>
<1>. SUFFICES ASSUME IInv, FiringInv, [Next]_vars
              PROVE  FiringInv' /\ (Tick \/ UNCHANGED <<next, step, fired>>)
  OBVIOUS
<1>. USE DEF planner, loop
<1>0. now \in Nat /\ ticked \in 0 .. now /\ Lag \in Nat
  BY SchedulerAssumption DEF IInv, Clock
<1>1. CASE Tick
  BY <1>1, TickFires
<1>2. CASE Sleep
  <2>1. /\ SleepToNext \in Nat
        /\ SleepToNext = 0 \/ \A n \in DOMAIN next : now + SleepToNext <= next[n]
    BY SleepIsShort
  <2>2. /\ wake' = now + SleepToNext /\ pc = "planned" /\ pc' = "asleep"
        /\ UNCHANGED <<now, next, step, fired, ticked>>
    BY <1>2 DEF Sleep
  <2>3. now <= ticked + Lag
    BY <2>2 DEF FiringInv, OnTime
  <2>. HIDE DEF SleepToNext
  <2>. QED  BY <1>0, <2>1, <2>2, <2>3 DEF FiringInv, NextInterval, OnTime, InTime
<1>3. CASE Wake
  BY <1>0, <1>3 DEF Wake, FiringInv, NextInterval, OnTime, InTime
<1>4. CASE Stop \/ Return
  BY <1>4 DEF Stop, Return, FiringInv, NextInterval, OnTime, InTime
<1>5. CASE Advance
  <2>1. /\ pc # "tick" /\ (pc = "planned" => now < ticked + Lag) /\ (pc = "asleep" => now < wake)
        /\ now' = now + 1 /\ UNCHANGED <<next, step, fired, pc, ticked, wake>>
    BY <1>5 DEF Advance
  <2>2. NextInterval'
    BY <2>1 DEF FiringInv, NextInterval
  <2>3. ASSUME pc = "planned" PROVE OnTime'
    BY <1>0, <2>1, <2>3 DEF OnTime
  <2>4. ASSUME pc = "asleep" PROVE OnTime'
    <3>1. now + 1 <= wake /\ InTime(wake)
      BY <1>0, <2>1, <2>4 DEF FiringInv, OnTime, InTime
    <3>2. InTime(now + 1)
      <4>1. \A n \in DOMAIN next : next[n] \in Nat
        BY DEF IInv, PlanTyped
      <4>. QED  BY <1>0, <3>1, <4>1 DEF InTime
    <3>. QED  BY <2>1, <2>4, <3>1, <3>2 DEF OnTime, InTime
  <2>5. ASSUME pc \notin {"planned", "asleep"} PROVE OnTime'
    BY <2>1, <2>5 DEF OnTime
  <2>6. UNCHANGED <<next, step, fired>>
    BY <2>1
  <2>. QED  BY <2>2, <2>3, <2>4, <2>5, <2>6 DEF FiringInv
<1>6. CASE UNCHANGED <<now, planner, loop>>
  BY <1>6 DEF FiringInv, NextInterval, OnTime, InTime
<1>. QED
  BY <1>1, <1>2, <1>3, <1>4, <1>5, <1>6
  DEF Next, LoopStep, Starts, Finishes, StartProbe, ProbeReturns, StoreResult, EndBatch,
      Reload, Cancel, vars

(* A target whose interval stays fires in each of its intervals, for every *)
(* interval that is not shorter than the loop's lag: neither the tick, nor *)
(* the sleep computed after it, nor a reload leaves one out (Planner.Tick, *)
(* SleepToNext).                                                           *)
THEOREM NoIntervalSkipped == Spec => FiresEveryInterval
<1>. DEFINE Fires == \A n \in DOMAIN fired \cap DOMAIN fired' :
               step'[n] = step[n] /\ Lag <= step[n] => fired'[n] \in {fired[n], fired[n] + 1}
<1>1. IInv /\ FiringInv /\ [Next]_vars => FiringInv' /\ Fires
  BY NextFiring, TickFires
<1>. HIDE DEF Fires
<1>2. Spec => [][Fires]_vars
  <2>1. IInv /\ FiringInv /\ [Next]_vars => FiringInv'
    BY <1>1
  <2>2. IInv /\ FiringInv /\ [Next]_vars => [Fires]_vars
    BY <1>1
  <2>. QED  BY <2>1, <2>2, InitFiring, InvariantHolds, PTL DEF Spec
<1>. QED  BY <1>2 DEF Fires, FiresEveryInterval

=============================================================================
