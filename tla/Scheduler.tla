----------------------------- MODULE Scheduler -----------------------------
(***************************************************************************)
(* The polling loop of the hub (cmd/smoked/main.go), which is also the     *)
(* agent's measure loop, over the planner, which knows when each target is *)
(* due, and the dispatcher, which runs the due jobs on a bounded pool      *)
(* without blocking the loop (internal/scheduler/scheduler.go).            *)
(*                                                                         *)
(* A job is [key, name, step, want]: the target's stable id, its display   *)
(* name, its polling interval, and Timeout * Pings.  The planner goes by   *)
(* name, the dispatcher by key.  Time is discrete: the loop wakes when its *)
(* timer fires, and an iteration may take up to Lag; a probe ends by its   *)
(* deadline; a wait for a worker slot and the storing of a result may take *)
(* any time.  What was measured, and whether it failed or panicked, does   *)
(* not matter to the scheduling and is left out.                           *)
(***************************************************************************)
EXTENDS Integers, FiniteSets, FiniteSetsExt

CONSTANTS
  Configs,     \* the job sets a reload may install
  Boot,        \* the one at start
  Workers,     \* the dispatcher's cap
  MaxSleep,    \* the longest the loop sleeps
  Lag,         \* the longest an iteration of the loop takes
  MaxTime,     \* bound: how long the clock runs
  MaxReloads   \* bound: how often the job set changes

Keys  == {j.key : j \in UNION Configs}
Names == {j.name : j \in UNION Configs}

ASSUME SchedulerAssumption ==
  /\ Boot \in Configs
  /\ \A c \in Configs : \A i, j \in c :
       i.key = j.key \/ i.name = j.name => i = j
  /\ \A j \in UNION Configs : {j.step, j.want} \subseteq Nat \ {0}
  /\ Workers \in Nat \ {0} /\ MaxSleep \in Nat \ {0}
  /\ Lag \in Nat /\ MaxTime \in Nat /\ MaxReloads \in Nat

VARIABLES
  now,        \* the clock
  jobs,       \* the live runtime's jobs
  next, step, \* Planner.next and Planner.step: functions on the names known
  pc,         \* the loop: "tick", "planned", "asleep", "waiting", "returned"
  ticked,     \* when the loop last ticked
  wake,       \* when its timer fires
  inflight,   \* Dispatcher.inflight
  running,    \* the job goroutines
  batches,    \* Go's goroutines, which the dispatcher's wait group counts
  ctxDone,    \* the run context is cancelled
  stored,     \* per key, when the round stored last was begun
  fired,      \* history: per name known, the interval of its last firing
  reloads

planner == <<next, step, fired>>
loop    == <<pc, ticked, wake>>
pool    == <<inflight, running, batches>>
vars == <<now, jobs, planner, loop, pool, ctxDone, stored, reloads>>

Init ==
  /\ now = 0 /\ jobs = Boot /\ reloads = 0
  /\ next = <<>> /\ step = <<>> /\ fired = <<>>
  /\ pc = "tick" /\ ticked = 0 /\ wake = 0
  /\ inflight = {} /\ running = {} /\ batches = {}
  /\ ctxDone = FALSE
  /\ stored = [k \in Keys |-> 0]

-----------------------------------------------------------------------------
(* The planner.                                                            *)

(* The time to the next multiple of the interval.                          *)
NextDelay(t, s) == s - (t % s)

Rearmed(j) == j.name \in DOMAIN step /\ step[j.name] # j.step

Due(j) == j.name \notin DOMAIN next \/ Rearmed(j) \/ next[j.name] <= now

JobNamed(n) == CHOOSE j \in jobs : j.name = n

(* Tick: names no longer configured are forgotten.                         *)
Plan ==
  LET names == {j.name : j \in jobs}
  IN /\ next' = [n \in names |-> IF Due(JobNamed(n))
                                 THEN now + NextDelay(now, JobNamed(n).step) ELSE next[n]]
     /\ step' = [n \in names |-> JobNamed(n).step]
     /\ fired' = [n \in names |-> IF Due(JobNamed(n))
                                  THEN now \div JobNamed(n).step ELSE fired[n]]

(* Seeded fault: the sleep is as it was when the loop ticked.              *)
SleepSinceTick ==
  Max({0, Min({MaxSleep} \cup {next[n] - ticked : n \in DOMAIN next})})

SleepToNext ==
  Max({0, Min({MaxSleep} \cup {next[n] - now : n \in DOMAIN next})})

-----------------------------------------------------------------------------
(* The dispatcher.                                                         *)

(* Seeded fault: a target is known by its name, which a reload may change. *)
InflightKeyByName(j) == j.name

InflightKey(j) == j.key

roundBudget(j) == Min({j.step, j.want})

(* Go: the due jobs not in flight become one batch.                        *)
Go(due) ==
  LET run   == {j \in due : InflightKey(j) \notin inflight}
      batch == Min((0 .. Cardinality(batches)) \ batches)
  IN IF run = {} THEN UNCHANGED pool
     ELSE /\ inflight' = inflight \cup {InflightKey(j) : j \in run}
          /\ batches' = batches \cup {batch}
          /\ running' = running \cup
               {[key |-> j.key, held |-> InflightKey(j), batch |-> batch,
                 budget |-> roundBudget(j), phase |-> "queued", start |-> 0] : j \in run}

Becomes(r, q) == running' = (running \ {r}) \cup {q}
Probing == {r \in running : r.phase = "probing"}

SlotFree == Cardinality(Probing) < Workers

StartProbe(r) ==
  /\ r.phase = "queued" /\ SlotFree
  /\ Becomes(r, [r EXCEPT !.phase = "probing", !.start = now])
  /\ UNCHANGED <<now, jobs, planner, loop, inflight, batches, ctxDone, stored, reloads>>

(* Seeded fault: the target is released with its slot, before its result   *)
(* is stored.                                                              *)
ReleasedBeforeStore(r) == inflight \ {r.held}

HeldThroughStore(r) == inflight

(* The probe returns, at its deadline at the latest; its slot is free.     *)
ProbeReturns(r) ==
  /\ r.phase = "probing"
  /\ Becomes(r, [r EXCEPT !.phase = "storing"])
  /\ inflight' = HeldThroughStore(r)
  /\ UNCHANGED <<now, jobs, planner, loop, batches, ctxDone, stored, reloads>>

Released(r) == inflight \ {r.held}

(* onEach has stored and evaluated the round; then the target is released. *)
StoreResult(r) ==
  /\ r.phase = "storing"
  /\ stored' = [stored EXCEPT ![r.key] = r.start]
  /\ running' = running \ {r}
  /\ inflight' = Released(r)
  /\ UNCHANGED <<now, jobs, planner, loop, batches, ctxDone, reloads>>

(* Seeded fault: a batch does not end once its rounds are cancelled.       *)
BatchOverUnlessCancelled(b) == ~ctxDone /\ \A r \in running : r.batch # b

BatchOver(b) == \A r \in running : r.batch # b

EndBatch(b) ==
  /\ BatchOver(b)
  /\ batches' = batches \ {b}
  /\ UNCHANGED <<now, jobs, planner, loop, inflight, running, ctxDone, stored, reloads>>

-----------------------------------------------------------------------------
(* The loop.                                                               *)

Tick ==
  /\ pc = "tick"
  /\ pc' = "planned" /\ ticked' = now
  /\ Plan /\ Go({j \in jobs : Due(j)})
  /\ UNCHANGED <<now, jobs, wake, ctxDone, stored, reloads>>

Sleep ==
  /\ pc = "planned"
  /\ pc' = "asleep" /\ wake' = now + SleepToNext
  /\ UNCHANGED <<now, jobs, planner, ticked, pool, ctxDone, stored, reloads>>

Wake ==
  /\ pc = "asleep" /\ now >= wake
  /\ pc' = "tick"
  /\ UNCHANGED <<now, jobs, planner, ticked, wake, pool, ctxDone, stored, reloads>>

Stop ==
  /\ pc = "asleep" /\ ctxDone
  /\ pc' = "waiting"
  /\ UNCHANGED <<now, jobs, planner, ticked, wake, pool, ctxDone, stored, reloads>>

Return ==
  /\ pc = "waiting" /\ batches = {}
  /\ pc' = "returned"
  /\ UNCHANGED <<now, jobs, planner, ticked, wake, pool, ctxDone, stored, reloads>>

-----------------------------------------------------------------------------
(* The environment.                                                        *)

Reload(c) ==
  /\ reloads < MaxReloads /\ c # jobs
  /\ jobs' = c /\ reloads' = reloads + 1
  /\ UNCHANGED <<now, planner, loop, pool, ctxDone, stored>>

Cancel ==
  /\ ~ctxDone
  /\ ctxDone' = TRUE
  /\ UNCHANGED <<now, jobs, planner, loop, pool, stored, reloads>>

(* Time passes, but not past a timer that is set, nor past Lag in an       *)
(* iteration, nor past a probe's deadline.                                 *)
Advance ==
  /\ now < MaxTime
  /\ pc # "tick"
  /\ pc = "planned" => now < ticked + Lag
  /\ pc = "asleep" => now < wake
  /\ \A r \in Probing : now < r.start + r.budget
  /\ now' = now + 1
  /\ UNCHANGED <<jobs, planner, loop, pool, ctxDone, stored, reloads>>

-----------------------------------------------------------------------------
LoopStep == Tick \/ Sleep \/ Wake \/ Stop \/ Return
Starts(k)   == \E r \in running : r.key = k /\ StartProbe(r)
Finishes(k) == \E r \in running : r.key = k /\ (ProbeReturns(r) \/ StoreResult(r))

Next ==
  \/ LoopStep
  \/ \E k \in Keys : Starts(k) \/ Finishes(k)
  \/ \E b \in batches : EndBatch(b)
  \/ \E c \in Configs : Reload(c)
  \/ Cancel
  \/ Advance

(* The loop's waits are timers; probes have deadlines and the store        *)
(* returns; the slots are a channel, whose waiting senders are served in   *)
(* turn, so that a job that could often take a slot gets one.              *)
Spec ==
  /\ Init /\ [][Next]_vars
  /\ WF_vars(LoopStep) /\ WF_vars(\E b \in batches : EndBatch(b))
  /\ \A k \in Keys : SF_vars(Starts(k)) /\ WF_vars(Finishes(k))

-----------------------------------------------------------------------------
TypeOK ==
  /\ now \in 0 .. MaxTime /\ ticked \in 0 .. now
  /\ jobs \in Configs /\ reloads \in 0 .. MaxReloads /\ wake \in Nat
  /\ DOMAIN next \subseteq Names /\ DOMAIN step = DOMAIN next /\ DOMAIN fired = DOMAIN next
  /\ pc \in {"tick", "planned", "asleep", "waiting", "returned"}
  /\ inflight \subseteq Keys /\ ctxDone \in BOOLEAN
  /\ \A r \in running : r.key \in Keys /\ r.phase \in {"queued", "probing", "storing"}
  /\ Cardinality(Probing) <= Workers
  /\ stored \in [Keys -> 0 .. now]

(* "A target still in flight is skipped rather than overlapping itself",   *)
(* from its dispatch to the end of the storing of its result, and through  *)
(* changes of its name; what is in flight is what runs.                    *)
NeverOverlapsItself ==
  /\ \A q, r \in running : q.key = r.key => q = r
  /\ inflight = {r.key : r \in running}

(* "So a target's samples are stored in order": a round stored was not     *)
(* begun before the one stored last.                                       *)
StoredInOrder == [][\A k \in Keys : stored'[k] >= stored[k]]_vars

(* The plan is on the grid of each target's interval as last seen, and no  *)
(* more than an interval ahead, also after the interval has changed.       *)
PlanOnGrid ==
  \A n \in DOMAIN next :
    /\ next[n] % step[n] = 0
    /\ next[n] \in ticked + 1 .. ticked + step[n]

(* A target whose interval stays fires once in each interval, none left    *)
(* out, though the loop is late by up to Lag.                              *)
FiresEveryInterval ==
  [][\A n \in DOMAIN fired \cap DOMAIN fired' :
       step'[n] = step[n] /\ Lag <= step[n] => fired'[n] \in {fired[n], fired[n] + 1}]_vars

(* When the loop has returned nothing is being measured or stored.         *)
DrainedOnReturn == pc = "returned" => running = {} /\ batches = {}

(* A cancelled loop returns.                                               *)
CancelledLoopReturns == ctxDone ~> pc = "returned"
=============================================================================
