------------------------------ MODULE Notifier ------------------------------
(***************************************************************************)
(* One delivery pool: a bounded queue of alert events, workers that try    *)
(* each event until it is delivered, refused for good or out of attempts,  *)
(* and the bounded drain at shutdown.  WebhookNotifier                     *)
(* (internal/alert/engine.go), its Slack and Discord variants and          *)
(* EmailNotifier (internal/alert/email.go) are the same pool; they differ  *)
(* in what a request is and in which answers are permanent.                *)
(*                                                                         *)
(* Events are numbered in the order they are handed to Notify.  The        *)
(* counters queued, delivered, retried, dropped and failed are kept as the *)
(* SETS of what they count.  The lengths of backoffs and timeouts are left *)
(* out: any wait may end before or after anything else.                    *)
(***************************************************************************)
EXTENDS Naturals, Sequences, FiniteSets, Functions

CONSTANTS
  Workers,      \* the pool's goroutines
  QueueSize,    \* capacity of the queue channel
  MaxAttempts,  \* attempts per event
  MaxEvents     \* bound: how many events are handed to Notify

ASSUME NotifierAssumption ==
  /\ IsFiniteSet(Workers) /\ Workers # {}
  /\ QueueSize \in Nat \ {0} /\ MaxAttempts \in Nat \ {0} /\ MaxEvents \in Nat

VARIABLES
  queue,      \* accepted events no worker has taken
  job,        \* each worker's delivery
  handed,     \* how many events Notify was called with
  queued, delivered, dropped, \* events the counters have counted
  retried, failed, \* <<event, attempt>>: attempts after which they counted
  ignored,    \* events Notify returned without counting, the pool being closed
  closed,     \* Close was called: the queue channel is closed
  done,       \* the done channel is closed
  ctxDone,    \* baseCtx, which every request derives from, is cancelled
  pc,         \* Close: "open", "draining", "cancelling", "joining", "returned"
  refused,    \* history: events the receiver refused for good
  cutOff      \* history: events no request was under way for when baseCtx was cancelled

counters == <<handed, queued, dropped, ignored>>
shutdown == <<closed, done, ctxDone, pc, cutOff>>
vars == <<queue, job, delivered, failed, retried, refused, counters, shutdown>>

Phases == {"idle", "trying", "cancelled", "backoff", "exited"}
At(phase, e, n) == [phase |-> phase, ev |-> e, attempt |-> n]
Idle   == At("idle", 0, 0)
Exited == At("exited", 0, 0)

Busy    == {w \in Workers : job[w].phase \notin {"idle", "exited"}}
Held    == {job[w].ev : w \in Busy}
Settled == delivered \cup {f[1] : f \in failed}

Init ==
  /\ queue = <<>> /\ job = [w \in Workers |-> Idle]
  /\ handed = 0 /\ queued = {} /\ dropped = {} /\ ignored = {}
  /\ delivered = {} /\ failed = {} /\ retried = {} /\ refused = {}
  /\ closed = FALSE /\ done = FALSE /\ ctxDone = FALSE /\ pc = "open"
  /\ cutOff = {}

-----------------------------------------------------------------------------
(* Notify.                                                                 *)

HasRoom == Len(queue) < QueueSize

(* Notify is called at any time, also after Close: of the goroutines that  *)
(* evaluate rounds, the hub joins the polling loop before it closes the    *)
(* pool, but not the handlers of the agents' requests, and neither when    *)
(* its HTTP server fails.                                                  *)
Hand == handed < MaxEvents /\ handed' = handed + 1

Accept ==
  /\ Hand /\ ~closed /\ HasRoom
  /\ queue' = Append(queue, handed)
  /\ queued' = queued \cup {handed}
  /\ UNCHANGED <<job, delivered, failed, retried, refused, dropped, ignored, shutdown>>

Drop ==
  /\ Hand /\ ~closed /\ ~HasRoom
  /\ dropped' = dropped \cup {handed}
  /\ UNCHANGED <<queue, job, delivered, failed, retried, refused, queued, ignored, shutdown>>

Ignore ==
  /\ Hand /\ closed
  /\ ignored' = ignored \cup {handed}
  /\ UNCHANGED <<queue, job, delivered, failed, retried, refused, queued, dropped, shutdown>>

-----------------------------------------------------------------------------
(* The workers.                                                            *)

(* An attempt begun with its context cancelled never leaves the process.   *)
Attempt(e, n) == At(IF ctxDone THEN "cancelled" ELSE "trying", e, n)

(* Seeded fault: the newest event is taken first.                          *)
TakeNewest(w) ==
  /\ job[w] = Idle /\ queue # <<>>
  /\ job' = [job EXCEPT ![w] = Attempt(queue[Len(queue)], 1)]
  /\ queue' = SubSeq(queue, 1, Len(queue) - 1)
  /\ UNCHANGED <<delivered, failed, retried, refused, counters, shutdown>>

Take(w) ==
  /\ job[w] = Idle /\ queue # <<>>
  /\ job' = [job EXCEPT ![w] = Attempt(Head(queue), 1)]
  /\ queue' = Tail(queue)
  /\ UNCHANGED <<delivered, failed, retried, refused, counters, shutdown>>

(* Seeded fault: Close forgets to close the queue channel.                 *)
RangeEndsNever == FALSE

(* A range over a closed channel ends when the channel is empty.           *)
RangeEnds == closed /\ queue = <<>>

Exit(w) ==
  /\ job[w] = Idle /\ RangeEnds
  /\ job' = [job EXCEPT ![w] = Exited]
  /\ UNCHANGED <<queue, delivered, failed, retried, refused, counters, shutdown>>

(* deliver returns, having counted the event as failed.                    *)
Fail(w) ==
  /\ failed' = failed \cup {<<job[w].ev, job[w].attempt>>}
  /\ job' = [job EXCEPT ![w] = Idle]

Succeed(w) ==
  /\ job[w].phase = "trying"
  /\ delivered' = delivered \cup {job[w].ev}
  /\ job' = [job EXCEPT ![w] = Idle]
  /\ UNCHANGED <<queue, failed, retried, refused, counters, shutdown>>

(* The receiver's answer is one no retry can change.                       *)
Refused(w) ==
  /\ job[w].phase = "trying"
  /\ refused' = refused \cup {job[w].ev}
  /\ Fail(w)
  /\ UNCHANGED <<queue, delivered, retried, counters, shutdown>>

OutOfAttempts(n) == n >= MaxAttempts

(* The attempt failed, timed out or was cancelled, and was the last.       *)
GiveUp(w) ==
  /\ job[w].phase \in {"trying", "cancelled"} /\ OutOfAttempts(job[w].attempt)
  /\ Fail(w)
  /\ UNCHANGED <<queue, delivered, retried, refused, counters, shutdown>>

(* Seeded fault: Close interrupts backoffs at once.                        *)
InterruptedByClose == closed

Interrupted == done

(* Seeded fault: an interrupted event is counted, and retried all the same.*)
RetryAnyway(w) ==
  /\ job[w].phase \in {"trying", "cancelled"} /\ ~OutOfAttempts(job[w].attempt)
  /\ retried' = retried \cup {<<job[w].ev, job[w].attempt>>}
  /\ job' = [job EXCEPT ![w].phase = "backoff"]
  /\ failed' = IF Interrupted THEN failed \cup {<<job[w].ev, job[w].attempt>>} ELSE failed
  /\ UNCHANGED <<queue, delivered, refused, counters, shutdown>>

(* The attempt failed, timed out or was cancelled: it is counted as        *)
(* retried, and there is a backoff unless the pool is already interrupted. *)
Retry(w) ==
  /\ job[w].phase \in {"trying", "cancelled"} /\ ~OutOfAttempts(job[w].attempt)
  /\ retried' = retried \cup {<<job[w].ev, job[w].attempt>>}
  /\ IF Interrupted THEN Fail(w)
     ELSE job' = [job EXCEPT ![w].phase = "backoff"] /\ UNCHANGED failed
  /\ UNCHANGED <<queue, delivered, refused, counters, shutdown>>

(* Seeded fault: the attempts are not counted.                             *)
BackoffEndsUncounted(w) ==
  /\ job[w].phase = "backoff"
  /\ job' = [job EXCEPT ![w] = Attempt(@.ev, @.attempt)]
  /\ UNCHANGED <<queue, delivered, failed, retried, refused, counters, shutdown>>

BackoffEnds(w) ==
  /\ job[w].phase = "backoff"
  /\ job' = [job EXCEPT ![w] = Attempt(@.ev, @.attempt + 1)]
  /\ UNCHANGED <<queue, delivered, failed, retried, refused, counters, shutdown>>

BackoffInterrupted(w) ==
  /\ job[w].phase = "backoff" /\ Interrupted
  /\ Fail(w)
  /\ UNCHANGED <<queue, delivered, retried, refused, counters, shutdown>>

-----------------------------------------------------------------------------
(* Shutdown.                                                               *)

Close ==
  /\ ~closed
  /\ closed' = TRUE /\ pc' = "draining"
  /\ UNCHANGED <<queue, job, delivered, failed, retried, refused, counters, done, ctxDone, cutOff>>

AllExited == \A w \in Workers : job[w] = Exited

Drained ==
  /\ pc = "draining" /\ AllExited
  /\ done' = TRUE /\ ctxDone' = TRUE /\ pc' = "returned"
  /\ UNCHANGED <<queue, job, delivered, failed, retried, refused, counters, closed, cutOff>>

(* The deadline, which all pools share, can be past when Close is called.  *)
Deadline ==
  /\ pc = "draining"
  /\ done' = TRUE /\ pc' = "cancelling"
  /\ UNCHANGED <<queue, job, delivered, failed, retried, refused, counters, closed, ctxDone, cutOff>>

CancelRequests ==
  /\ pc = "cancelling"
  /\ ctxDone' = TRUE /\ pc' = "joining"
  /\ cutOff' = Range(queue) \cup {job[w].ev : w \in {v \in Busy : job[v].phase = "backoff"}}
  /\ UNCHANGED <<queue, job, delivered, failed, retried, refused, counters, closed, done>>

Joined ==
  /\ pc = "joining" /\ AllExited
  /\ pc' = "returned"
  /\ UNCHANGED <<queue, job, delivered, failed, retried, refused, counters, closed, done, ctxDone, cutOff>>

-----------------------------------------------------------------------------
Work(w) == \/ Take(w) \/ Exit(w)
           \/ Succeed(w) \/ Refused(w) \/ GiveUp(w) \/ Retry(w)
           \/ BackoffEnds(w) \/ BackoffInterrupted(w)

Closing == Drained \/ Deadline \/ CancelRequests \/ Joined

Next ==
  \/ Accept \/ Drop \/ Ignore
  \/ \E w \in Workers : Work(w)
  \/ Close \/ Closing

(* Every attempt ends, for it has a timeout; backoffs are timers, and so   *)
(* is the deadline.  Nothing makes events arrive or the hub stop.          *)
Spec == Init /\ [][Next]_vars /\ (\A w \in Workers : WF_vars(Work(w))) /\ WF_vars(Closing)

-----------------------------------------------------------------------------
TypeOK ==
  /\ queue \in Seq(0 .. handed - 1) /\ Len(queue) <= QueueSize
  /\ job \in [Workers -> [phase : Phases, ev : Nat, attempt : 0 .. MaxAttempts]]
  /\ handed \in 0 .. MaxEvents
  /\ queued \subseteq 0 .. handed - 1 /\ delivered \subseteq queued
  /\ {failed, retried} \subseteq SUBSET (queued \X (1 .. MaxAttempts))
  /\ refused \subseteq queued
  /\ dropped \subseteq 0 .. handed - 1 /\ ignored \subseteq 0 .. handed - 1
  /\ {closed, done, ctxDone} \subseteq BOOLEAN
  /\ pc \in {"open", "draining", "cancelling", "joining", "returned"}
  /\ cutOff \subseteq queued

(* "Nothing is ever dropped silently": each event handed over is counted   *)
(* once, as queued or as dropped, unless the pool was closed; and each     *)
(* queued event is in exactly one place: in the queue once, with one       *)
(* worker, delivered, or failed.                                           *)
EachEventInOnePlace ==
  /\ 0 .. handed - 1 = queued \cup dropped \cup ignored
  /\ queued \cap dropped = {} /\ (queued \cup dropped) \cap ignored = {}
  /\ queued = Range(queue) \cup Held \cup Settled
  /\ IsInjective(queue) /\ \A v, w \in Busy : job[v].ev = job[w].ev => v = w
  /\ Range(queue) \cap Held = {} /\ (Range(queue) \cup Held) \cap Settled = {}
  /\ \A f, g \in failed : f[1] = g[1] => f = g
  /\ \A f \in failed : f[1] \notin delivered

(* An event is given up only when the receiver refused it for good, when   *)
(* every attempt was made, or past the deadline of Close, never because    *)
(* Close was called.                                                       *)
FailsOnlyWhenDue ==
  \A f \in failed : f[1] \in refused \/ f[2] = MaxAttempts \/ done

(* The pool starts events in order: when an event is settled, the older    *)
(* events that are not are fewer than the workers.  A RESOLVED can overtake*)
(* its FIRING, but only while the other workers hold older events.         *)
OvertakingIsBounded ==
  \A e \in Settled :
    Cardinality({o \in queued \ Settled : o < e}) < Cardinality(Workers)

(* When Close returns, every accepted event was counted as delivered or    *)
(* as failed.                                                              *)
CloseLeavesNothing == pc = "returned" => queued = Settled

(* Past its deadline Close abandons what is still queued or backing off:   *)
(* only the requests under way when it cancels them can still be answered. *)
AbandonedIsNotSent == cutOff \cap delivered = {}

(* Once events stop arriving, every accepted one is delivered or given up. *)
EventsAreSettled == []<>(queued = Settled)

(* Close returns, and with every accepted event settled.                   *)
CloseReturns == closed ~> pc = "returned" /\ queued = Settled
=============================================================================
