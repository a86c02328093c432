----------------------------- MODULE AgentFlush -----------------------------
(***************************************************************************)
(* The agent's in-memory store-and-forward path: the bounded buffer        *)
(* (internal/agent/buffer.go), the measure loop that fills it, the flush   *)
(* loop that pushes it to the hub in batches (internal/agent/agent.go) and *)
(* the hub's answers as the client classifies them                         *)
(* (internal/agent/client.go).                                             *)
(*                                                                         *)
(* A round is identified by its measurement order, counted from 0 as the   *)
(* buffer's sequence numbers are; sz is its size in a request body, and    *)
(* wellFormed says whether the hub's decoder takes it.  The counters       *)
(* dropCnt and rejCnt are kept as the SETS of rounds they count            *)
(* (dropped, rejected).  Durations (idle wait, backoff growth) are left    *)
(* out; the bounded waits of the shutdown are nondeterministic timeouts.   *)
(***************************************************************************)
EXTENDS Integers, Sequences, FiniteSets, Functions

CONSTANTS
  MaxRounds,   \* bound: how many rounds are ever measured
  MaxOutages,  \* bound: how many pushes fail transiently before shutdown
  Shapes,      \* the shapes [sz, wellFormed] a round can have
  Cap,         \* Options.BufferCap: buffer capacity in rounds
  MaxBytes,    \* defaultBufferBytes: buffer capacity in bytes
  FlushMax,    \* Options.FlushMax: rounds per push
  FlushBytes,  \* flushByteBudget: estimated bytes per push
  HubBytes     \* the body size above which the hub (or a proxy) answers 413

ASSUME FlushAssumption ==
  /\ MaxRounds \in Nat /\ MaxOutages \in Nat
  /\ Shapes \subseteq [sz : Nat \ {0}, wellFormed : BOOLEAN]
  /\ Cap \in Nat \ {0} /\ MaxBytes \in Nat
  /\ FlushMax \in Nat \ {0} /\ FlushBytes \in Nat /\ HubBytes \in Nat

VARIABLES
  rounds, headSeq,   \* buffer.rounds, buffer.headSeq
  dropped, rejected, \* the rounds dropCnt and rejCnt have counted
  batch, upto,       \* the flush loop's last peek
  todo,              \* slices <<from, to>> of batch sendBatch has yet to push
  refused,           \* rounds this sendBatch has found unsendable so far
  disowned,          \* history: every round a sendBatch ever found unsendable
  pc,                \* the flush loop: "loop", "send", "backoff", "drain",
                     \* "final" (finalFlush), "finalSend", "stopped"
  ctxDone,           \* the run context is cancelled
  measureDone,       \* measureLoop has drained its probes and closed measureDone
  gaveUp,            \* the shutdown ran into a bound or a failed push
  measured,          \* how many rounds were measured
  acked,             \* rounds the hub has acknowledged to the agent
  hub,               \* rounds the hub has processed
  late,              \* failed requests the hub may still receive and process
  outages            \* transient failures so far

buffer  == <<rounds, headSeq, dropped>>
sending == <<batch, upto, todo, refused, disowned>>
world   == <<acked, hub, late, outages>>
vars == <<buffer, rejected, sending, pc, ctxDone, measureDone, gaveUp,
          measured, world>>

Round == [id : Nat, sz : Nat \ {0}, wellFormed : BOOLEAN]
Ids(s) == {s[i].id : i \in DOMAIN s}
Bytes(s) == SumFunction([i \in DOMAIN s |-> s[i].sz])
Slice(s, w) == SubSeq(s, w[1], w[2])

(* What the hub makes of a request body: 413 above its limit, 400 when a   *)
(* round does not decode.                                                  *)
Oversize(s)  == Bytes(s) > HubBytes
Malformed(s) == \E i \in DOMAIN s : ~s[i].wellFormed
Acceptable(s) == ~Oversize(s) /\ ~Malformed(s)

Init ==
  /\ rounds = <<>> /\ headSeq = 0 /\ dropped = {} /\ rejected = {}
  /\ batch = <<>> /\ upto = -1 /\ todo = <<>> /\ refused = {}
  /\ disowned = {}
  /\ pc = "loop" /\ ctxDone = FALSE /\ measureDone = FALSE /\ gaveUp = FALSE
  /\ measured = 0 /\ acked = {} /\ hub = {} /\ late = {} /\ outages = 0

-----------------------------------------------------------------------------
(* The buffer (buffer.go).                                                 *)

(* evictToFitLocked stops at the first suffix the new round fits behind;   *)
(* it never evicts below an empty buffer.                                  *)
Fits(s, sz) == s = <<>> \/ (Len(s) < Cap /\ Bytes(s) + sz <= MaxBytes)

After(s, k) == SubSeq(s, k + 1, Len(s))

EvictToFit(k, sz) ==
  /\ Fits(After(rounds, k), sz)
  /\ \A j \in 0 .. k - 1 : ~Fits(After(rounds, j), sz)

(* add: evict the oldest rounds until the new one fits, then append it.    *)
Add(r) ==
  \E k \in 0 .. Len(rounds) :
    /\ EvictToFit(k, r.sz)
    /\ rounds' = Append(After(rounds, k), r)
    /\ headSeq' = headSeq + k
    /\ dropped' = dropped \cup {rounds[i].id : i \in 1 .. k}

(* peekBatch takes as many of the oldest rounds as both limits allow, and  *)
(* at least one when the buffer is not empty.                              *)
Peekable(n) == n = 1 \/ (n <= FlushMax /\ Bytes(SubSeq(rounds, 1, n)) <= FlushBytes)

PeekBatch(n) ==
  /\ n \in 1 .. Len(rounds)
  /\ Peekable(n)
  /\ n < Len(rounds) => ~Peekable(n + 1)
  /\ batch' = SubSeq(rounds, 1, n)
  /\ upto' = headSeq + n - 1

(* Seeded fault: commit by count, blind to a concurrent eviction.          *)
CommitByCount(u) ==
  LET n == Len(batch)
      remove == IF n > Len(rounds) THEN Len(rounds) ELSE n
  IN /\ rounds' = After(rounds, remove)
     /\ headSeq' = headSeq + remove
     /\ UNCHANGED dropped

(* commit removes what is still present up to sequence number u; rounds a  *)
(* concurrent add has evicted meanwhile are not removed a second time.     *)
Commit(u) ==
  LET n == u - headSeq + 1
      remove == IF n <= 0 THEN 0 ELSE IF n > Len(rounds) THEN Len(rounds) ELSE n
  IN /\ rounds' = After(rounds, remove)
     /\ headSeq' = headSeq + remove
     /\ UNCHANGED dropped

-----------------------------------------------------------------------------
(* The measure loop.                                                       *)

(* A probe completes and its round is buffered: at any time until the      *)
(* drain on shutdown, which is when disp.Wait returns.                     *)
MeasureRound(shape) ==
  /\ ~measureDone
  /\ measured < MaxRounds
  /\ Add([id |-> measured, sz |-> shape.sz, wellFormed |-> shape.wellFormed])
  /\ measured' = measured + 1
  /\ UNCHANGED <<rejected, sending, pc, ctxDone, measureDone, gaveUp, world>>

Cancel ==
  /\ ~ctxDone
  /\ ctxDone' = TRUE
  /\ UNCHANGED <<buffer, rejected, sending, pc, measureDone, gaveUp, measured, world>>

MeasureDrained ==
  /\ ctxDone /\ ~measureDone
  /\ measureDone' = TRUE
  /\ UNCHANGED <<buffer, rejected, sending, pc, ctxDone, gaveUp, measured, world>>

-----------------------------------------------------------------------------
(* The flush loop and sendBatch.                                           *)

IsSending == pc \in {"send", "finalSend"}

StartSend(n, next) ==
  /\ PeekBatch(n)
  /\ todo' = <<<<1, n>>>>
  /\ refused' = {}
  /\ pc' = next
  /\ UNCHANGED <<buffer, rejected, disowned, ctxDone, measureDone, gaveUp, measured, world>>

(* Top of flushLoop: the context is tested first, then an empty buffer     *)
(* idles (stuttering here), then a batch is peeked.                        *)
FlushPeek(n) == pc = "loop" /\ ~ctxDone /\ StartSend(n, "send")

Unsent == Slice(batch, Head(todo))

(* PushResults succeeds: a 200 whose counters account for the sub-batch.   *)
PushAccepted ==
  /\ IsSending /\ todo # <<>>
  /\ Acceptable(Unsent)
  /\ hub' = hub \cup Ids(Unsent)
  /\ acked' = acked \cup Ids(Unsent)
  /\ todo' = Tail(todo)
  /\ UNCHANGED <<buffer, rejected, batch, upto, refused, disowned, pc, ctxDone,
                 measureDone, gaveUp, measured, late, outages>>

(* Seeded fault: the split skips the round at the midpoint.                *)
HalveDroppingMiddle(w) ==
  LET mid == (w[2] - w[1] + 1) \div 2
  IN <<<<w[1], w[1] + mid - 1>>, <<w[1] + mid + 1, w[2]>>>>

(* Seeded fault: the newer half is pushed first.                           *)
HalveSwapped(w) ==
  LET mid == (w[2] - w[1] + 1) \div 2
  IN <<<<w[1] + mid, w[2]>>, <<w[1], w[1] + mid - 1>>>>

(* sendBatch's split of rounds[:mid] and rounds[mid:].                     *)
Halve(w) ==
  LET mid == (w[2] - w[1] + 1) \div 2
  IN <<<<w[1], w[1] + mid - 1>>, <<w[1] + mid, w[2]>>>>

(* A 413 for more than one round: split, and push the halves in order.     *)
PushSplit ==
  /\ IsSending /\ todo # <<>>
  /\ Oversize(Unsent) /\ Len(Unsent) > 1
  /\ todo' = Halve(Head(todo)) \o Tail(todo)
  /\ UNCHANGED <<buffer, rejected, batch, upto, refused, disowned, pc, ctxDone,
                 measureDone, gaveUp, measured, world>>

(* Seeded fault: an unsendable sub-batch is retried like any failure.      *)
PushRefusedRetried ==
  /\ IsSending /\ todo # <<>>
  /\ Oversize(Unsent) => Len(Unsent) = 1
  /\ ~Acceptable(Unsent)
  /\ batch' = <<>> /\ todo' = <<>> /\ refused' = {}
  /\ IF pc = "send"
     THEN pc' = "backoff" /\ UNCHANGED gaveUp
     ELSE pc' = "stopped" /\ gaveUp' = TRUE
  /\ UNCHANGED <<buffer, rejected, upto, disowned, ctxDone, measureDone, measured, world>>

(* A 413 for a single round, or a 400: the sub-batch is given up whole.    *)
PushRefused ==
  /\ IsSending /\ todo # <<>>
  /\ Oversize(Unsent) => Len(Unsent) = 1
  /\ ~Acceptable(Unsent)
  /\ refused' = refused \cup Ids(Unsent)
  /\ disowned' = disowned \cup Ids(Unsent)
  /\ todo' = Tail(todo)
  /\ UNCHANGED <<buffer, rejected, batch, upto, pc, ctxDone, measureDone, gaveUp,
                 measured, world>>

(* Seeded fault: the final flush retries like the steady-state loop.       *)
PushFailsRetried ==
  /\ IsSending /\ todo # <<>>
  /\ outages < MaxOutages \/ ctxDone
  /\ late' = IF Acceptable(Unsent) THEN late \cup {Ids(Unsent)} ELSE late
  /\ outages' = IF ctxDone THEN outages ELSE outages + 1
  /\ batch' = <<>> /\ todo' = <<>> /\ refused' = {}
  /\ IF pc = "send"
     THEN pc' = "backoff" /\ UNCHANGED gaveUp
     ELSE pc' = "backoff" /\ gaveUp' = TRUE
  /\ UNCHANGED <<buffer, rejected, upto, disowned, ctxDone, measureDone, measured,
                 acked, hub>>

(* A transient failure: transport error, timeout, cancelled context, any   *)
(* other status, or an acknowledgment that does not account for the batch. *)
(* Nothing of the peek is committed or counted.  The request itself may    *)
(* have been processed, may be processed later, or never.  The steady-     *)
(* state loop backs off; finalFlush gives up.  Once the context is         *)
(* cancelled a push can always fail.                                       *)
PushFails ==
  /\ IsSending /\ todo # <<>>
  /\ outages < MaxOutages \/ ctxDone
  /\ late' = IF Acceptable(Unsent) THEN late \cup {Ids(Unsent)} ELSE late
  /\ outages' = IF ctxDone THEN outages ELSE outages + 1
  /\ batch' = <<>> /\ todo' = <<>> /\ refused' = {}
  /\ IF pc = "send"
     THEN pc' = "backoff" /\ UNCHANGED gaveUp
     ELSE pc' = "stopped" /\ gaveUp' = TRUE
  /\ UNCHANGED <<buffer, rejected, upto, disowned, ctxDone, measureDone, measured,
                 acked, hub>>

(* sendBatch returned err = nil: commit the peek, count what it refused.   *)
FinishSend ==
  /\ IsSending /\ todo = <<>>
  /\ Commit(upto)
  /\ rejected' = rejected \cup refused
  /\ batch' = <<>> /\ refused' = {}
  /\ pc' = IF pc = "send" THEN "loop" ELSE "final"
  /\ UNCHANGED <<upto, todo, disowned, ctxDone, measureDone, gaveUp, measured, world>>

BackoffOver ==
  /\ pc = "backoff"
  /\ pc' = "loop"
  /\ UNCHANGED <<buffer, rejected, sending, ctxDone, measureDone, gaveUp, measured, world>>

(* The hub processes a request whose push the agent has given up on.       *)
HubProcessesLate ==
  \E req \in late :
    /\ late' = late \ {req}
    /\ hub' = hub \cup req
    /\ UNCHANGED <<buffer, rejected, sending, pc, ctxDone, measureDone, gaveUp,
                   measured, acked, outages>>

-----------------------------------------------------------------------------
(* Shutdown: awaitMeasureDrain, then finalFlush, then stop.                *)

ShutdownBegins ==
  /\ ctxDone /\ pc \in {"loop", "backoff"}
  /\ pc' = "drain"
  /\ UNCHANGED <<buffer, rejected, sending, ctxDone, measureDone, gaveUp, measured, world>>

(* The wait for measureDone is bounded: it may time out.                   *)
AwaitMeasureDrain ==
  /\ pc = "drain"
  /\ pc' = "final"
  /\ gaveUp' = ~measureDone
  /\ UNCHANGED <<buffer, rejected, sending, ctxDone, measureDone, measured, world>>

FinalPeek(n) == pc = "final" /\ StartSend(n, "finalSend")

FinalDrained ==
  /\ pc = "final" /\ rounds = <<>>
  /\ pc' = "stopped"
  /\ UNCHANGED <<buffer, rejected, sending, ctxDone, measureDone, gaveUp, measured, world>>

FinalDeadline ==
  /\ pc = "final"
  /\ pc' = "stopped"
  /\ gaveUp' = TRUE
  /\ UNCHANGED <<buffer, rejected, sending, ctxDone, measureDone, measured, world>>

FlushLoop ==
  \/ \E n \in 1 .. MaxRounds : FlushPeek(n) \/ FinalPeek(n)
  \/ PushAccepted \/ PushSplit \/ PushRefused \/ PushFails \/ FinishSend
  \/ BackoffOver \/ ShutdownBegins \/ AwaitMeasureDrain
  \/ FinalDrained \/ FinalDeadline

Next ==
  \/ \E shape \in Shapes : MeasureRound(shape)
  \/ Cancel
  \/ MeasureDrained
  \/ FlushLoop
  \/ HubProcessesLate

(* The flush loop is a goroutine that always returns from its waits: every *)
(* push ends (the HTTP client has a timeout), every sleep ends.            *)
Spec == Init /\ [][Next]_vars /\ WF_vars(FlushLoop)
-----------------------------------------------------------------------------
BufferOK ==
  /\ rounds \in Seq(Round) /\ Len(rounds) <= Cap
  /\ headSeq \in Nat
  /\ dropped \subseteq Nat

SendingOK ==
  /\ batch \in Seq(Round) /\ upto \in Nat \cup {-1}
  /\ todo \in Seq(Nat \X Nat)
  /\ refused \subseteq Nat /\ disowned \subseteq Nat

ControlOK ==
  /\ pc \in {"loop", "send", "backoff", "drain", "final", "finalSend", "stopped"}
  /\ ctxDone \in BOOLEAN /\ measureDone \in BOOLEAN /\ gaveUp \in BOOLEAN

WorldOK ==
  /\ acked \subseteq Nat /\ hub \subseteq Nat
  /\ \A req \in late : req \subseteq Nat
  /\ outages \in Nat

(* Types; and the buffer never exceeds its capacity in rounds.             *)
TypeOK ==
  /\ BufferOK /\ SendingOK /\ ControlOK /\ WorldOK
  /\ measured \in Nat /\ rejected \subseteq Nat

(* No measured round disappears without an account: it is still buffered,  *)
(* or the hub acknowledged it, or dropCnt or rejCnt counted it -- whatever *)
(* evictions, splits and failures fell between its peek and its commit.    *)
(* (buffer.go: "bounded memory, never silent".)                            *)
NoSilentLoss ==
  \A id \in 0 .. measured - 1 :
    id \in Ids(rounds) \cup acked \cup dropped \cup rejected

(* The sequence numbers commit computes with are right: the round at       *)
(* position i of the buffer has sequence number headSeq + i - 1, and the   *)
(* next add continues the numbering.                                       *)
SeqsMatchRounds ==
  /\ \A i \in DOMAIN rounds : rounds[i].id = headSeq + i - 1
  /\ headSeq + Len(rounds) = measured

(* The hub receives rounds in measurement order, except for rounds the     *)
(* agent had given up: a round still in the agent's care is never overtaken*)
(* by a later one.  (Late and repeated requests are the hazard.)           *)
NeverOvertaken ==
  [][\A id \in hub' \ hub :
       (\E later \in hub : later > id) => id \in dropped \cup disowned]_hub

(* With finitely many transient failures every round is accounted for      *)
(* while the agent runs: none waits in the buffer for ever.                *)
EveryRoundSettled ==
  \A id \in 0 .. MaxRounds - 1 :
    (id < measured) ~> (id \in acked \cup dropped \cup rejected \/ ctxDone)

(* A cancelled agent's flush loop ends, whatever the hub does.             *)
ShutdownEnds == ctxDone ~> pc = "stopped"

(* AgentFlush implements the abstract promise.                             *)
FateOf(id) ==
  IF id >= measured          THEN "unmeasured"
  ELSE IF id \in hub         THEN "stored"
  ELSE IF id \in dropped     THEN "dropped"
  ELSE IF id \in rejected    THEN "rejected"
  ELSE IF id \in Ids(rounds) THEN "held"
  ELSE "lost"

Promise == INSTANCE StoreForward WITH
             next <- measured, status <- [id \in 0 .. MaxRounds - 1 |-> FateOf(id)]
KeepsPromise == Promise!Spec
=============================================================================
