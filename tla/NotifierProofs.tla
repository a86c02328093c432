--------------------------- MODULE NotifierProofs ---------------------------
(***************************************************************************)
(* Proofs about Notifier, for every pool, queue size, number of attempts   *)
(* and number of events.                                                   *)
(***************************************************************************)
EXTENDS Notifier, TLAPS, FiniteSetTheorems, SequenceTheorems

(* Events are in the queue in the order they came, after all that left it. *)
InOrder ==
  /\ \A i, j \in DOMAIN queue : i < j => queue[i] < queue[j]
  /\ \A i \in DOMAIN queue : \A e \in Held \cup Settled : e < queue[i]

(* Idle and exited workers hold nothing; a worker exits only once the pool *)
(* is closed and the queue empty; a request that can still be answered is  *)
(* not for an abandoned event.                                             *)
WorkersConsistent ==
  \A w \in Workers :
    /\ job[w].phase = "idle" => job[w] = Idle
    /\ job[w].phase = "exited" => job[w] = Exited /\ closed /\ queue = <<>>
    /\ w \in Busy => job[w].attempt >= 1
    /\ job[w].phase = "backoff" => job[w].attempt < MaxAttempts
    /\ job[w].phase = "trying" => job[w].ev \notin cutOff

ShutdownConsistent ==
  /\ pc = "open" <=> ~closed
  /\ cutOff # {} => ctxDone
  /\ ctxDone => pc \in {"joining", "returned"}
  /\ pc = "returned" => AllExited

IInv == /\ TypeOK /\ EachEventInOnePlace
        /\ InOrder /\ WorkersConsistent /\ ShutdownConsistent
        /\ FailsOnlyWhenDue /\ OvertakingIsBounded /\ AbandonedIsNotSent

-----------------------------------------------------------------------------
(* The queue as a set of events.                                           *)
LEMMA AppendRange ==
  ASSUME TypeOK, queue' = Append(queue, handed)
  PROVE  /\ Len(queue') = Len(queue) + 1
         /\ \A i \in 1 .. Len(queue) : queue'[i] = queue[i]
         /\ queue'[Len(queue) + 1] = handed
         /\ DOMAIN queue = 1 .. Len(queue) /\ DOMAIN queue' = 1 .. Len(queue) + 1
         /\ queue' \in Seq(0 .. handed)
         /\ Range(queue') = Range(queue) \cup {handed}
<1>1. queue \in Seq(0 .. handed) /\ handed \in Nat
  BY SeqMonotonic DEF TypeOK
<1>2. /\ Len(queue') = Len(queue) + 1
      /\ \A i \in 1 .. Len(queue) : queue'[i] = queue[i]
      /\ queue'[Len(queue) + 1] = handed
      /\ DOMAIN queue = 1 .. Len(queue) /\ DOMAIN queue' = 1 .. Len(queue) + 1
      /\ queue' \in Seq(0 .. handed) /\ Len(queue) \in Nat
  BY <1>1
<1>3. Range(queue') \subseteq Range(queue) \cup {handed}
  BY <1>2 DEF Range
<1>4. Range(queue) \subseteq Range(queue') /\ handed \in Range(queue')
  BY <1>2 DEF Range
<1>. QED  BY <1>2, <1>3, <1>4

LEMMA TailRange ==
  ASSUME TypeOK, queue # <<>>, queue' = Tail(queue)
  PROVE  /\ Len(queue) \in Nat \ {0} /\ Len(queue') = Len(queue) - 1
         /\ \A i \in 1 .. Len(queue) - 1 : queue'[i] = queue[i + 1]
         /\ DOMAIN queue = 1 .. Len(queue) /\ DOMAIN queue' = 1 .. Len(queue) - 1
         /\ queue' \in Seq(0 .. handed - 1)
         /\ Head(queue) = queue[1] /\ Head(queue) \in 0 .. handed - 1
         /\ Range(queue) = Range(queue') \cup {Head(queue)}
<1>1. queue \in Seq(0 .. handed - 1)
  BY DEF TypeOK
<1>2. /\ Len(queue) \in Nat \ {0} /\ Len(queue') = Len(queue) - 1
      /\ \A i \in 1 .. Len(queue) - 1 : queue'[i] = queue[i + 1]
      /\ DOMAIN queue = 1 .. Len(queue) /\ DOMAIN queue' = 1 .. Len(queue) - 1
      /\ queue' \in Seq(0 .. handed - 1)
      /\ Head(queue) = queue[1] /\ Head(queue) \in 0 .. handed - 1
  <2>1. Len(queue) \in Nat \ {0} /\ DOMAIN queue = 1 .. Len(queue)
    BY <1>1, EmptySeq, LenProperties
  <2>2. /\ Head(queue) \in 0 .. handed - 1 /\ queue' \in Seq(0 .. handed - 1)
        /\ Len(queue') = Len(queue) - 1
        /\ \A i \in 1 .. Len(queue') : queue'[i] = queue[i + 1]
    BY <1>1, HeadTailProperties
  <2>3. DOMAIN queue' = 1 .. Len(queue')
    BY <2>2, LenProperties
  <2>4. Head(queue) = queue[1]
    BY <1>1
  <2>. QED  BY <2>1, <2>2, <2>3, <2>4
<1>3. Range(queue') \subseteq Range(queue) /\ Head(queue) \in Range(queue)
  BY <1>2 DEF Range
<1>4. ASSUME NEW i \in DOMAIN queue
      PROVE  queue[i] \in Range(queue') \cup {Head(queue)}
  <2>1. CASE i = 1
    BY <2>1, <1>2
  <2>2. CASE i # 1
    <3>1. i - 1 \in DOMAIN queue' /\ queue'[i - 1] = queue[i]
      BY <1>2, <2>2
    <3>. QED  BY <3>1 DEF Range
  <2>. QED  BY <2>1, <2>2
<1>. QED  BY <1>2, <1>3, <1>4 DEF Range

-----------------------------------------------------------------------------
(* How the events in hand change with one worker's delivery.               *)
LEMMA StartHeld ==
  ASSUME TypeOK, NEW w \in Workers, job[w] = Idle, job' = [job EXCEPT ![w] = job'[w]],
         job'[w].phase \in {"trying", "cancelled", "backoff"}
  PROVE  /\ Busy' = Busy \cup {w} /\ w \notin Busy
         /\ Held' = Held \cup {job'[w].ev}
         /\ \A v \in Workers \ {w} : job'[v] = job[v]
<1>1. \A v \in Workers \ {w} : job'[v] = job[v]
  BY DEF TypeOK
<1>2. Busy' = Busy \cup {w} /\ w \notin Busy
  BY <1>1 DEF Busy, Idle, At
<1>3. Held' = Held \cup {job'[w].ev}
  <2>1. \A v \in Busy : job'[v].ev = job[v].ev
    BY <1>1, <1>2 DEF Busy
  <2>. QED  BY <1>2, <2>1 DEF Held
<1>. QED  BY <1>1, <1>2, <1>3

LEMMA ContinueHeld ==
  ASSUME TypeOK, NEW w \in Busy, job' = [job EXCEPT ![w] = job'[w]],
         job'[w].ev = job[w].ev, job'[w].phase \in {"trying", "cancelled", "backoff"}
  PROVE  /\ Busy' = Busy /\ Held' = Held
         /\ \A v \in Workers \ {w} : job'[v] = job[v]
         /\ \A v \in Workers : job'[v].ev = job[v].ev
<1>1. \A v \in Workers \ {w} : job'[v] = job[v]
  BY DEF TypeOK, Busy
<1>2. Busy' = Busy
  BY <1>1 DEF Busy
<1>3. \A v \in Workers : job'[v].ev = job[v].ev
  BY <1>1
<1>4. Held' = Held
  BY <1>2, <1>3 DEF Held, Busy
<1>. QED  BY <1>1, <1>2, <1>3, <1>4

LEMMA ReleaseHeld ==
  ASSUME TypeOK, EachEventInOnePlace, NEW w \in Busy, job' = [job EXCEPT ![w] = Idle]
  PROVE  /\ Busy' = Busy \ {w} /\ Held' = Held \ {job[w].ev}
         /\ job'[w] = Idle /\ \A v \in Workers \ {w} : job'[v] = job[v]
<1>1. job'[w] = Idle /\ \A v \in Workers \ {w} : job'[v] = job[v]
  BY DEF TypeOK, Busy
<1>2. Busy' = Busy \ {w}
  BY <1>1 DEF Busy, Idle, At
<1>3. \A v \in Busy \ {w} : job'[v].ev = job[v].ev /\ job[v].ev # job[w].ev
  BY <1>1 DEF EachEventInOnePlace, Busy
<1>4. Held' = Held \ {job[w].ev}
  BY <1>2, <1>3 DEF Held
<1>. QED  BY <1>1, <1>2, <1>4

LEMMA ExitHeld ==
  ASSUME TypeOK, NEW w \in Workers, job[w] = Idle, job' = [job EXCEPT ![w] = Exited]
  PROVE  /\ Busy' = Busy /\ Held' = Held
         /\ job'[w] = Exited /\ \A v \in Workers \ {w} : job'[v] = job[v]
<1>1. job'[w] = Exited /\ \A v \in Workers \ {w} : job'[v] = job[v]
  BY DEF TypeOK
<1>2. Busy' = Busy /\ w \notin Busy
  BY <1>1 DEF Busy, Idle, Exited, At
<1>3. \A v \in Busy : job'[v].ev = job[v].ev
  BY <1>1, <1>2 DEF Busy
<1>. QED  BY <1>1, <1>2, <1>3 DEF Held

-----------------------------------------------------------------------------
(* The older events an event overtook when it was settled are with the     *)
(* other workers.                                                          *)
LEMMA SettledOvertakesFew ==
  ASSUME IInv, NEW w \in Busy
  PROVE  LET older == {o \in queued \ (Settled \cup {job[w].ev}) : o < job[w].ev}
         IN  IsFiniteSet(older) /\ Cardinality(older) < Cardinality(Workers)
<1> DEFINE older == {o \in queued \ (Settled \cup {job[w].ev}) : o < job[w].ev}
           holder == [o \in older |-> CHOOSE v \in Busy : job[v].ev = o]
<1>1. \A o \in older : o \in Held
  <2> SUFFICES ASSUME NEW o \in older, o \in Range(queue)
               PROVE  FALSE
    BY DEF IInv, EachEventInOnePlace
  <2>1. PICK i \in DOMAIN queue : o = queue[i]
    BY DEF Range
  <2>2. job[w].ev < o
    BY <2>1 DEF IInv, InOrder, Held
  <2>3. job[w].ev \in Nat /\ o \in Nat
    BY DEF IInv, TypeOK, Busy
  <2>. QED  BY <2>2, <2>3
<1>2. \A o \in older : holder[o] \in Workers \ {w} /\ job[holder[o]].ev = o
  BY <1>1 DEF Held, Busy
<1>3. holder \in Injection(older, Workers \ {w})
  <2>1. holder \in [older -> Workers \ {w}] /\ DOMAIN holder = older
    BY <1>2
  <2>2. \A o, p \in older : holder[o] = holder[p] => o = p
    BY <1>2
  <2> HIDE DEF holder
  <2>. QED  BY <2>1, <2>2 DEF Injection, IsInjective
<1>4. /\ IsFiniteSet(Workers \ {w}) /\ Cardinality(Workers \ {w}) = Cardinality(Workers) - 1
      /\ Cardinality(Workers) \in Nat
  BY NotifierAssumption, FS_RemoveElement, FS_CardinalityType DEF Busy
<1>5. IsFiniteSet(older) /\ Cardinality(older) <= Cardinality(Workers \ {w})
  BY <1>3, <1>4, FS_Injection
<1>6. Cardinality(older) \in Nat
  BY <1>5, FS_CardinalityType
<1>. QED  BY <1>4, <1>5, <1>6

(* The older unsettled events never become more.                           *)
LEMMA OvertakingStays ==
  ASSUME IInv, NEW e \in Settled,
         {o \in (queued \ Settled)' : o < e} \subseteq {o \in queued \ Settled : o < e}
  PROVE  Cardinality({o \in (queued \ Settled)' : o < e}) < Cardinality(Workers)
<1>1. IsFiniteSet({o \in queued \ Settled : o < e})
  <2>1. IsFiniteSet(0 .. handed - 1)
    BY FS_Interval DEF IInv, TypeOK
  <2>. QED  BY <2>1, FS_Subset DEF IInv, TypeOK
<1>2. Cardinality({o \in queued \ Settled : o < e}) < Cardinality(Workers)
  BY DEF IInv, OvertakingIsBounded
<1>3. /\ Cardinality({o \in (queued \ Settled)' : o < e}) <= Cardinality({o \in queued \ Settled : o < e})
      /\ IsFiniteSet({o \in (queued \ Settled)' : o < e})
  BY <1>1, FS_Subset
<1>. QED  BY <1>1, <1>2, <1>3, FS_CardinalityType, NotifierAssumption

-----------------------------------------------------------------------------
(* The steps.                                                              *)
LEMMA InitIInv == Init => IInv
<1> SUFFICES ASSUME Init PROVE IInv
  OBVIOUS
<1> USE DEF Init, Idle, At
<1>1. Busy = {} /\ Held = {} /\ Settled = {} /\ Range(queue) = {} /\ DOMAIN queue = {}
  BY DEF Busy, Held, Settled, Range
<1>2. TypeOK
  <2>1. queue \in Seq(0 .. handed - 1) /\ Len(queue) <= QueueSize
    BY NotifierAssumption, EmptySeq
  <2>2. job \in [Workers -> [phase : Phases, ev : Nat, attempt : 0 .. MaxAttempts]]
    BY NotifierAssumption DEF Phases
  <2>3. handed \in 0 .. MaxEvents
    BY NotifierAssumption
  <2>. QED  BY <2>1, <2>2, <2>3 DEF TypeOK
<1>3. EachEventInOnePlace
  BY <1>1 DEF EachEventInOnePlace, IsInjective
<1>4. InOrder /\ OvertakingIsBounded
  BY <1>1 DEF InOrder, OvertakingIsBounded
<1>5. WorkersConsistent /\ ShutdownConsistent /\ FailsOnlyWhenDue /\ AbandonedIsNotSent
  BY <1>1 DEF WorkersConsistent, ShutdownConsistent, FailsOnlyWhenDue, AbandonedIsNotSent
<1>. QED  BY <1>2, <1>3, <1>4, <1>5 DEF IInv

LEMMA HandIInv ==
  ASSUME IInv, Accept \/ Drop \/ Ignore
  PROVE  IInv'
<1>1. /\ handed \in Nat /\ handed' = handed + 1 /\ handed' \in 0 .. MaxEvents
      /\ 0 .. handed' - 1 = (0 .. handed - 1) \cup {handed}
      /\ 0 .. handed' - 1 = 0 .. handed /\ handed \notin 0 .. handed - 1
  BY NotifierAssumption DEF Accept, Drop, Ignore, Hand, IInv, TypeOK
<1>2. /\ Busy' = Busy /\ Held' = Held /\ Settled' = Settled
      /\ job' = job /\ UNCHANGED <<failed, delivered, retried, refused, shutdown>>
  BY DEF Accept, Drop, Ignore, Busy, Held, Settled
<1>3. ASSUME NEW e \in Held \cup Settled
      PROVE  e \in 0 .. handed - 1
  BY <1>3 DEF IInv, EachEventInOnePlace, TypeOK
<1>4. CASE Accept
  <2>1. queue' = Append(queue, handed) /\ queued' = queued \cup {handed} /\ ~closed
    BY <1>4 DEF Accept
  <2>2. UNCHANGED <<dropped, ignored>> /\ Len(queue) < QueueSize
    BY <1>4 DEF Accept, HasRoom
  <2>3. /\ Len(queue') = Len(queue) + 1
        /\ \A i \in 1 .. Len(queue) : queue'[i] = queue[i]
        /\ queue'[Len(queue) + 1] = handed
        /\ DOMAIN queue = 1 .. Len(queue) /\ DOMAIN queue' = 1 .. Len(queue) + 1
        /\ queue' \in Seq(0 .. handed) /\ Range(queue') = Range(queue) \cup {handed}
    BY <2>1, AppendRange DEF IInv
  <2>4. Len(queue) \in Nat /\ \A i \in 1 .. Len(queue) : queue[i] \in 0 .. handed - 1
    BY <2>3, LenProperties, ElementOfSeq DEF IInv, TypeOK
  <2>5. TypeOK'
    BY <1>1, <1>2, <2>1, <2>2, <2>3, <2>4, NotifierAssumption DEF IInv, TypeOK, shutdown
  <2>6. EachEventInOnePlace'
    <3>1. /\ (0 .. handed - 1 = queued \cup dropped \cup ignored)'
          /\ (queued \cap dropped = {} /\ (queued \cup dropped) \cap ignored = {})'
      BY <1>1, <2>1, <2>2 DEF IInv, EachEventInOnePlace, TypeOK
    <3>2. (queued = Range(queue) \cup Held \cup Settled)'
      BY <1>2, <2>1, <2>3 DEF IInv, EachEventInOnePlace
    <3>3. IsInjective(queue)'
      BY <1>1, <2>3, <2>4 DEF IInv, EachEventInOnePlace, IsInjective
    <3>4. (Range(queue) \cap Held = {} /\ (Range(queue) \cup Held) \cap Settled = {})'
      BY <1>1, <1>2, <1>3, <2>3 DEF IInv, EachEventInOnePlace
    <3>. QED  BY <1>2, <3>1, <3>2, <3>3, <3>4 DEF IInv, EachEventInOnePlace
  <2>7. InOrder'
    <3>1. ASSUME NEW i \in DOMAIN queue', NEW j \in DOMAIN queue', i < j
          PROVE  queue'[i] < queue'[j]
      <4>1. i \in DOMAIN queue /\ queue'[i] = queue[i]
        BY <2>3, <2>4, <3>1
      <4>2. CASE j \in DOMAIN queue
        BY <2>3, <3>1, <4>1, <4>2 DEF IInv, InOrder
      <4>3. CASE j = Len(queue) + 1
        BY <1>1, <2>3, <2>4, <4>1, <4>3
      <4>. QED  BY <2>3, <2>4, <4>2, <4>3
    <3>2. \A i \in DOMAIN queue' : \A e \in Held \cup Settled : e < queue'[i]
      BY <1>1, <1>3, <2>3, <2>4 DEF IInv, InOrder
    <3>. QED  BY <1>2, <3>1, <3>2 DEF InOrder
  <2>8. OvertakingIsBounded'
    <3> SUFFICES ASSUME NEW e \in Settled
                 PROVE  Cardinality({o \in (queued \ Settled)' : o < e}) < Cardinality(Workers)
      BY <1>2 DEF OvertakingIsBounded
    <3>1. {o \in (queued \ Settled)' : o < e} \subseteq {o \in queued \ Settled : o < e}
      BY <1>1, <1>2, <1>3, <2>1
    <3>. QED  BY <3>1, OvertakingStays
  <2>9. WorkersConsistent'
    BY <1>2, <2>1 DEF IInv, WorkersConsistent, shutdown
  <2>. QED  BY <1>2, <2>5, <2>6, <2>7, <2>8, <2>9
            DEF IInv, ShutdownConsistent, FailsOnlyWhenDue, AbandonedIsNotSent, shutdown, AllExited
<1>5. CASE Drop \/ Ignore
  <2>1. /\ UNCHANGED <<queue, queued>>
        /\ \/ dropped' = dropped \cup {handed} /\ ignored' = ignored
           \/ dropped' = dropped /\ ignored' = ignored \cup {handed}
    BY <1>5 DEF Drop, Ignore
  <2>2. queue \in Seq(0 .. handed' - 1)
    BY <1>1, SeqMonotonic DEF IInv, TypeOK
  <2>3. TypeOK'
    BY <1>1, <1>2, <2>1, <2>2 DEF IInv, TypeOK, shutdown
  <2>4. EachEventInOnePlace'
    BY <1>1, <1>2, <2>1 DEF IInv, EachEventInOnePlace, TypeOK, Range
  <2>. QED  BY <1>2, <2>1, <2>3, <2>4
            DEF IInv, InOrder, WorkersConsistent, ShutdownConsistent, FailsOnlyWhenDue,
                OvertakingIsBounded, AbandonedIsNotSent, shutdown, AllExited
<1>. QED  BY <1>4, <1>5

LEMMA TakeIInv ==
  ASSUME IInv, NEW w \in Workers, Take(w)
  PROVE  IInv'
<1>0. PICK r : r = Attempt(Head(queue), 1)
  OBVIOUS
<1>1. /\ job[w] = Idle /\ queue # <<>> /\ queue' = Tail(queue) /\ job' = [job EXCEPT ![w] = r]
      /\ UNCHANGED <<delivered, failed, retried, refused, counters, shutdown>>
  BY <1>0 DEF Take
<1>2. /\ Len(queue) \in Nat \ {0} /\ Len(queue') = Len(queue) - 1
      /\ \A i \in 1 .. Len(queue) - 1 : queue'[i] = queue[i + 1]
      /\ DOMAIN queue = 1 .. Len(queue) /\ DOMAIN queue' = 1 .. Len(queue) - 1
      /\ queue' \in Seq(0 .. handed - 1)
      /\ Head(queue) = queue[1] /\ Head(queue) \in 0 .. handed - 1
      /\ Range(queue) = Range(queue') \cup {Head(queue)}
  BY <1>1, TailRange DEF IInv
<1>3. /\ r.ev = Head(queue) /\ r.attempt = 1 /\ r.phase \in {"trying", "cancelled"}
      /\ r.phase = "trying" => ~ctxDone
      /\ r \in [phase : Phases, ev : Nat, attempt : 0 .. MaxAttempts]
  BY <1>0, <1>2, NotifierAssumption DEF Attempt, At, Phases, IInv, TypeOK
<1>4. /\ Busy' = Busy \cup {w} /\ w \notin Busy /\ Held' = Held \cup {Head(queue)}
      /\ job'[w] = r /\ \A v \in Workers \ {w} : job'[v] = job[v]
  <2>1. job'[w] = r
    BY <1>1 DEF IInv, TypeOK
  <2>2. /\ Busy' = Busy \cup {w} /\ w \notin Busy /\ Held' = Held \cup {job'[w].ev}
        /\ \A v \in Workers \ {w} : job'[v] = job[v]
    BY <1>1, <1>3, <2>1, StartHeld DEF IInv
  <2>. QED  BY <1>3, <2>1, <2>2
<1>5. Settled' = Settled
  BY <1>1 DEF Settled
<1>6. TypeOK'
  <2>1. job' \in [Workers -> [phase : Phases, ev : Nat, attempt : 0 .. MaxAttempts]]
    BY <1>1, <1>3 DEF IInv, TypeOK
  <2>2. Len(queue') <= QueueSize
    BY <1>2, NotifierAssumption DEF IInv, TypeOK
  <2>. QED  BY <1>1, <1>2, <2>1, <2>2 DEF IInv, TypeOK, counters, shutdown
<1>7. Head(queue) \notin Range(queue') /\ Head(queue) \notin Held \cup Settled
  <2>1. \A i \in DOMAIN queue' : queue'[i] # Head(queue)
    BY <1>2 DEF IInv, EachEventInOnePlace, IsInjective
  <2>. QED  BY <1>2, <2>1 DEF Range, IInv, EachEventInOnePlace
<1>8. EachEventInOnePlace'
  <2>1. IsInjective(queue)'
    BY <1>2 DEF IInv, EachEventInOnePlace, IsInjective
  <2>2. \A v \in Busy : job'[v].ev = job[v].ev /\ job[v].ev \in Held
    BY <1>4 DEF Held, Busy
  <2>3. (\A u, v \in Busy : job[u].ev = job[v].ev => u = v)'
    BY <1>3, <1>4, <1>7, <2>2 DEF IInv, EachEventInOnePlace
  <2>4. /\ (queued = Range(queue) \cup Held \cup Settled)'
        /\ (Range(queue) \cap Held = {} /\ (Range(queue) \cup Held) \cap Settled = {})'
    BY <1>1, <1>2, <1>4, <1>5, <1>7 DEF IInv, EachEventInOnePlace, counters
  <2>. QED  BY <1>1, <2>1, <2>3, <2>4 DEF IInv, EachEventInOnePlace, counters
<1>9. InOrder'
  <2>1. ASSUME NEW i \in DOMAIN queue', NEW j \in DOMAIN queue', i < j
        PROVE  queue'[i] < queue'[j]
    <3>1. /\ queue'[i] = queue[i + 1] /\ queue'[j] = queue[j + 1]
          /\ i + 1 \in DOMAIN queue /\ j + 1 \in DOMAIN queue /\ i + 1 < j + 1
      BY <1>2, <2>1
    <3>. QED  BY <3>1 DEF IInv, InOrder
  <2>2. \A i \in DOMAIN queue' : \A e \in Held \cup Settled \cup {Head(queue)} : e < queue'[i]
    BY <1>2 DEF IInv, InOrder
  <2>. QED  BY <1>4, <1>5, <2>1, <2>2 DEF InOrder
<1>10. WorkersConsistent'
  <2>1. r.phase = "trying" => r.ev \notin cutOff
    BY <1>3 DEF IInv, ShutdownConsistent
  <2>2. \A v \in Workers : job[v].phase # "exited"
    BY <1>1 DEF IInv, WorkersConsistent
  <2>. QED  BY <1>1, <1>3, <1>4, <2>1, <2>2 DEF IInv, WorkersConsistent, shutdown
<1>11. ShutdownConsistent'
  <2>1. ~AllExited
    BY <1>1 DEF AllExited, Idle, Exited, At
  <2>. QED  BY <1>1, <2>1 DEF IInv, ShutdownConsistent, shutdown
<1>12. (FailsOnlyWhenDue /\ OvertakingIsBounded /\ AbandonedIsNotSent)'
  BY <1>1, <1>5 DEF IInv, FailsOnlyWhenDue, OvertakingIsBounded, AbandonedIsNotSent, counters, shutdown
<1>. QED  BY <1>6, <1>8, <1>9, <1>10, <1>11, <1>12 DEF IInv

LEMMA ExitIInv ==
  ASSUME IInv, NEW w \in Workers, Exit(w)
  PROVE  IInv'
<1>1. /\ job[w] = Idle /\ closed /\ queue = <<>> /\ job' = [job EXCEPT ![w] = Exited]
      /\ UNCHANGED <<queue, delivered, failed, retried, refused, counters, shutdown>>
  BY DEF Exit, RangeEnds
<1>2. /\ Busy' = Busy /\ Held' = Held
      /\ job'[w] = Exited /\ \A v \in Workers \ {w} : job'[v] = job[v]
  BY <1>1, ExitHeld DEF IInv
<1>3. Settled' = Settled
  BY <1>1 DEF Settled
<1>4. Exited \in [phase : Phases, ev : Nat, attempt : 0 .. MaxAttempts]
  BY NotifierAssumption DEF Exited, At, Phases
<1>5. TypeOK'
  BY <1>1, <1>4 DEF IInv, TypeOK, counters, shutdown
<1>6. w \notin Busy
  BY <1>1 DEF Busy, Idle, At
<1>7. EachEventInOnePlace'
  BY <1>1, <1>2, <1>3, <1>6 DEF IInv, EachEventInOnePlace, counters, Busy
<1>8. InOrder'
  BY <1>1, <1>2, <1>3 DEF IInv, InOrder
<1>9. WorkersConsistent'
  BY <1>1, <1>2 DEF IInv, WorkersConsistent, shutdown, Exited, At, Busy
<1>10. ShutdownConsistent'
  <2>1. ~AllExited
    BY <1>1 DEF AllExited, Idle, Exited, At
  <2>. QED  BY <1>1, <2>1 DEF IInv, ShutdownConsistent, shutdown
<1>11. (FailsOnlyWhenDue /\ OvertakingIsBounded /\ AbandonedIsNotSent)'
  BY <1>1, <1>3 DEF IInv, FailsOnlyWhenDue, OvertakingIsBounded, AbandonedIsNotSent, counters, shutdown
<1>. QED  BY <1>5, <1>7, <1>8, <1>9, <1>10, <1>11 DEF IInv

(* A delivery goes on: a retry that backs off, or the end of a backoff.    *)
LEMMA ContinueIInv ==
  ASSUME IInv, NEW w \in Workers,
         (Retry(w) /\ ~Interrupted) \/ BackoffEnds(w)
  PROVE  IInv'
<1>1. /\ w \in Busy /\ job' = [job EXCEPT ![w] = job'[w]]
      /\ job'[w].ev = job[w].ev /\ job'[w].phase \in {"trying", "cancelled", "backoff"}
      /\ job'[w] \in [phase : Phases, ev : Nat, attempt : 0 .. MaxAttempts]
      /\ job'[w].attempt >= 1
      /\ job'[w].phase = "backoff" => job'[w].attempt < MaxAttempts
      /\ job'[w].phase = "trying" => ~ctxDone
  <2>1. job \in [Workers -> [phase : Phases, ev : Nat, attempt : 0 .. MaxAttempts]]
    BY DEF IInv, TypeOK
  <2>2. CASE Retry(w) /\ ~Interrupted
    <3>1. /\ job[w].phase \in {"trying", "cancelled"} /\ ~(job[w].attempt >= MaxAttempts)
          /\ job' = [job EXCEPT ![w].phase = "backoff"]
      BY <2>2 DEF Retry, OutOfAttempts
    <3>2. w \in Busy /\ job[w].attempt >= 1
      BY <3>1 DEF Busy, IInv, WorkersConsistent
    <3>3. job'[w] = [job[w] EXCEPT !.phase = "backoff"] /\ job' = [job EXCEPT ![w] = job'[w]]
      BY <2>1, <3>1
    <3>. QED  BY <2>1, <3>1, <3>2, <3>3, NotifierAssumption DEF Phases
  <2>3. CASE BackoffEnds(w)
    <3>1. /\ job[w].phase = "backoff"
          /\ job' = [job EXCEPT ![w] = Attempt(job[w].ev, job[w].attempt + 1)]
      BY <2>3 DEF BackoffEnds
    <3>2. w \in Busy /\ job[w].attempt < MaxAttempts /\ job[w].attempt >= 1
      BY <3>1 DEF Busy, IInv, WorkersConsistent
    <3>3. job'[w] = Attempt(job[w].ev, job[w].attempt + 1) /\ job' = [job EXCEPT ![w] = job'[w]]
      BY <2>1, <3>1
    <3>. QED  BY <2>1, <3>2, <3>3, NotifierAssumption DEF Phases, Attempt, At
  <2>. QED  BY <2>2, <2>3
<1>2. /\ Busy' = Busy /\ Held' = Held
      /\ \A v \in Workers \ {w} : job'[v] = job[v]
      /\ \A v \in Workers : job'[v].ev = job[v].ev
  BY <1>1, ContinueHeld DEF IInv
<1>3. /\ UNCHANGED <<queue, delivered, failed, refused, counters, shutdown>>
      /\ retried' \subseteq retried \cup {<<job[w].ev, job[w].attempt>>}
  BY DEF Retry, BackoffEnds, Interrupted
<1>4. Settled' = Settled
  BY <1>3 DEF Settled
<1>5. TypeOK'
  <2>1. job[w].ev \in queued
    BY <1>1 DEF IInv, EachEventInOnePlace, Held
  <2>2. job[w].attempt \in 1 .. MaxAttempts
    BY <1>1 DEF IInv, TypeOK, WorkersConsistent
  <2>3. retried' \subseteq queued \X (1 .. MaxAttempts)
    BY <1>3, <2>1, <2>2 DEF IInv, TypeOK
  <2>4. job' \in [Workers -> [phase : Phases, ev : Nat, attempt : 0 .. MaxAttempts]]
    BY <1>1 DEF IInv, TypeOK
  <2>. QED  BY <1>3, <2>3, <2>4 DEF IInv, TypeOK, counters, shutdown
<1>6. EachEventInOnePlace'
  BY <1>2, <1>3, <1>4 DEF IInv, EachEventInOnePlace, counters, Busy
<1>7. InOrder'
  BY <1>2, <1>3, <1>4 DEF IInv, InOrder
<1>8. WorkersConsistent'
  BY <1>1, <1>2, <1>3 DEF IInv, WorkersConsistent, ShutdownConsistent, shutdown, Busy
<1>9. ShutdownConsistent'
  <2>1. ~AllExited
    BY <1>1 DEF AllExited, Exited, At, Busy
  <2>. QED  BY <1>3, <2>1 DEF IInv, ShutdownConsistent, shutdown
<1>10. (FailsOnlyWhenDue /\ OvertakingIsBounded /\ AbandonedIsNotSent)'
  BY <1>3, <1>4 DEF IInv, FailsOnlyWhenDue, OvertakingIsBounded, AbandonedIsNotSent, counters, shutdown
<1>. QED  BY <1>5, <1>6, <1>7, <1>8, <1>9, <1>10 DEF IInv

(* A worker is done with its event, which counts as delivered or failed.   *)
LEMMA SettleIInv ==
  ASSUME IInv, NEW w \in Workers,
         \/ Succeed(w) \/ Refused(w) \/ GiveUp(w)
         \/ (Retry(w) /\ Interrupted) \/ BackoffInterrupted(w)
  PROVE  IInv'
<1> DEFINE e == job[w].ev
           n == job[w].attempt
<1>1. /\ w \in Busy /\ job' = [job EXCEPT ![w] = Idle]
      /\ UNCHANGED <<queue, counters, shutdown>>
      /\ retried' \subseteq retried \cup {<<e, n>>} /\ refused' \subseteq refused \cup {e}
      /\ refused \subseteq refused'
      /\ \/ delivered' = delivered \cup {e} /\ failed' = failed /\ job[w].phase = "trying"
         \/ /\ delivered' = delivered /\ failed' = failed \cup {<<e, n>>}
            /\ e \in refused' \/ n >= MaxAttempts \/ done
  BY DEF Succeed, Refused, GiveUp, Retry, BackoffInterrupted, Fail, OutOfAttempts, Interrupted, Busy
<1>2. /\ Busy' = Busy \ {w} /\ Held' = Held \ {e}
      /\ job'[w] = Idle /\ \A v \in Workers \ {w} : job'[v] = job[v]
  BY <1>1, ReleaseHeld DEF IInv
<1>3. Settled' = Settled \cup {e}
  <2>1. CASE delivered' = delivered \cup {e} /\ failed' = failed
    BY <2>1 DEF Settled
  <2>2. CASE delivered' = delivered /\ failed' = failed \cup {<<e, n>>}
    <3>1. <<e, n>>[1] = e
      OBVIOUS
    <3>2. {f[1] : f \in failed'} = {f[1] : f \in failed} \cup {<<e, n>>[1]}
      BY <2>2
    <3>. QED  BY <2>2, <3>1, <3>2 DEF Settled
  <2>. QED  BY <1>1, <2>1, <2>2
<1>4. /\ e \in Held /\ e \in queued /\ e \notin Settled /\ e \notin Range(queue)
      /\ n \in 1 .. MaxAttempts
  <2>1. e \in Held
    BY <1>1 DEF Held
  <2>2. n \in 1 .. MaxAttempts
    BY <1>1 DEF IInv, TypeOK, WorkersConsistent
  <2>. QED  BY <2>1, <2>2 DEF IInv, EachEventInOnePlace
<1>5. TypeOK'
  <2>1. Idle \in [phase : Phases, ev : Nat, attempt : 0 .. MaxAttempts]
    BY NotifierAssumption DEF Idle, At, Phases
  <2>2. job' \in [Workers -> [phase : Phases, ev : Nat, attempt : 0 .. MaxAttempts]]
    BY <1>1, <2>1 DEF IInv, TypeOK
  <2>3. /\ failed' \subseteq queued \X (1 .. MaxAttempts)
        /\ retried' \subseteq queued \X (1 .. MaxAttempts)
        /\ delivered' \subseteq queued /\ refused' \subseteq queued
    <3>1. /\ failed \subseteq queued \X (1 .. MaxAttempts)
          /\ retried \subseteq queued \X (1 .. MaxAttempts)
          /\ delivered \subseteq queued /\ refused \subseteq queued
      BY DEF IInv, TypeOK
    <3>2. <<e, n>> \in queued \X (1 .. MaxAttempts)
      BY <1>4
    <3> HIDE DEF e, n
    <3>. QED  BY <1>1, <1>4, <3>1, <3>2
  <2>. QED  BY <1>1, <2>2, <2>3 DEF IInv, TypeOK, counters, shutdown
<1>6. EachEventInOnePlace'
  <2>1. /\ (queued = Range(queue) \cup Held \cup Settled)'
        /\ (Range(queue) \cap Held = {} /\ (Range(queue) \cup Held) \cap Settled = {})'
    BY <1>1, <1>2, <1>3, <1>4 DEF IInv, EachEventInOnePlace, counters
  <2>2. (\A u, v \in Busy : job[u].ev = job[v].ev => u = v)'
    BY <1>2 DEF IInv, EachEventInOnePlace, Busy
  <2>3. /\ \A f \in failed : f[1] # e /\ f[1] \in Settled
        /\ \A d \in delivered : d # e
    BY <1>4 DEF Settled
  <2>4. (\A f, g \in failed : f[1] = g[1] => f = g)' /\ (\A f \in failed : f[1] \notin delivered)'
    <3>1. CASE delivered' = delivered \cup {e} /\ failed' = failed
      BY <2>3, <3>1 DEF IInv, EachEventInOnePlace
    <3>2. CASE delivered' = delivered /\ failed' = failed \cup {<<e, n>>}
      BY <2>3, <3>2 DEF IInv, EachEventInOnePlace
    <3>. QED  BY <1>1, <3>1, <3>2
  <2>. QED  BY <1>1, <2>1, <2>2, <2>4 DEF IInv, EachEventInOnePlace, counters
<1>7. InOrder'
  BY <1>1, <1>2, <1>3, <1>4 DEF IInv, InOrder
<1>8. WorkersConsistent'
  BY <1>1, <1>2 DEF IInv, WorkersConsistent, shutdown, Busy, Idle, At
<1>9. ShutdownConsistent'
  <2>1. ~AllExited
    BY <1>1 DEF AllExited, Exited, At, Busy
  <2>. QED  BY <1>1, <2>1 DEF IInv, ShutdownConsistent, shutdown
<1>10. FailsOnlyWhenDue'
  <2>1. e \in refused' \/ n >= MaxAttempts => e \in refused' \/ n = MaxAttempts
    BY <1>4, NotifierAssumption
  <2>. QED  BY <1>1, <2>1 DEF IInv, FailsOnlyWhenDue, shutdown
<1>11. OvertakingIsBounded'
  <2> SUFFICES ASSUME NEW d \in Settled'
               PROVE  Cardinality({o \in (queued \ Settled)' : o < d}) < Cardinality(Workers)
    BY DEF OvertakingIsBounded
  <2>1. CASE d \in Settled
    <3>1. {o \in (queued \ Settled)' : o < d} \subseteq {o \in queued \ Settled : o < d}
      BY <1>1, <1>3 DEF counters
    <3>. QED  BY <2>1, <3>1, OvertakingStays
  <2>2. CASE d = e
    <3>1. {o \in (queued \ Settled)' : o < d} = {o \in queued \ (Settled \cup {job[w].ev}) : o < job[w].ev}
      BY <1>1, <1>3, <2>2 DEF counters
    <3>. QED  BY <1>1, <3>1, SettledOvertakesFew
  <2>. QED  BY <1>3, <2>1, <2>2
<1>12. AbandonedIsNotSent'
  BY <1>1 DEF IInv, AbandonedIsNotSent, WorkersConsistent, shutdown
<1>. QED  BY <1>5, <1>6, <1>7, <1>8, <1>9, <1>10, <1>11, <1>12 DEF IInv

LEMMA ShutdownIInv ==
  ASSUME IInv, Close \/ Closing
  PROVE  IInv'
<1>1. UNCHANGED <<queue, job, delivered, failed, retried, refused, counters>>
  BY DEF Close, Closing, Drained, Deadline, CancelRequests, Joined
<1>2. Busy' = Busy /\ Held' = Held /\ Settled' = Settled /\ AllExited' = AllExited
  BY <1>1 DEF Busy, Held, Settled, AllExited
<1>3. /\ closed => closed'
      /\ done => done'
      /\ {closed', done', ctxDone'} \subseteq BOOLEAN
      /\ pc' \in {"open", "draining", "cancelling", "joining", "returned"}
  <2>1. /\ closed' = closed \/ closed' = TRUE
        /\ done' = done \/ done' = TRUE
        /\ ctxDone' = ctxDone \/ ctxDone' = TRUE
    BY DEF Close, Closing, Drained, Deadline, CancelRequests, Joined
  <2>2. pc' \in {"draining", "cancelling", "joining", "returned"}
    BY DEF Close, Closing, Drained, Deadline, CancelRequests, Joined
  <2>3. closed \in BOOLEAN /\ done \in BOOLEAN /\ ctxDone \in BOOLEAN
    BY DEF IInv, TypeOK
  <2>. QED  BY <2>1, <2>2, <2>3
<1>4. /\ ShutdownConsistent'
      /\ cutOff' = cutOff \/ CancelRequests
  BY <1>2 DEF Close, Closing, Drained, Deadline, CancelRequests, Joined, IInv, TypeOK, ShutdownConsistent
<1>5. /\ cutOff' \subseteq queued /\ cutOff' \cap delivered = {}
      /\ \A w \in Workers : job[w].phase = "trying" => job[w].ev \notin cutOff'
  <2>1. CASE cutOff' = cutOff
    BY <2>1 DEF IInv, TypeOK, AbandonedIsNotSent, WorkersConsistent
  <2>2. CASE CancelRequests
    <3> DEFINE waiting == {v \in Busy : job[v].phase = "backoff"}
    <3>1. cutOff' = Range(queue) \cup {job[w].ev : w \in waiting}
      BY <2>2 DEF CancelRequests
    <3>2. cutOff' \subseteq Range(queue) \cup Held
      BY <3>1 DEF Held
    <3>3. ASSUME NEW w \in Workers, job[w].phase = "trying"
          PROVE  job[w].ev \notin Range(queue) /\ \A v \in waiting : job[v].ev # job[w].ev
      <4>1. w \in Busy /\ job[w].ev \in Held
        BY <3>3 DEF Busy, Held
      <4>. QED  BY <3>3, <4>1 DEF IInv, EachEventInOnePlace
    <3>4. cutOff' \subseteq queued /\ cutOff' \cap delivered = {}
      BY <3>2 DEF IInv, EachEventInOnePlace, Settled
    <3>. QED  BY <3>1, <3>3, <3>4
  <2>. QED  BY <1>4, <2>1, <2>2
<1>6. TypeOK'
  BY <1>1, <1>3, <1>5 DEF IInv, TypeOK, counters
<1>7. EachEventInOnePlace' /\ InOrder' /\ OvertakingIsBounded'
  BY <1>1, <1>2 DEF IInv, EachEventInOnePlace, InOrder, OvertakingIsBounded, counters
<1>8. WorkersConsistent'
  BY <1>1, <1>2, <1>3, <1>5 DEF IInv, WorkersConsistent
<1>9. FailsOnlyWhenDue' /\ AbandonedIsNotSent'
  BY <1>1, <1>3, <1>5 DEF IInv, FailsOnlyWhenDue, AbandonedIsNotSent
<1>. QED  BY <1>4, <1>6, <1>7, <1>8, <1>9 DEF IInv

LEMMA NextIInv ==
  ASSUME IInv, [Next]_vars
  PROVE  IInv'
<1>1. CASE Accept \/ Drop \/ Ignore
  BY <1>1, HandIInv
<1>2. ASSUME NEW w \in Workers, Work(w)
      PROVE  IInv'
  <2>1. CASE Take(w)
    BY <2>1, TakeIInv
  <2>2. CASE Exit(w)
    BY <2>2, ExitIInv
  <2>3. CASE Succeed(w) \/ Refused(w) \/ GiveUp(w) \/ BackoffInterrupted(w)
    BY <2>3, SettleIInv
  <2>4. CASE Retry(w)
    BY <2>4, ContinueIInv, SettleIInv
  <2>5. CASE BackoffEnds(w)
    BY <2>5, ContinueIInv
  <2>. QED  BY <1>2, <2>1, <2>2, <2>3, <2>4, <2>5 DEF Work
<1>3. CASE Close \/ Closing
  BY <1>3, ShutdownIInv
<1>4. CASE UNCHANGED vars
  <2>1. UNCHANGED <<queue, job, delivered, failed, retried, refused, handed, queued, dropped,
                    ignored, closed, done, ctxDone, pc, cutOff>>
    BY <1>4 DEF vars, counters, shutdown
  <2>2. Busy' = Busy /\ Held' = Held /\ Settled' = Settled /\ AllExited' = AllExited
    BY <2>1 DEF Busy, Held, Settled, AllExited
  <2>3. TypeOK' /\ EachEventInOnePlace'
    BY <2>1, <2>2 DEF IInv, TypeOK, EachEventInOnePlace
  <2>4. InOrder' /\ WorkersConsistent' /\ ShutdownConsistent'
    BY <2>1, <2>2 DEF IInv, InOrder, WorkersConsistent, ShutdownConsistent
  <2>5. FailsOnlyWhenDue' /\ OvertakingIsBounded' /\ AbandonedIsNotSent'
    BY <2>1, <2>2 DEF IInv, FailsOnlyWhenDue, OvertakingIsBounded, AbandonedIsNotSent
  <2>. QED  BY <2>3, <2>4, <2>5 DEF IInv
<1>. QED  BY <1>1, <1>2, <1>3, <1>4 DEF Next

LEMMA Invariance == Spec => []IInv
  BY InitIInv, NextIInv, PTL DEF Spec

-----------------------------------------------------------------------------
(* Every variable keeps its type.                                          *)
THEOREM NotifierTypeCorrect == Spec => []TypeOK
<1>1. IInv => TypeOK
  BY DEF IInv
<1>. QED  BY <1>1, Invariance, PTL

(* No event is lost, duplicated or counted twice, whatever is interleaved  *)
(* with the shutdown.                                                      *)
THEOREM NoEventLostOrCountedTwice == Spec => []EachEventInOnePlace
<1>1. IInv => EachEventInOnePlace
  BY DEF IInv
<1>. QED  BY <1>1, Invariance, PTL

(* When Close returns, all accepted events are delivered or failed: the    *)
(* workers have exited, so that nothing is in hand or in the queue.        *)
THEOREM NothingLeftAtClose == Spec => []CloseLeavesNothing
<1>1. IInv => CloseLeavesNothing
  <2> SUFFICES ASSUME IInv, pc = "returned"
               PROVE  queued = Settled
    BY DEF CloseLeavesNothing
  <2>1. AllExited
    BY DEF IInv, ShutdownConsistent
  <2>2. Held = {}
    BY <2>1 DEF Held, Busy, AllExited, Exited, At
  <2>3. queue = <<>>
    BY <2>1, NotifierAssumption DEF AllExited, IInv, WorkersConsistent, Exited, At
  <2>4. Range(queue) = {}
    BY <2>3 DEF Range
  <2>. QED  BY <2>2, <2>4 DEF IInv, EachEventInOnePlace
<1>. QED  BY <1>1, Invariance, PTL

(* An event is given up only for one of the reasons the code names.        *)
THEOREM NoEarlyFailure == Spec => []FailsOnlyWhenDue
<1>1. IInv => FailsOnlyWhenDue
  BY DEF IInv
<1>. QED  BY <1>1, Invariance, PTL

(* With n workers, a settled event overtook fewer than n older ones that   *)
(* are still open; a pool of one worker delivers in order.                 *)
THEOREM BoundedOvertaking == Spec => []OvertakingIsBounded
<1>1. IInv => OvertakingIsBounded
  BY DEF IInv
<1>. QED  BY <1>1, Invariance, PTL

(* What Close abandons is not sent any more.                               *)
THEOREM AbandonedStaysUnsent == Spec => []AbandonedIsNotSent
<1>1. IInv => AbandonedIsNotSent
  BY DEF IInv
<1>. QED  BY <1>1, Invariance, PTL
=============================================================================
