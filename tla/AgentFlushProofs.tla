-------------------------- MODULE AgentFlushProofs --------------------------
(***************************************************************************)
(* Proofs about AgentFlush, for every capacity, batch limit, hub limit,    *)
(* number of rounds and number of outages.                                 *)
(*                                                                         *)
(* NoSilentLoss is not inductive: commit removes rounds on the strength of *)
(* a push that began many steps earlier.  What carries it is that a peeked *)
(* batch is a run of consecutive sequence numbers beginning at or before   *)
(* the buffer's head, each of whose rounds is acknowledged, refused, or    *)
(* still in a slice that sendBatch has to push.                            *)
(*                                                                         *)
(* The second part is the refinement of StoreForward, and the order in     *)
(* which rounds come to the hub.  Every measured round has the fate that   *)
(* FateOf computes (Account); everything older than the next slice is      *)
(* stored, counted or given up (Order), so that a late request brings      *)
(* nothing that is both new and overtaken.                                 *)
(***************************************************************************)
EXTENDS AgentFlush, TLAPS, SequenceTheorems

Settled == acked \cup dropped \cup rejected

(* Everything before the head of the buffer has been accounted for.        *)
PastSettled == \A id \in 0 .. headSeq - 1 : id \in Settled

(* While a batch is being sent it is the run of rounds ending at upto.     *)
PeekedRun ==
  IsSending =>
    /\ Len(batch) >= 1
    /\ upto < measured
    /\ upto - Len(batch) + 1 \in 0 .. headSeq
    /\ \A i \in 1 .. Len(batch) : batch[i].id = upto - Len(batch) + i

(* The slices still to be pushed lie within the batch.                     *)
SlicesInBatch ==
  IsSending =>
    \A j \in 1 .. Len(todo) :
      todo[j][1] \in 1 .. todo[j][2] /\ todo[j][2] \in 1 .. Len(batch)

(* Every round of the batch has been answered for or is still to be sent.  *)
BatchHandled ==
  IsSending =>
    \A i \in 1 .. Len(batch) :
      \/ batch[i].id \in acked \cup refused
      \/ \E j \in 1 .. Len(todo) : i \in todo[j][1] .. todo[j][2]

IInv == /\ TypeOK /\ SeqsMatchRounds
        /\ PastSettled /\ PeekedRun /\ SlicesInBatch /\ BatchHandled

-----------------------------------------------------------------------------
(* What is left of a sequence once its first k elements are removed.       *)
LEMMA AfterProperties ==
  ASSUME NEW S, NEW s \in Seq(S), NEW k \in 0 .. Len(s)
  PROVE  /\ After(s, k) \in Seq(S)
         /\ Len(After(s, k)) = Len(s) - k
         /\ \A i \in 1 .. Len(s) - k : After(s, k)[i] = s[i + k]
<1>1. \A i \in k + 1 .. Len(s) : s[i] \in S
  OBVIOUS
<1>2. /\ SubSeq(s, k + 1, Len(s)) \in Seq(S)
      /\ Len(SubSeq(s, k + 1, Len(s))) = IF k + 1 <= Len(s) THEN Len(s) - (k + 1) + 1 ELSE 0
      /\ \A i \in 1 .. Len(s) - (k + 1) + 1 :
            SubSeq(s, k + 1, Len(s))[i] = s[k + 1 + i - 1]
  BY <1>1, SubSeqProperties
<1>. QED  BY <1>2 DEF After

(* A slice of the batch is a sequence of rounds of the batch.              *)
LEMMA SliceProperties ==
  ASSUME NEW s \in Seq(Round), NEW w \in Nat \X Nat,
         w[1] \in 1 .. w[2], w[2] \in 1 .. Len(s)
  PROVE  /\ Slice(s, w) \in Seq(Round)
         /\ Len(Slice(s, w)) = w[2] - w[1] + 1
         /\ \A i \in w[1] .. w[2] : s[i].id \in Ids(Slice(s, w))
         /\ Ids(Slice(s, w)) \subseteq Nat
<1>1. \A i \in w[1] .. w[2] : s[i] \in Round
  OBVIOUS
<1>2. /\ SubSeq(s, w[1], w[2]) \in Seq(Round)
      /\ Len(SubSeq(s, w[1], w[2])) = w[2] - w[1] + 1
      /\ \A i \in 1 .. w[2] - w[1] + 1 : SubSeq(s, w[1], w[2])[i] = s[w[1] + i - 1]
  BY <1>1, SubSeqProperties
<1>3. ASSUME NEW i \in w[1] .. w[2]
      PROVE  s[i].id \in Ids(Slice(s, w))
  <2>1. i - w[1] + 1 \in 1 .. w[2] - w[1] + 1
    OBVIOUS
  <2>2. Slice(s, w)[i - w[1] + 1] = s[i]
    BY <1>2, <2>1 DEF Slice
  <2>3. i - w[1] + 1 \in DOMAIN Slice(s, w)
    BY <1>2, <2>1 DEF Slice
  <2>. QED  BY <2>2, <2>3 DEF Ids
<1>4. Ids(Slice(s, w)) \subseteq Nat
  <2> SUFFICES ASSUME NEW i \in DOMAIN Slice(s, w)
               PROVE  Slice(s, w)[i].id \in Nat
    BY DEF Ids
  <2>1. Slice(s, w)[i] \in Round
    BY <1>2 DEF Slice
  <2>. QED  BY <2>1 DEF Round
<1>. QED  BY <1>2, <1>3, <1>4 DEF Slice

-----------------------------------------------------------------------------
LEMMA InitIInv == Init => IInv
<1> SUFFICES ASSUME Init PROVE IInv
  OBVIOUS
<1>1. /\ rounds = <<>> /\ batch = <<>> /\ todo = <<>>
      /\ headSeq = 0 /\ upto = -1 /\ measured = 0 /\ outages = 0 /\ pc = "loop"
  BY DEF Init
<1>2. /\ rounds \in Seq(Round) /\ batch \in Seq(Round) /\ todo \in Seq(Nat \X Nat)
      /\ Len(rounds) = 0
  BY <1>1
<1>3. Len(rounds) <= Cap
  BY <1>2, FlushAssumption
<1>4. TypeOK
  <2>1. BufferOK
    BY <1>1, <1>2, <1>3 DEF Init, BufferOK
  <2>2. SendingOK
    BY <1>1, <1>2 DEF Init, SendingOK
  <2>3. ControlOK
    BY Zenon DEF Init, ControlOK
  <2>4. WorldOK
    BY <1>1 DEF Init, WorldOK
  <2>. QED  BY <1>1, <2>1, <2>2, <2>3, <2>4 DEF Init, TypeOK
<1>5. SeqsMatchRounds /\ PastSettled
  BY <1>1, <1>2 DEF SeqsMatchRounds, PastSettled
<1>. QED  BY <1>1, <1>4, <1>5 DEF IInv, PeekedRun, SlicesInBatch, BatchHandled, IsSending

(* add: what it evicts it counts, what it appends continues the numbering. *)
LEMMA MeasureRoundIInv ==
  ASSUME IInv, NEW shape \in Shapes, MeasureRound(shape)
  PROVE  IInv'
<1> DEFINE r == [id |-> measured, sz |-> shape.sz, wellFormed |-> shape.wellFormed]
<1>1. PICK k \in 0 .. Len(rounds) :
        /\ EvictToFit(k, r.sz)
        /\ rounds' = Append(After(rounds, k), r)
        /\ headSeq' = headSeq + k
        /\ dropped' = dropped \cup {rounds[i].id : i \in 1 .. k}
  BY DEF MeasureRound, Add
<1>2. r \in Round
  BY FlushAssumption DEF IInv, TypeOK, BufferOK, SendingOK, Round
<1>3. /\ After(rounds, k) \in Seq(Round)
      /\ Len(After(rounds, k)) = Len(rounds) - k
      /\ \A i \in 1 .. Len(rounds) - k : After(rounds, k)[i] = rounds[i + k]
  BY AfterProperties DEF IInv, TypeOK, BufferOK, SendingOK
<1>4. /\ rounds' \in Seq(Round)
      /\ Len(rounds') = Len(rounds) - k + 1
      /\ \A i \in 1 .. Len(rounds) - k : rounds'[i] = rounds[i + k]
      /\ rounds'[Len(rounds) - k + 1] = r
  BY <1>1, <1>2, <1>3
<1>5. Len(rounds') <= Cap
  <2>1. Fits(After(rounds, k), r.sz)
    BY <1>1 DEF EvictToFit
  <2>2. After(rounds, k) = <<>> \/ Len(After(rounds, k)) < Cap
    BY <2>1 DEF Fits
  <2>. QED  BY <2>2, <1>3, <1>4, FlushAssumption DEF IInv, TypeOK, BufferOK, SendingOK
<1>6. TypeOK'
  <2>1. ASSUME NEW i \in 1 .. k PROVE rounds[i].id \in Nat
    <3>1. rounds \in Seq(Round) /\ i \in 1 .. Len(rounds)
      BY DEF IInv, TypeOK, BufferOK, SendingOK
    <3>2. rounds[i] \in Round
      BY <3>1
    <3>. QED  BY <3>2 DEF Round
  <2>2. dropped' \subseteq Nat
    BY <1>1, <2>1 DEF IInv, TypeOK, BufferOK, SendingOK
  <2>3. headSeq' \in Nat /\ measured' \in Nat
    BY <1>1 DEF IInv, TypeOK, BufferOK, SendingOK, MeasureRound
  <2>4. UNCHANGED <<rejected, batch, upto, todo, refused, disowned, pc, ctxDone,
                    measureDone, gaveUp, acked, hub, late, outages>>
    BY DEF MeasureRound, sending, world
  <2>5. BufferOK'
    BY <1>4, <1>5, <2>2, <2>3 DEF BufferOK
  <2>6. SendingOK' /\ ControlOK' /\ WorldOK'
    BY <2>4 DEF IInv, TypeOK, SendingOK, ControlOK, WorldOK
  <2>. QED  BY <2>3, <2>4, <2>5, <2>6 DEF IInv, TypeOK
<1>7. SeqsMatchRounds'
  <2>1. /\ headSeq \in Nat /\ Len(rounds) \in Nat /\ measured' = measured + 1
        /\ headSeq + Len(rounds) = measured
    BY DEF IInv, TypeOK, BufferOK, SeqsMatchRounds, MeasureRound
  <2>2. ASSUME NEW i \in DOMAIN rounds' PROVE rounds'[i].id = headSeq' + i - 1
    <3>1. i \in 1 .. Len(rounds) - k + 1
      BY <1>4
    <3>2. CASE i \in 1 .. Len(rounds) - k
      <4>1. i + k \in DOMAIN rounds
        BY <3>2 DEF IInv, TypeOK, BufferOK
      <4>2. rounds[i + k].id = headSeq + (i + k) - 1
        BY <4>1 DEF IInv, SeqsMatchRounds
      <4>3. rounds'[i].id = rounds[i + k].id
        BY <1>4, <3>2
      <4>4. headSeq + (i + k) - 1 = headSeq' + i - 1
        BY <1>1, <2>1, <3>2
      <4>. QED  BY <4>2, <4>3, <4>4
    <3>3. CASE i = Len(rounds) - k + 1
      <4>1. rounds'[i].id = measured
        BY <1>4, <3>3
      <4>2. /\ k \in Nat /\ headSeq' = headSeq + k /\ headSeq \in Nat
            /\ Len(rounds) \in Nat /\ i = Len(rounds) - k + 1
            /\ headSeq + Len(rounds) = measured
        BY <1>1, <2>1, <3>3
      <4>3. headSeq' + i - 1 = measured
        BY <4>2
      <4>. QED  BY <4>1, <4>3
    <3>. QED  BY <2>1, <3>1, <3>2, <3>3
  <2>. QED  BY <1>1, <1>4, <2>1, <2>2 DEF SeqsMatchRounds
<1>8. PastSettled'
  <2> SUFFICES ASSUME NEW id \in 0 .. headSeq' - 1
               PROVE  id \in Settled'
    BY DEF PastSettled
  <2>1. CASE id < headSeq
    BY <2>1, <1>1 DEF IInv, TypeOK, BufferOK, SendingOK, PastSettled, Settled, MeasureRound, world
  <2>2. CASE id >= headSeq
    <3>1. id - headSeq + 1 \in 1 .. k
      BY <1>1, <2>2 DEF IInv, TypeOK, BufferOK, SendingOK
    <3>2. rounds[id - headSeq + 1].id = id
      BY <3>1 DEF IInv, TypeOK, BufferOK, SendingOK, SeqsMatchRounds
    <3>. QED  BY <1>1, <3>1, <3>2 DEF Settled
  <2>. QED  BY <2>1, <2>2 DEF IInv, TypeOK, BufferOK, SendingOK
<1>9. PeekedRun' /\ SlicesInBatch' /\ BatchHandled'
  <2>1. UNCHANGED <<batch, upto, todo, refused, pc, acked>>
    BY DEF MeasureRound, sending, world
  <2>2. /\ headSeq \in Nat /\ headSeq' \in Nat /\ headSeq <= headSeq'
        /\ measured \in Nat /\ measured' = measured + 1
    BY <1>1 DEF IInv, TypeOK, BufferOK, SendingOK, MeasureRound
  <2>3. upto \in Int /\ Len(batch) \in Nat
    BY DEF IInv, TypeOK, BufferOK, SendingOK
  <2>4. PeekedRun'
    BY <2>1, <2>2, <2>3 DEF IInv, PeekedRun, IsSending
  <2>5. SlicesInBatch' /\ BatchHandled'
    BY <2>1 DEF IInv, SlicesInBatch, BatchHandled, IsSending
  <2>. QED  BY <2>4, <2>5
<1>. QED  BY <1>6, <1>7, <1>8, <1>9 DEF IInv

(* A peek takes a run of rounds from the head, and all of it is to be sent.*)
LEMMA StartSendIInv ==
  ASSUME IInv, NEW n \in Nat, NEW next \in {"send", "finalSend"}, StartSend(n, next)
  PROVE  IInv'
<1>1. /\ n \in 1 .. Len(rounds)
      /\ batch' = SubSeq(rounds, 1, n)
      /\ upto' = headSeq + n - 1
      /\ todo' = <<<<1, n>>>>
      /\ pc' = next
      /\ UNCHANGED <<rounds, headSeq, dropped, rejected, disowned, ctxDone,
                     measureDone, gaveUp, measured, acked, hub, late, outages>>
  BY DEF StartSend, PeekBatch, buffer, world
<1>2. /\ batch' \in Seq(Round)
      /\ Len(batch') = n
      /\ \A i \in 1 .. n : batch'[i] = rounds[i]
  <2>1. \A i \in 1 .. n : rounds[i] \in Round
    BY <1>1 DEF IInv, TypeOK, BufferOK, SendingOK
  <2>. QED  BY <1>1, <2>1, SubSeqProperties
<1>3. TypeOK'
  <2>1. BufferOK' /\ WorldOK'
    BY <1>1 DEF IInv, TypeOK, BufferOK, WorldOK
  <2>2. upto' \in Nat /\ refused' = {}
    BY <1>1 DEF IInv, TypeOK, BufferOK, StartSend
  <2>3. todo' \in Seq(Nat \X Nat)
    BY <1>1
  <2>4. SendingOK'
    BY <1>1, <1>2, <2>2, <2>3 DEF IInv, TypeOK, SendingOK
  <2>5. ControlOK'
    BY <1>1 DEF IInv, TypeOK, ControlOK
  <2>. QED  BY <1>1, <2>1, <2>4, <2>5 DEF IInv, TypeOK
<1>4. SeqsMatchRounds' /\ PastSettled'
  BY <1>1 DEF IInv, SeqsMatchRounds, PastSettled, Settled
<1>5. PeekedRun'
  BY <1>1, <1>2 DEF IInv, TypeOK, BufferOK, SendingOK, SeqsMatchRounds, PeekedRun
<1>6. SlicesInBatch' /\ BatchHandled'
  BY <1>1, <1>2 DEF SlicesInBatch, BatchHandled
<1>. QED  BY <1>3, <1>4, <1>5, <1>6 DEF IInv

(* The slice at the head of todo, and the rest of todo.                    *)
LEMMA HeadSlice ==
  ASSUME IInv, IsSending, todo # <<>>
  PROVE  /\ Head(todo) = todo[1]
         /\ todo[1] \in Nat \X Nat
         /\ todo[1][1] \in 1 .. todo[1][2]
         /\ todo[1][2] \in 1 .. Len(batch)
         /\ Tail(todo) \in Seq(Nat \X Nat)
         /\ Len(Tail(todo)) = Len(todo) - 1
         /\ \A j \in 1 .. Len(todo) - 1 : Tail(todo)[j] = todo[j + 1]
BY HeadTailProperties DEF IInv, TypeOK, BufferOK, SendingOK, SlicesInBatch

(* An answered sub-batch: its rounds join those acknowledged or refused.   *)
LEMMA AnsweredIInv ==
  ASSUME IInv, PushAccepted \/ PushRefused
  PROVE  IInv'
<1> DEFINE w == todo[1]
<1>1. IsSending /\ todo # <<>>
  BY DEF PushAccepted, PushRefused
<1>2. /\ Head(todo) = w /\ w \in Nat \X Nat
      /\ w[1] \in 1 .. w[2] /\ w[2] \in 1 .. Len(batch)
      /\ Tail(todo) \in Seq(Nat \X Nat)
      /\ Len(Tail(todo)) = Len(todo) - 1
      /\ \A j \in 1 .. Len(todo) - 1 : Tail(todo)[j] = todo[j + 1]
  BY <1>1, HeadSlice
<1>3. /\ Ids(Unsent) \subseteq Nat
      /\ \A i \in w[1] .. w[2] : batch[i].id \in Ids(Unsent)
  BY <1>2, SliceProperties DEF Unsent, IInv, TypeOK, BufferOK, SendingOK
<1>4. /\ todo' = Tail(todo)
      /\ acked' \cup refused' = acked \cup refused \cup Ids(Unsent)
      /\ acked \subseteq acked'
      /\ UNCHANGED <<rounds, headSeq, dropped, rejected, batch, upto, pc, ctxDone,
                     measureDone, gaveUp, measured, late, outages>>
  BY DEF PushAccepted, PushRefused, buffer, world
<1>5. TypeOK'
  <2>1. BufferOK' /\ ControlOK'
    BY <1>4 DEF IInv, TypeOK, BufferOK, ControlOK
  <2>2. refused' \subseteq Nat /\ disowned' \subseteq Nat
    BY <1>3 DEF IInv, TypeOK, SendingOK, PushAccepted, PushRefused
  <2>3. SendingOK'
    BY <1>2, <1>4, <2>2 DEF IInv, TypeOK, SendingOK
  <2>4. acked' \subseteq Nat /\ hub' \subseteq Nat
    BY <1>3 DEF IInv, TypeOK, WorldOK, PushAccepted, PushRefused, world
  <2>5. WorldOK'
    BY <1>4, <2>4 DEF IInv, TypeOK, WorldOK
  <2>. QED  BY <1>4, <2>1, <2>3, <2>5 DEF IInv, TypeOK
<1>6. SeqsMatchRounds' /\ PastSettled' /\ PeekedRun'
  BY <1>4 DEF IInv, SeqsMatchRounds, PastSettled, Settled, PeekedRun, IsSending
<1>. Len(todo) \in Nat
  BY DEF IInv, TypeOK, BufferOK, SendingOK
<1>7. SlicesInBatch'
  <2> SUFFICES ASSUME NEW j \in 1 .. Len(todo) - 1
               PROVE  /\ todo[j + 1][1] \in 1 .. todo[j + 1][2]
                      /\ todo[j + 1][2] \in 1 .. Len(batch)
    BY <1>2, <1>4 DEF SlicesInBatch
  <2>1. j + 1 \in 1 .. Len(todo)
    OBVIOUS
  <2>. QED  BY <1>1, <2>1 DEF IInv, SlicesInBatch
<1>8. BatchHandled'
  <2> SUFFICES ASSUME NEW i \in 1 .. Len(batch),
                      ~(batch[i].id \in acked' \cup refused')
               PROVE  \E j \in 1 .. Len(todo') : i \in todo'[j][1] .. todo'[j][2]
    BY <1>4 DEF BatchHandled
  <2>1. PICK j \in 1 .. Len(todo) : i \in todo[j][1] .. todo[j][2]
    BY <1>1, <1>4 DEF IInv, BatchHandled
  <2>2. j # 1
    BY <1>3, <1>4, <2>1
  <2>3. /\ j - 1 \in 1 .. Len(todo) - 1
        /\ todo'[j - 1] = todo[j]
    BY <1>2, <1>4, <2>2 DEF IInv, TypeOK, BufferOK, SendingOK
  <2>. QED  BY <1>2, <1>4, <2>1, <2>3
<1>. QED  BY <1>5, <1>6, <1>7, <1>8 DEF IInv

(* Concatenation, spelled out for the provers.                             *)
LEMMA Concatenation ==
  ASSUME NEW S, NEW s \in Seq(S), NEW t \in Seq(S), Len(s) = 2
  PROVE  /\ s \o t \in Seq(S)
         /\ Len(s \o t) = 2 + Len(t)
         /\ \A j \in 1 .. 2 + Len(t) : (s \o t)[j] = IF j <= 2 THEN s[j] ELSE t[j - 2]
<1>1. /\ s \o t \in Seq(S)
      /\ Len(s \o t) = Len(s) + Len(t)
      /\ \A i \in 1 .. Len(s) + Len(t) :
            (s \o t)[i] = IF i <= Len(s) THEN s[i] ELSE t[i - Len(s)]
  BY ConcatProperties, Zenon
<1>. QED  BY <1>1

(* The two halves of a slice cover it and lie within it.                   *)
LEMMA HalveProperties ==
  ASSUME NEW w \in Nat \X Nat, w[1] \in 1 .. w[2], w[2] - w[1] + 1 > 1
  PROVE  /\ Halve(w) \in Seq(Nat \X Nat)
         /\ Len(Halve(w)) = 2
         /\ \A j \in 1 .. 2 : /\ Halve(w)[j][1] \in w[1] .. Halve(w)[j][2]
                              /\ Halve(w)[j][2] \in w[1] .. w[2]
         /\ \A i \in w[1] .. w[2] : \E j \in 1 .. 2 : i \in Halve(w)[j][1] .. Halve(w)[j][2]
<1> DEFINE mid == (w[2] - w[1] + 1) \div 2
<1>1. mid \in 1 .. w[2] - w[1]
  OBVIOUS
<1> HIDE DEF mid
<1> DEFINE a == <<w[1], w[1] + mid - 1>>
           b == <<w[1] + mid, w[2]>>
<1>2. Halve(w) = <<a, b>>
  BY DEF Halve, mid
<1>3. a \in Nat \X Nat /\ b \in Nat \X Nat
  BY <1>1
<1>4. /\ a[1] \in w[1] .. a[2] /\ a[2] \in w[1] .. w[2]
      /\ b[1] \in w[1] .. b[2] /\ b[2] \in w[1] .. w[2]
  BY <1>1
<1>5. \A i \in w[1] .. w[2] : i \in a[1] .. a[2] \/ i \in b[1] .. b[2]
  BY <1>1
<1> HIDE DEF a, b
<1>. QED  BY <1>2, <1>3, <1>4, <1>5

LEMMA PushSplitIInv ==
  ASSUME IInv, PushSplit
  PROVE  IInv'
<1> DEFINE w == todo[1]
           h == Halve(w)
<1>1. IsSending /\ todo # <<>> /\ Len(Unsent) > 1
  BY DEF PushSplit
<1>2. /\ Head(todo) = w /\ w \in Nat \X Nat
      /\ w[1] \in 1 .. w[2] /\ w[2] \in 1 .. Len(batch)
      /\ Tail(todo) \in Seq(Nat \X Nat)
      /\ Len(Tail(todo)) = Len(todo) - 1
      /\ \A j \in 1 .. Len(todo) - 1 : Tail(todo)[j] = todo[j + 1]
  BY <1>1, HeadSlice
<1>3. w[2] - w[1] + 1 > 1
  BY <1>1, <1>2, SliceProperties DEF Unsent, IInv, TypeOK, BufferOK, SendingOK
<1>4. /\ h \in Seq(Nat \X Nat) /\ Len(h) = 2
      /\ \A j \in 1 .. 2 : h[j][1] \in w[1] .. h[j][2] /\ h[j][2] \in w[1] .. w[2]
      /\ \A i \in w[1] .. w[2] : \E j \in 1 .. 2 : i \in h[j][1] .. h[j][2]
  BY <1>2, <1>3, HalveProperties
<1>5. /\ todo' = h \o Tail(todo)
      /\ UNCHANGED <<rounds, headSeq, dropped, rejected, batch, upto, refused, disowned,
                     pc, ctxDone, measureDone, gaveUp, measured, acked, hub, late, outages>>
  BY <1>2 DEF PushSplit, buffer, world
<1> HIDE DEF h
<1>6. /\ todo' \in Seq(Nat \X Nat)
      /\ Len(todo') = Len(todo) + 1
      /\ \A j \in 1 .. 2 : todo'[j] = h[j]
      /\ \A j \in 2 .. Len(todo) : todo'[j + 1] = todo[j]
  <2>1. /\ h \o Tail(todo) \in Seq(Nat \X Nat)
        /\ Len(h \o Tail(todo)) = 2 + Len(Tail(todo))
        /\ \A j \in 1 .. 2 + Len(Tail(todo)) :
              (h \o Tail(todo))[j] = IF j <= 2 THEN h[j] ELSE Tail(todo)[j - 2]
    <3>1. h \in Seq(Nat \X Nat) /\ Tail(todo) \in Seq(Nat \X Nat) /\ Len(h) = 2
      BY <1>2, <1>4
    <3>. QED  BY <3>1, Concatenation
  <2>2. Len(todo) \in Nat
    BY DEF IInv, TypeOK, BufferOK, SendingOK
  <2>3. /\ todo' \in Seq(Nat \X Nat) /\ Len(todo') = Len(todo) + 1
        /\ \A j \in 1 .. 2 : todo'[j] = h[j]
    BY <1>2, <1>5, <2>1, <2>2
  <2>4. ASSUME NEW j \in 2 .. Len(todo)
        PROVE  todo'[j + 1] = todo[j]
    <3>1. j + 1 \in 1 .. 2 + Len(Tail(todo)) /\ ~(j + 1 <= 2) /\ j - 1 \in 1 .. Len(todo) - 1
      BY <1>2, <2>2
    <3>2. todo'[j + 1] = Tail(todo)[(j + 1) - 2]
      BY <1>5, <2>1, <3>1
    <3>3. Tail(todo)[j - 1] = todo[(j - 1) + 1]
      BY <1>2, <3>1
    <3>. QED  BY <3>2, <3>3
  <2>. QED  BY <2>3, <2>4
<1>7. TypeOK'
  BY <1>5, <1>6 DEF IInv, TypeOK, BufferOK, SendingOK, ControlOK, WorldOK
<1>8. SeqsMatchRounds' /\ PastSettled' /\ PeekedRun'
  BY <1>5 DEF IInv, SeqsMatchRounds, PastSettled, Settled, PeekedRun, IsSending
<1>9. SlicesInBatch'
  <2> SUFFICES ASSUME NEW j \in 1 .. Len(todo')
               PROVE  todo'[j][1] \in 1 .. todo'[j][2] /\ todo'[j][2] \in 1 .. Len(batch)
    BY <1>5 DEF SlicesInBatch
  <2>1. CASE j \in 1 .. 2
    <3>1. todo'[j] = h[j] /\ h[j][1] \in w[1] .. h[j][2] /\ h[j][2] \in w[1] .. w[2]
      BY <1>4, <1>6, <2>1
    <3>2. Len(batch) \in Nat /\ w[1] \in Nat /\ w[2] \in Nat
      BY <1>2 DEF IInv, TypeOK, BufferOK, SendingOK
    <3>. QED  BY <1>2, <3>1, <3>2
  <2>2. CASE j \notin 1 .. 2
    <3>1. Len(todo) \in Nat
      BY DEF IInv, TypeOK, BufferOK, SendingOK
    <3>2. PICK m \in 2 .. Len(todo) : j = m + 1
      <4>1. j \in 1 .. Len(todo) + 1
        BY <1>6
      <4>. QED  BY <2>2, <3>1, <4>1
    <3>3. todo'[j] = todo[m] /\ m \in 1 .. Len(todo)
      BY <1>6, <3>1, <3>2
    <3>. QED  BY <1>1, <3>3 DEF IInv, SlicesInBatch
  <2>. QED  BY <2>1, <2>2
<1>10. BatchHandled'
  <2> SUFFICES ASSUME NEW i \in 1 .. Len(batch),
                      ~(batch[i].id \in acked \cup refused)
               PROVE  \E j \in 1 .. Len(todo') : i \in todo'[j][1] .. todo'[j][2]
    BY <1>5 DEF BatchHandled
  <2>1. PICK j \in 1 .. Len(todo) : i \in todo[j][1] .. todo[j][2]
    BY <1>1 DEF IInv, BatchHandled
  <2>2. CASE j = 1
    <3>1. PICK l \in 1 .. 2 : i \in h[l][1] .. h[l][2]
      BY <1>4, <2>1, <2>2
    <3>2. Len(todo) \in Nat
      BY DEF IInv, TypeOK, BufferOK, SendingOK
    <3>3. l \in 1 .. Len(todo') /\ todo'[l] = h[l]
      <4>1. Len(todo') = Len(todo) + 1 /\ todo'[l] = h[l]
        BY <1>6, <3>1
      <4>. QED  BY <2>1, <3>1, <3>2, <4>1
    <3>. QED  BY <3>1, <3>3
  <2>3. CASE j # 1
    <3>1. Len(todo) \in Nat
      BY DEF IInv, TypeOK, BufferOK, SendingOK
    <3>2. Len(todo') = Len(todo) + 1
      BY <1>6
    <3>3. j \in 2 .. Len(todo)
      BY <2>3, <3>1
    <3>4. j + 1 \in 1 .. Len(todo')
      BY <3>1, <3>2, <3>3
    <3>5. todo'[j + 1] = todo[j]
      BY <1>6, <3>3
    <3>. QED  BY <2>1, <3>4, <3>5
  <2>. QED  BY <2>2, <2>3
<1>. QED  BY <1>7, <1>8, <1>9, <1>10 DEF IInv

(* The commit: every round it removes is one the finished send answered    *)
(* for, because the batch began at or before the head.                     *)
LEMMA FinishSendIInv ==
  ASSUME IInv, FinishSend
  PROVE  IInv'
<1> DEFINE n == upto - headSeq + 1
           remove == IF n <= 0 THEN 0 ELSE IF n > Len(rounds) THEN Len(rounds) ELSE n
<1>1. /\ rounds' = After(rounds, remove)
      /\ headSeq' = headSeq + remove
      /\ UNCHANGED <<dropped, upto, todo, disowned, ctxDone, measureDone, gaveUp,
                     measured, acked, hub, late, outages>>
      /\ rejected' = rejected \cup refused
      /\ batch' = <<>> /\ refused' = {}
      /\ pc' \in {"loop", "final"}
  BY DEF FinishSend, Commit, world
<1>2. remove \in 0 .. Len(rounds) /\ (remove > 0 => headSeq + remove - 1 <= upto)
  BY DEF IInv, TypeOK, BufferOK, SendingOK
<1>3. \A id \in headSeq .. headSeq + remove - 1 : id \in acked \cup refused
  <2> SUFFICES ASSUME NEW id \in headSeq .. headSeq + remove - 1
               PROVE  id \in acked \cup refused
    OBVIOUS
  <2> DEFINE i == id - upto + Len(batch)
  <2>1. IsSending /\ todo = <<>>
    BY DEF FinishSend
  <2>2. i \in 1 .. Len(batch)
    BY <1>2, <2>1 DEF IInv, TypeOK, BufferOK, SendingOK, PeekedRun
  <2>3. batch[i].id = upto - Len(batch) + i
    BY <2>1, <2>2 DEF IInv, PeekedRun
  <2>4. upto - Len(batch) + i = id
    BY DEF IInv, TypeOK, BufferOK, SendingOK
  <2>5. ~ \E j \in 1 .. Len(todo) : i \in todo[j][1] .. todo[j][2]
    BY <2>1
  <2> HIDE DEF i
  <2>. QED  BY <2>1, <2>2, <2>3, <2>4, <2>5 DEF IInv, BatchHandled
<1> HIDE DEF remove, n
<1>4. /\ rounds' \in Seq(Round)
      /\ Len(rounds') = Len(rounds) - remove
      /\ \A i \in 1 .. Len(rounds) - remove : rounds'[i] = rounds[i + remove]
  BY <1>1, <1>2, AfterProperties DEF IInv, TypeOK, BufferOK, SendingOK
<1>. remove \in Nat /\ headSeq \in Nat /\ Len(rounds) \in Nat
  BY <1>2 DEF IInv, TypeOK, BufferOK, SendingOK
<1>5. TypeOK'
  <2>1. Len(rounds') <= Cap
    BY <1>2, <1>4, FlushAssumption DEF IInv, TypeOK, BufferOK, SendingOK
  <2>2. headSeq' \in Nat /\ rejected' \subseteq Nat
    BY <1>1 DEF IInv, TypeOK, BufferOK, SendingOK
  <2>3. batch' \in Seq(Round)
    BY <1>1
  <2>4. BufferOK'
    BY <1>1, <1>4, <2>1, <2>2 DEF IInv, TypeOK, BufferOK
  <2>5. SendingOK'
    BY <1>1, <2>3 DEF IInv, TypeOK, SendingOK
  <2>6. ControlOK' /\ WorldOK'
    BY <1>1 DEF IInv, TypeOK, ControlOK, WorldOK
  <2>. QED  BY <1>1, <2>2, <2>4, <2>5, <2>6 DEF IInv, TypeOK
<1>6. SeqsMatchRounds'
  <2>1. ASSUME NEW i \in 1 .. Len(rounds) - remove
        PROVE  rounds'[i].id = headSeq' + i - 1
    <3>1. i + remove \in DOMAIN rounds
      BY <1>2 DEF IInv, TypeOK, BufferOK, SendingOK
    <3>2. rounds[i + remove].id = headSeq + (i + remove) - 1
      BY <3>1 DEF IInv, SeqsMatchRounds
    <3>. QED  BY <1>1, <1>4, <3>2
  <2>2. DOMAIN rounds' = 1 .. Len(rounds) - remove
    BY <1>4
  <2>. QED  BY <1>1, <1>4, <2>1, <2>2 DEF IInv, SeqsMatchRounds
<1>7. PastSettled'
  BY <1>1, <1>2, <1>3 DEF IInv, TypeOK, BufferOK, SendingOK, PastSettled, Settled
<1>8. PeekedRun' /\ SlicesInBatch' /\ BatchHandled'
  BY <1>1 DEF PeekedRun, SlicesInBatch, BatchHandled, IsSending
<1>. QED  BY <1>5, <1>6, <1>7, <1>8 DEF IInv

(* A transient failure commits and counts nothing.                         *)
LEMMA PushFailsIInv ==
  ASSUME IInv, PushFails
  PROVE  IInv'
<1>1. IsSending /\ todo # <<>>
  BY DEF PushFails
<1>2. Ids(Unsent) \subseteq Nat
  BY <1>1, HeadSlice, SliceProperties DEF Unsent, IInv, TypeOK, BufferOK, SendingOK
<1>3. /\ UNCHANGED <<rounds, headSeq, dropped, rejected, upto, disowned, ctxDone,
                     measureDone, measured, acked, hub>>
      /\ batch' = <<>> /\ todo' = <<>> /\ refused' = {}
  BY DEF PushFails, buffer
<1>4. pc' \in {"backoff", "stopped"} /\ gaveUp' \in BOOLEAN
  BY Zenon DEF PushFails, IInv, TypeOK, ControlOK
<1>5. TypeOK'
  <2>1. BufferOK'
    BY <1>3 DEF IInv, TypeOK, BufferOK
  <2>2. SendingOK'
    <3>1. batch' \in Seq(Round) /\ todo' \in Seq(Nat \X Nat)
      BY <1>3
    <3>. QED  BY <1>3, <3>1 DEF IInv, TypeOK, SendingOK
  <2>3. ControlOK'
    BY <1>3, <1>4 DEF IInv, TypeOK, ControlOK
  <2>4. \A req \in late' : req \subseteq Nat
    BY <1>2 DEF PushFails, IInv, TypeOK, WorldOK
  <2>5. outages' \in Nat
    BY DEF PushFails, IInv, TypeOK, WorldOK
  <2>6. WorldOK'
    BY <1>3, <2>4, <2>5 DEF IInv, TypeOK, WorldOK
  <2>. QED  BY <1>3, <2>1, <2>2, <2>3, <2>6 DEF IInv, TypeOK
<1>6. ~IsSending'
  BY <1>4 DEF IsSending
<1>. QED  BY <1>3, <1>5, <1>6 DEF IInv, SeqsMatchRounds, PastSettled, Settled, PeekedRun,
                                  SlicesInBatch, BatchHandled

(* Steps that move the loop's control, the context or a late request only. *)
LEMMA ControlIInv ==
  ASSUME IInv,
         \/ Cancel \/ MeasureDrained \/ BackoffOver \/ ShutdownBegins
         \/ AwaitMeasureDrain \/ FinalDrained \/ FinalDeadline \/ HubProcessesLate
  PROVE  IInv'
<1>1. /\ UNCHANGED <<buffer, rejected, sending, measured, acked, outages>>
      /\ pc' = pc \/ pc' \in {"loop", "drain", "final", "stopped"}
  BY DEF Cancel, MeasureDrained, BackoffOver, ShutdownBegins, AwaitMeasureDrain,
         FinalDrained, FinalDeadline, HubProcessesLate, world
<1>2. WorldOK'
  <2>1. CASE HubProcessesLate
    BY <1>1, <2>1 DEF IInv, TypeOK, WorldOK, HubProcessesLate
  <2>2. CASE ~HubProcessesLate
    BY <2>2 DEF IInv, TypeOK, WorldOK, Cancel, MeasureDrained, BackoffOver, ShutdownBegins,
                AwaitMeasureDrain, FinalDrained, FinalDeadline, world
  <2>. QED  BY <2>1, <2>2
<1>3. ctxDone' \in BOOLEAN /\ measureDone' \in BOOLEAN /\ gaveUp' \in BOOLEAN
  BY Zenon DEF IInv, TypeOK, ControlOK, Cancel, MeasureDrained, BackoffOver, ShutdownBegins,
         AwaitMeasureDrain, FinalDrained, FinalDeadline, HubProcessesLate
<1>4. BufferOK' /\ SendingOK'
  BY <1>1 DEF IInv, TypeOK, BufferOK, SendingOK, buffer, sending
<1>5. ControlOK'
  BY <1>1, <1>3 DEF IInv, TypeOK, ControlOK
<1>6. TypeOK'
  BY <1>1, <1>2, <1>4, <1>5 DEF IInv, TypeOK
<1>. QED  BY <1>1, <1>6 DEF IInv, buffer, sending, SeqsMatchRounds, PastSettled, Settled,
                            PeekedRun, SlicesInBatch, BatchHandled, IsSending

LEMMA StutterIInv == ASSUME IInv, UNCHANGED vars PROVE IInv'
<1>1. TypeOK'
  BY DEF IInv, vars, buffer, sending, world, TypeOK, BufferOK, SendingOK, ControlOK, WorldOK
<1>. QED  BY <1>1 DEF IInv, vars, buffer, sending, world, SeqsMatchRounds, PastSettled,
                      Settled, PeekedRun, SlicesInBatch, BatchHandled, IsSending

-----------------------------------------------------------------------------
(* The inductive invariant holds in every reachable state.                 *)
THEOREM Invariance == Spec => []IInv
<1>1. Init => IInv
  BY InitIInv
<1>2. IInv /\ [Next]_vars => IInv'
  <2> SUFFICES ASSUME IInv, [Next]_vars PROVE IInv'
    OBVIOUS
  <2>1. ASSUME NEW shape \in Shapes, MeasureRound(shape) PROVE IInv'
    BY <2>1, MeasureRoundIInv
  <2>2. ASSUME NEW n \in 1 .. MaxRounds, FlushPeek(n) \/ FinalPeek(n) PROVE IInv'
    <3>1. n \in Nat
      OBVIOUS
    <3>2. StartSend(n, "send") \/ StartSend(n, "finalSend")
      BY <2>2 DEF FlushPeek, FinalPeek
    <3>. QED  BY <3>1, <3>2, StartSendIInv
  <2>3. CASE PushAccepted \/ PushRefused
    BY <2>3, AnsweredIInv
  <2>4. CASE PushSplit
    BY <2>4, PushSplitIInv
  <2>5. CASE PushFails
    BY <2>5, PushFailsIInv
  <2>6. CASE FinishSend
    BY <2>6, FinishSendIInv
  <2>7. CASE \/ Cancel \/ MeasureDrained \/ BackoffOver \/ ShutdownBegins
             \/ AwaitMeasureDrain \/ FinalDrained \/ FinalDeadline \/ HubProcessesLate
    BY <2>7, ControlIInv
  <2>8. CASE UNCHANGED vars
    BY <2>8, StutterIInv
  <2>. QED  BY <2>1, <2>2, <2>3, <2>4, <2>5, <2>6, <2>7, <2>8 DEF Next, FlushLoop
<1>. QED  BY <1>1, <1>2, PTL DEF Spec

(* Type correctness, including the buffer's capacity in rounds.            *)
THEOREM TypeCorrect == Spec => []TypeOK
<1>1. IInv => TypeOK
  BY DEF IInv
<1>. QED  BY <1>1, Invariance, PTL

(* The sequence numbers commit computes with are the rounds' own.          *)
THEOREM SequenceNumbersAgree == Spec => []SeqsMatchRounds
<1>1. IInv => SeqsMatchRounds
  BY DEF IInv
<1>. QED  BY <1>1, Invariance, PTL

(* No round is lost without an account, whatever the interleaving of adds, *)
(* evictions, splits, failures and commits.                                *)
THEOREM NothingLostSilently == Spec => []NoSilentLoss
<1>1. IInv => NoSilentLoss
  <2> SUFFICES ASSUME IInv, NEW id \in 0 .. measured - 1
               PROVE  id \in Ids(rounds) \cup Settled
    BY DEF NoSilentLoss, Settled
  <2>1. CASE id < headSeq
    BY <2>1 DEF IInv, TypeOK, BufferOK, SendingOK, PastSettled
  <2>2. CASE id >= headSeq
    <3>1. id - headSeq + 1 \in DOMAIN rounds
      BY <2>2 DEF IInv, TypeOK, BufferOK, SendingOK, SeqsMatchRounds
    <3>2. rounds[id - headSeq + 1].id = id
      BY <3>1 DEF IInv, TypeOK, BufferOK, SendingOK, SeqsMatchRounds
    <3>. QED  BY <3>1, <3>2 DEF Ids
  <2>. QED  BY <2>1, <2>2 DEF IInv, TypeOK, BufferOK, SendingOK
<1>. QED  BY <1>1, Invariance, PTL
-----------------------------------------------------------------------------
(***************************************************************************)
(* AgentFlush implements StoreForward, for all its constants: every step   *)
(* of the agent, its buffer and the hub is a step of the promise, or       *)
(* changes nothing that the promise speaks of.  Beyond the invariant above *)
(* this needs to know where the sets of rounds lie.                        *)
(***************************************************************************)
Measured == 0 .. measured - 1
Gone == 0 .. headSeq - 1     \* the rounds that have left the buffer

Account ==
  /\ acked \subseteq hub /\ hub \subseteq Measured
  /\ \A req \in late : req \subseteq Measured
  /\ dropped \subseteq Gone /\ rejected \subseteq Gone
  /\ IsSending => refused \subseteq 0 .. upto

-----------------------------------------------------------------------------
LEMMA IdsOfSlice ==
  ASSUME NEW s \in Seq(Round), NEW w \in Nat \X Nat,
         w[1] \in 1 .. w[2], w[2] \in 1 .. Len(s), NEW id \in Ids(Slice(s, w))
  PROVE  \E i \in 1 .. Len(s) : i \in w[1] .. w[2] /\ s[i].id = id
<1>1. \A i \in w[1] .. w[2] : s[i] \in Round
  OBVIOUS
<1>2. /\ Len(SubSeq(s, w[1], w[2])) = w[2] - w[1] + 1
      /\ \A i \in 1 .. w[2] - w[1] + 1 : SubSeq(s, w[1], w[2])[i] = s[w[1] + i - 1]
      /\ SubSeq(s, w[1], w[2]) \in Seq(Round)
  BY <1>1, SubSeqProperties
<1>3. PICK i \in 1 .. w[2] - w[1] + 1 : SubSeq(s, w[1], w[2])[i].id = id
  BY <1>2 DEF Ids, Slice
<1>4. w[1] + i - 1 \in w[1] .. w[2] /\ w[1] + i - 1 \in 1 .. Len(s) /\ s[w[1] + i - 1].id = id
  BY <1>2, <1>3
<1>. QED  BY <1>4

(* What is pushed is of the peeked run.                                    *)
LEMMA UnsentIsPeeked ==
  ASSUME IInv, IsSending, todo # <<>>
  PROVE  Ids(Unsent) \subseteq 0 .. upto /\ upto < measured
<1>1. /\ Unsent = Slice(batch, todo[1]) /\ todo[1] \in Nat \X Nat
      /\ todo[1][1] \in 1 .. todo[1][2] /\ todo[1][2] \in 1 .. Len(batch)
  BY HeadSlice DEF Unsent
<1>2. ASSUME NEW id \in Ids(Unsent) PROVE id \in 0 .. upto
  <2>1. batch \in Seq(Round)
    BY DEF IInv, TypeOK, SendingOK
  <2>2. PICK i \in 1 .. Len(batch) : batch[i].id = id
    BY <1>1, <1>2, <2>1, IdsOfSlice
  <2>3. id = upto - Len(batch) + i /\ upto - Len(batch) + 1 \in 0 .. headSeq
    BY <2>2 DEF IInv, PeekedRun
  <2>4. upto \in Int /\ Len(batch) \in Nat /\ headSeq \in Nat
    BY DEF IInv, TypeOK, SendingOK, BufferOK
  <2>. QED  BY <2>3, <2>4
<1>3. upto < measured
  BY DEF IInv, PeekedRun
<1>. QED  BY <1>2, <1>3

(* How far a commit moves the head.                                        *)
LEMMA CommitMoves ==
  ASSUME IInv, FinishSend
  PROVE  headSeq' \in Nat /\ headSeq <= headSeq' /\ upto < headSeq'
<1>1. /\ headSeq \in Nat /\ upto \in Int /\ Len(rounds) \in Nat
      /\ headSeq + Len(rounds) = measured /\ upto < measured
  BY DEF FinishSend, IInv, TypeOK, BufferOK, SendingOK, SeqsMatchRounds, PeekedRun
<1>. QED  BY <1>1 DEF FinishSend, Commit

LEMMA Heads == IInv => headSeq \in Nat /\ measured \in Nat /\ headSeq <= measured
<1>1. IInv => /\ headSeq \in Nat /\ measured \in Nat /\ Len(rounds) \in Nat
              /\ headSeq + Len(rounds) = measured
  BY DEF IInv, TypeOK, BufferOK, SeqsMatchRounds
<1>. QED  BY <1>1

-----------------------------------------------------------------------------
LEMMA InitAccount == Init => Account
BY DEF Init, Account, IsSending

(* What leaves the sets alone leaves the account.                          *)
LEMMA AccountStays ==
  ASSUME Account, UNCHANGED <<acked, hub, measured, headSeq, dropped, rejected>>,
         late' \subseteq late,
         IsSending' => refused' \subseteq 0 .. upto'
  PROVE  Account'
BY DEF Account, Measured, Gone

LEMMA MeasureAccount ==
  ASSUME IInv, Account, NEW shape \in Shapes, MeasureRound(shape)
  PROVE  /\ Account' /\ measured < MaxRounds /\ measured' = measured + 1
         /\ UNCHANGED <<hub, rejected>>
         /\ \E k \in Nat : /\ headSeq' = headSeq + k /\ headSeq + k <= measured
                           /\ dropped' = dropped \cup headSeq .. headSeq + k - 1
<1>1. PICK k \in 0 .. Len(rounds) :
        /\ headSeq' = headSeq + k
        /\ dropped' = dropped \cup {rounds[i].id : i \in 1 .. k}
  BY DEF MeasureRound, Add
<1>2. /\ headSeq \in Nat /\ measured \in Nat /\ Len(rounds) \in Nat
      /\ headSeq + Len(rounds) = measured
      /\ \A i \in 1 .. Len(rounds) : rounds[i].id = headSeq + i - 1
  BY DEF IInv, TypeOK, BufferOK, SeqsMatchRounds
<1>3. {rounds[i].id : i \in 1 .. k} = headSeq .. headSeq + k - 1
  <2>1. ASSUME NEW id \in headSeq .. headSeq + k - 1
        PROVE  \E i \in 1 .. k : rounds[i].id = id
    <3>1. id - headSeq + 1 \in 1 .. k /\ rounds[id - headSeq + 1].id = id
      BY <1>2
    <3>. QED  BY <3>1
  <2>2. ASSUME NEW i \in 1 .. k PROVE rounds[i].id \in headSeq .. headSeq + k - 1
    BY <1>2
  <2>. QED  BY <2>1, <2>2
<1>4. /\ measured' = measured + 1 /\ measured < MaxRounds
      /\ UNCHANGED <<acked, hub, late, rejected, refused, upto, pc>>
  BY DEF MeasureRound, sending, world
<1>5. Account'
  <2>1. dropped' \subseteq Gone' /\ rejected' \subseteq Gone'
    <3>1. headSeq' = headSeq + k /\ k \in Nat
      BY <1>1
    <3>2. Gone \subseteq Gone' /\ headSeq .. headSeq + k - 1 \subseteq Gone'
      BY <1>2, <3>1 DEF Gone
    <3>3. dropped' = dropped \cup headSeq .. headSeq + k - 1
      BY <1>1, <1>3
    <3>. QED  BY <1>4, <3>2, <3>3 DEF Account
  <2>2. Measured \subseteq Measured'
    BY <1>2, <1>4 DEF Measured
  <2>3. /\ acked' \subseteq hub' /\ hub' \subseteq Measured'
        /\ \A req \in late' : req \subseteq Measured'
        /\ IsSending' => refused' \subseteq 0 .. upto'
    BY <1>4, <2>2 DEF Account, IsSending
  <2>. QED  BY <2>1, <2>3 DEF Account
<1>. QED  BY <1>1, <1>2, <1>3, <1>4, <1>5

LEMMA SendAccount ==
  ASSUME IInv, Account,
         \/ \E n \in 1 .. MaxRounds : FlushPeek(n) \/ FinalPeek(n)
         \/ PushAccepted \/ PushSplit \/ PushRefused \/ PushFails
  PROVE  Account'
<1>1. CASE \E n \in 1 .. MaxRounds : FlushPeek(n) \/ FinalPeek(n)
  <2>1. UNCHANGED <<acked, hub, late, measured, headSeq, dropped, rejected>> /\ refused' = {}
    BY <1>1 DEF FlushPeek, FinalPeek, StartSend, buffer, world
  <2>. QED  BY <2>1, AccountStays
<1>2. CASE PushAccepted
  <2>1. Ids(Unsent) \subseteq 0 .. upto /\ upto < measured
    BY <1>2, UnsentIsPeeked DEF PushAccepted
  <2>2. /\ hub' = hub \cup Ids(Unsent) /\ acked' = acked \cup Ids(Unsent)
        /\ UNCHANGED <<late, measured, headSeq, dropped, rejected, refused, upto, pc>>
    BY <1>2 DEF PushAccepted, buffer
  <2>3. upto \in Int /\ measured \in Nat
    BY DEF IInv, TypeOK, SendingOK
  <2>4. Ids(Unsent) \subseteq Measured
    BY <2>1, <2>3 DEF Measured
  <2>5. acked' \subseteq hub' /\ hub' \subseteq Measured'
    BY <2>2, <2>4 DEF Account, Measured
  <2>. QED  BY <2>2, <2>5 DEF Account, Measured, Gone, IsSending
<1>3. CASE PushSplit
  <2>1. UNCHANGED <<acked, hub, late, measured, headSeq, dropped, rejected, refused, upto, pc>>
    BY <1>3 DEF PushSplit, buffer, world
  <2>. QED  BY <2>1, AccountStays DEF Account, IsSending
<1>4. CASE PushRefused
  <2>1. Ids(Unsent) \subseteq 0 .. upto
    BY <1>4, UnsentIsPeeked DEF PushRefused
  <2>2. /\ refused' = refused \cup Ids(Unsent)
        /\ UNCHANGED <<acked, hub, late, measured, headSeq, dropped, rejected, upto, pc>>
    BY <1>4 DEF PushRefused, buffer, world
  <2>. QED  BY <2>1, <2>2, AccountStays DEF Account, IsSending
<1>5. CASE PushFails
  <2>1. Ids(Unsent) \subseteq 0 .. upto /\ upto < measured
    BY <1>5, UnsentIsPeeked DEF PushFails
  <2>2. /\ late' \subseteq late \cup {Ids(Unsent)}
        /\ UNCHANGED <<acked, hub, measured, headSeq, dropped, rejected>>
        /\ pc' \in {"backoff", "stopped"}
    BY <1>5 DEF PushFails, buffer
  <2>3. upto \in Int /\ measured \in Nat
    BY DEF IInv, TypeOK, SendingOK
  <2>4. Ids(Unsent) \subseteq Measured
    BY <2>1, <2>3 DEF Measured
  <2>. QED  BY <2>2, <2>4 DEF Account, Measured, Gone, IsSending
<1>. QED  BY <1>1, <1>2, <1>3, <1>4, <1>5

LEMMA FinishAccount ==
  ASSUME IInv, Account, FinishSend
  PROVE  Account'
<1>1. /\ UNCHANGED <<acked, hub, late, measured, dropped>> /\ rejected' = rejected \cup refused
      /\ pc' \in {"loop", "final"} /\ refused \subseteq 0 .. upto
  BY DEF FinishSend, Commit, world, Account
<1>2. headSeq \in Nat /\ upto \in Int
  BY DEF IInv, TypeOK, BufferOK, SendingOK
<1>. QED  BY <1>1, <1>2, CommitMoves DEF Account, Measured, Gone, IsSending

LEMMA ControlAccount ==
  ASSUME IInv, Account,
         \/ Cancel \/ MeasureDrained \/ BackoffOver \/ ShutdownBegins \/ AwaitMeasureDrain
         \/ FinalDrained \/ FinalDeadline \/ HubProcessesLate \/ UNCHANGED vars
  PROVE  Account'
<1>1. CASE HubProcessesLate
  BY <1>1 DEF HubProcessesLate, Account, Measured, Gone, IsSending, buffer, sending
<1>2. CASE ~HubProcessesLate
  <2>1. /\ UNCHANGED <<acked, hub, late, measured, headSeq, dropped, rejected, refused, upto>>
        /\ pc' = pc \/ pc' \in {"loop", "drain", "final", "stopped"}
    BY <1>2 DEF Cancel, MeasureDrained, BackoffOver, ShutdownBegins, AwaitMeasureDrain,
                FinalDrained, FinalDeadline, vars, buffer, sending, world
  <2>. QED  BY <2>1, AccountStays DEF Account, IsSending
<1>. QED  BY <1>1, <1>2

LEMMA AccountInvariant == Spec => []Account
<1>1. IInv /\ Account /\ [Next]_vars => Account'
  BY MeasureAccount, SendAccount, FinishAccount, ControlAccount DEF Next, FlushLoop
<1>. QED  BY <1>1, InitAccount, Invariance, PTL DEF Spec

-----------------------------------------------------------------------------
(* The refinement mapping: a round's fate by the four sets alone.          *)
Fate(id) ==
  IF id >= measured THEN "unmeasured"
  ELSE IF id \in hub THEN "stored"
  ELSE IF id \in dropped THEN "dropped"
  ELSE IF id \in rejected THEN "rejected"
  ELSE "held"

LEMMA FateKnown ==
  ASSUME IInv, Account, NEW id \in 0 .. MaxRounds - 1
  PROVE  FateOf(id) = Fate(id) /\ (Fate(id) = "held" => id >= headSeq)
<1>1. headSeq \in Nat /\ measured \in Nat
  BY Heads
<1>2. ASSUME id < headSeq PROVE id \in hub \cup dropped \cup rejected
  BY <1>1, <1>2 DEF IInv, PastSettled, Settled, Account
<1>3. ASSUME id >= headSeq, id < measured PROVE id \in Ids(rounds)
  <2>1. id - headSeq + 1 \in DOMAIN rounds
    BY <1>1, <1>3 DEF IInv, TypeOK, BufferOK, SeqsMatchRounds
  <2>2. rounds[id - headSeq + 1].id = id
    BY <1>1, <2>1 DEF IInv, SeqsMatchRounds
  <2>. QED  BY <2>1, <2>2 DEF Ids
<1>. QED  BY <1>1, <1>2, <1>3 DEF FateOf, Fate

Status == [id \in 0 .. MaxRounds - 1 |-> FateOf(id)]

StatusKnown == Status = [id \in 0 .. MaxRounds - 1 |-> Fate(id)]

LEMMA AlwaysKnown == IInv /\ Account => StatusKnown
BY FateKnown DEF Status, StatusKnown

LEMMA MapsInit == Init => Promise!Init
<1>. SUFFICES ASSUME Init PROVE Promise!Init
  OBVIOUS
<1>1. measured = 0
  BY DEF Init
<1>2. \A id \in 0 .. MaxRounds - 1 : FateOf(id) = "unmeasured"
  BY <1>1 DEF FateOf
<1>. QED  BY <1>1, <1>2 DEF Promise!Init, Promise!Rounds

(* A measured round is held, and makes the oldest give way.                *)
LEMMA MapsMeasure ==
  ASSUME IInv, Account, StatusKnown, StatusKnown', NEW shape \in Shapes, MeasureRound(shape)
  PROVE  Promise!Next
<1>1. PICK k \in Nat : /\ headSeq' = headSeq + k /\ headSeq + k <= measured
                       /\ dropped' = dropped \cup headSeq .. headSeq + k - 1
  BY MeasureAccount
<1>2. /\ Account' /\ measured < MaxRounds /\ measured' = measured + 1
      /\ hub' = hub /\ rejected' = rejected
  BY MeasureAccount
<1>3. headSeq \in Nat /\ measured \in Nat /\ headSeq <= measured /\ MaxRounds \in Nat
  BY Heads, FlushAssumption
<1>4. PICK S : S = {id \in headSeq .. headSeq + k - 1 : id \notin hub}
  OBVIOUS
<1>5. /\ \A id \in 0 .. MaxRounds - 1 : Status[id] = Fate(id)
      /\ Status' = [id \in 0 .. MaxRounds - 1 |-> Fate(id)']
  BY DEF StatusKnown
<1>6. ASSUME NEW id \in 0 .. MaxRounds - 1
      PROVE  Fate(id)' = IF id = measured THEN "held" ELSE IF id \in S THEN "dropped" ELSE Fate(id)
  <2>1. CASE id = measured
    <3>1. id \notin hub /\ id \notin rejected /\ id \notin dropped'
      BY <1>1, <1>3, <2>1 DEF Account, Measured, Gone
    <3>. QED  BY <1>2, <1>3, <2>1, <3>1 DEF Fate
  <2>2. CASE id > measured
    BY <1>1, <1>2, <1>3, <1>4, <2>2 DEF Fate
  <2>3. CASE id < measured /\ id \in S
    BY <1>1, <1>2, <1>3, <1>4, <2>3 DEF Fate
  <2>4. CASE id < measured /\ id \notin S
    BY <1>1, <1>2, <1>3, <1>4, <2>4 DEF Fate
  <2>. QED  BY <1>3, <2>1, <2>2, <2>3, <2>4
<1>7. S \subseteq 0 .. MaxRounds - 1 /\ \A id \in S : Fate(id) = "held"
  BY <1>1, <1>2, <1>3, <1>4 DEF Fate, Account, Gone
<1>8. \A id \in S, q \in 0 .. MaxRounds - 1 : Fate(q) = "held" /\ q < id => q \in S
  <2>. SUFFICES ASSUME NEW id \in S, NEW q \in 0 .. MaxRounds - 1, Fate(q) = "held", q < id
                PROVE  q \in S
    OBVIOUS
  <2>1. q >= headSeq /\ q \notin hub
    BY FateKnown DEF Fate
  <2>. QED  BY <1>1, <1>3, <1>4, <2>1
<1>9. measured \in 0 .. MaxRounds - 1
  BY <1>2, <1>3
<1>10. Status' = [[id \in 0 .. MaxRounds - 1 |-> IF id \in S THEN "dropped" ELSE Status[id]]
                    EXCEPT ![measured] = "held"]
  BY <1>5, <1>6, <1>9
<1>11. S \in SUBSET Promise!Held
  BY <1>5, <1>7 DEF Promise!Held, Promise!Rounds, Status
<1>12. Promise!Measure(S)
  BY <1>2, <1>5, <1>8, <1>9, <1>10 DEF Promise!Measure, Promise!Held, Promise!Rounds, Promise!Mark, Status
<1>. QED  BY <1>11, <1>12 DEF Promise!Next

(* What the hub processes is stored.                                       *)
LEMMA MapsStore ==
  ASSUME StatusKnown, StatusKnown', UNCHANGED <<measured, dropped, rejected>>,
         NEW S, S \subseteq 0 .. measured - 1, hub' = hub \cup S,
         measured \in Nat, measured <= MaxRounds
  PROVE  Promise!Next
<1>1. PICK T : T = S \ hub
  OBVIOUS
<1>2. MaxRounds \in Nat
  BY FlushAssumption
<1>3. ASSUME NEW id \in T
      PROVE  id \in 0 .. MaxRounds - 1 /\ Fate(id) \notin {"unmeasured", "stored"}
  <2>1. id \in 0 .. measured - 1 /\ id \notin hub
    BY <1>1
  <2>2. id \in 0 .. MaxRounds - 1 /\ ~(id >= measured)
    BY <1>2, <2>1
  <2>3. Fate(id) \in {"dropped", "rejected", "held"}
    BY <2>1, <2>2 DEF Fate
  <2>. QED  BY <2>2, <2>3
<1>4. \A id \in 0 .. MaxRounds - 1 : Fate(id)' = IF id \in T THEN "stored" ELSE Fate(id)
  BY <1>1, <1>2 DEF Fate
<1>5. Promise!Store(T)
  BY <1>3, <1>4 DEF StatusKnown, Status, Promise!Store, Promise!Rounds, Promise!Mark
<1>. QED  BY <1>3, <1>5 DEF Promise!Next, Promise!Rounds

(* A finished batch leaves as rejected what the hub had refused of it.     *)
LEMMA MapsFinish ==
  ASSUME IInv, Account, IInv', Account', StatusKnown, StatusKnown', FinishSend
  PROVE  Promise!Next
<1>1. /\ UNCHANGED <<measured, hub, dropped>> /\ rejected' = rejected \cup refused
      /\ refused \subseteq 0 .. upto /\ upto < measured /\ upto \in Int
  BY DEF FinishSend, Commit, world, Account, IInv, PeekedRun, TypeOK, SendingOK
<1>2. measured \in Nat /\ MaxRounds \in Nat
  BY FlushAssumption, Heads
<1>3. PICK S : S = {id \in refused \cap 0 .. MaxRounds - 1 : Fate(id) = "held"}
  OBVIOUS
<1>4. \A id \in 0 .. MaxRounds - 1 : Fate(id)' = IF id \in S THEN "rejected" ELSE Fate(id)
  BY <1>1, <1>2, <1>3 DEF Fate
<1>5. S \in SUBSET Promise!Held
  BY <1>3 DEF StatusKnown, Status, Promise!Held, Promise!Rounds
<1>6. Promise!Reject(S)
  BY <1>1, <1>4 DEF StatusKnown, Status, Promise!Reject, Promise!Rounds, Promise!Mark
<1>. QED  BY <1>5, <1>6 DEF Promise!Next

LEMMA MapsStutter ==
  ASSUME StatusKnown, StatusKnown', UNCHANGED <<measured, hub, dropped, rejected>>
  PROVE  UNCHANGED <<measured, Status>>
<1>1. \A id \in 0 .. MaxRounds - 1 : Fate(id)' = Fate(id)
  BY DEF Fate
<1>. QED  BY <1>1 DEF StatusKnown

LEMMA MapsNext ==
  ASSUME IInv, Account, IInv', Account', StatusKnown, StatusKnown', measured <= MaxRounds,
         [Next]_vars
  PROVE  Promise!Next \/ UNCHANGED <<measured, Status>>
<1>1. ASSUME NEW shape \in Shapes, MeasureRound(shape) PROVE Promise!Next
  BY <1>1, MapsMeasure
<1>2. CASE PushAccepted
  <2>1. /\ UNCHANGED <<measured, dropped, rejected>> /\ hub' = hub \cup Ids(Unsent)
        /\ Ids(Unsent) \subseteq 0 .. upto /\ upto < measured /\ upto \in Int /\ measured \in Nat
    BY <1>2, UnsentIsPeeked, Heads DEF PushAccepted, buffer, IInv, TypeOK, SendingOK
  <2>2. Ids(Unsent) \subseteq 0 .. measured - 1
    BY <2>1
  <2>. QED  BY <2>1, <2>2, MapsStore
<1>3. CASE HubProcessesLate
  <2>1. PICK req \in late : hub' = hub \cup req
    BY <1>3 DEF HubProcessesLate
  <2>2. UNCHANGED <<measured, dropped, rejected>> /\ req \subseteq 0 .. measured - 1
    BY <1>3 DEF HubProcessesLate, buffer, Account, Measured
  <2>. QED  BY <2>1, <2>2, MapsStore, Heads
<1>4. CASE FinishSend
  BY <1>4, MapsFinish
<1>5. CASE \/ Cancel \/ MeasureDrained \/ BackoffOver \/ ShutdownBegins \/ AwaitMeasureDrain
           \/ FinalDrained \/ FinalDeadline \/ UNCHANGED vars
           \/ \E n \in 1 .. MaxRounds : FlushPeek(n) \/ FinalPeek(n)
           \/ PushSplit \/ PushRefused \/ PushFails
  <2>1. UNCHANGED <<measured, hub, dropped, rejected>>
    BY <1>5 DEF Cancel, MeasureDrained, BackoffOver, ShutdownBegins, AwaitMeasureDrain,
                FinalDrained, FinalDeadline, FlushPeek, FinalPeek, StartSend, PushSplit,
                PushRefused, PushFails, vars, buffer, world
  <2>. QED  BY <2>1, MapsStutter
<1>. QED  BY <1>1, <1>2, <1>3, <1>4, <1>5 DEF Next, FlushLoop

WithinBound == measured <= MaxRounds

LEMMA NeverBeyond == Spec => []WithinBound
<1>1. Init => WithinBound
  BY FlushAssumption DEF Init, WithinBound
<1>2. IInv /\ WithinBound /\ [Next]_vars => WithinBound'
  <2>. SUFFICES ASSUME IInv, WithinBound, [Next]_vars PROVE WithinBound'
    OBVIOUS
  <2>1. measured' = measured \/ (measured < MaxRounds /\ measured' = measured + 1)
    BY DEF Next, FlushLoop, MeasureRound, Cancel, MeasureDrained, BackoffOver, ShutdownBegins,
           AwaitMeasureDrain, FinalDrained, FinalDeadline, FlushPeek, FinalPeek, StartSend,
           PushAccepted, PushSplit, PushRefused, PushFails, FinishSend, HubProcessesLate, vars
  <2>. QED  BY <2>1, FlushAssumption DEF IInv, TypeOK, WithinBound
<1>. QED  BY <1>1, <1>2, Invariance, PTL DEF Spec

(* The agent's path, with its buffer, splits, retries, late requests and   *)
(* shutdown, keeps the promise: each round is held until it is stored, or  *)
(* openly dropped (the oldest first) or rejected, and storage is final.    *)
THEOREM ImplementsPromise == Spec => KeepsPromise
<1>1. IInv /\ Account => StatusKnown
  BY AlwaysKnown
<1>2. /\ IInv /\ Account /\ StatusKnown /\ WithinBound /\ [Next]_vars
      /\ IInv' /\ Account' /\ StatusKnown'
      => [Promise!Next]_<<measured, Status>>
  BY MapsNext DEF WithinBound
<1>3. Spec => Promise!Init /\ [][Promise!Next]_<<measured, Status>>
  BY <1>1, <1>2, MapsInit, Invariance, AccountInvariant, NeverBeyond, PTL DEF Spec
<1>. QED  BY <1>3, PTL DEF KeepsPromise, Promise!Spec, Status

-----------------------------------------------------------------------------
(* Order: whatever the hub has, or may still get from a late request, is   *)
(* preceded by all earlier rounds that the agent has not given up.         *)
NoneSkipped(S) ==
  \A later \in S, id \in Nat : id < later => id \in S \cup hub \cup dropped \cup disowned

SlicesInOrder ==
  IsSending => \A j, k \in 1 .. Len(todo) : j < k => todo[j][2] < todo[k][1]

Order ==
  /\ SlicesInOrder
  /\ rejected \subseteq disowned /\ (IsSending => refused \subseteq disowned)
  /\ NoneSkipped(hub) /\ \A req \in late : NoneSkipped(req)

LEMMA InitOrder == Init => Order
BY DEF Init, Order, SlicesInOrder, NoneSkipped, IsSending

(* What precedes the slice that is pushed next.                            *)
LEMMA UnsentSkipsNone ==
  ASSUME IInv, Account, Order, IsSending, todo # <<>>
  PROVE  NoneSkipped(Ids(Unsent))
<1>. SUFFICES ASSUME NEW later \in Ids(Unsent), NEW id \in Nat, id < later
              PROVE  id \in Ids(Unsent) \cup hub \cup dropped \cup disowned
  BY DEF NoneSkipped
<1>1. PICK w : w = todo[1]
  OBVIOUS
<1>2. /\ Unsent = Slice(batch, w) /\ w \in Nat \X Nat
      /\ w[1] \in 1 .. w[2] /\ w[2] \in 1 .. Len(batch)
  BY <1>1, HeadSlice DEF Unsent
<1>3. /\ batch \in Seq(Round) /\ upto \in Int /\ Len(batch) \in Nat /\ headSeq \in Nat
      /\ Len(todo) \in Nat /\ upto - Len(batch) + 1 \in 0 .. headSeq
      /\ \A i \in 1 .. Len(batch) : batch[i].id = upto - Len(batch) + i
  BY DEF IInv, TypeOK, SendingOK, BufferOK, PeekedRun
<1>4. PICK l \in 1 .. Len(batch) : l \in w[1] .. w[2] /\ batch[l].id = later
  BY <1>2, <1>3, IdsOfSlice
<1>5. CASE id < upto - Len(batch) + 1
  <2>1. id \in 0 .. headSeq - 1
    BY <1>3, <1>5
  <2>. QED  BY <2>1 DEF IInv, PastSettled, Settled, Account, Order
<1>6. CASE id >= upto - Len(batch) + 1
  <2>1. id - upto + Len(batch) \in Int
    BY <1>3
  <2>9. PICK i \in Int : i = id - upto + Len(batch)
    BY <2>1
  <2>2. i \in 1 .. Len(batch) /\ i < l /\ batch[i].id = id
    <3>1. later = upto - Len(batch) + l
      BY <1>3, <1>4
    <3>2. i < l /\ 1 <= i
      BY <1>3, <1>6, <2>9, <3>1
    <3>3. i \in 1 .. Len(batch)
      BY <1>3, <3>2
    <3>4. batch[i].id = upto - Len(batch) + i
      BY <1>3, <3>3
    <3>. QED  BY <1>3, <2>9, <3>2, <3>3, <3>4
  <2>3. CASE i >= w[1]
    <3>1. i \in w[1] .. w[2]
      BY <1>2, <1>4, <2>2, <2>3
    <3>. QED  BY <1>2, <1>3, <2>2, <3>1, SliceProperties
  <2>4. CASE i < w[1]
    <3>1. ASSUME NEW j \in 1 .. Len(todo) PROVE i \notin todo[j][1] .. todo[j][2]
      <4>1. todo[j][1] \in 1 .. todo[j][2] /\ todo[j][2] \in 1 .. Len(batch)
        BY DEF IInv, SlicesInBatch
      <4>2. j = 1 \/ (1 < j /\ 1 \in 1 .. Len(todo))
        BY <1>3
      <4>3. j = 1 \/ w[2] < todo[j][1]
        BY <1>1, <4>2 DEF Order, SlicesInOrder
      <4>. QED  BY <1>1, <1>2, <1>3, <2>2, <2>4, <4>1, <4>3
    <3>2. id \in acked \cup refused
      BY <2>2, <3>1 DEF IInv, BatchHandled
    <3>. QED  BY <3>2 DEF Account, Order
  <2>. QED  BY <1>2, <2>2, <2>3, <2>4
<1>. QED  BY <1>3, <1>5, <1>6

(* Rounds only join the hub and those given up.                            *)
LEMMA SkippedStays ==
  ASSUME hub \subseteq hub', dropped \subseteq dropped', disowned \subseteq disowned',
         NEW S, NoneSkipped(S)
  PROVE  NoneSkipped(S)'
BY DEF NoneSkipped

LEMMA HubGrows ==
  ASSUME NoneSkipped(hub), NEW S, NoneSkipped(S), hub' = hub \cup S,
         UNCHANGED <<dropped, disowned>>
  PROVE  NoneSkipped(hub)'
BY DEF NoneSkipped

LEMMA OrderStays ==
  ASSUME Order, hub' = hub, rejected' = rejected, dropped \subseteq dropped', disowned' = disowned,
         late' \subseteq late,
         IsSending' => SlicesInOrder' /\ refused' \subseteq disowned
  PROVE  Order'
<1>1. NoneSkipped(hub)'
  BY SkippedStays DEF Order, NoneSkipped
<1>2. \A req \in late' : NoneSkipped(req)'
  BY SkippedStays DEF Order
<1>. QED  BY <1>1, <1>2 DEF Order, SlicesInOrder

(* An answered slice goes, the others keep their order.                    *)
LEMMA TailInOrder ==
  ASSUME IInv, SlicesInOrder, IsSending, todo # <<>>, todo' = Tail(todo)
  PROVE  SlicesInOrder'
<1>1. /\ Len(todo') = Len(todo) - 1 /\ Len(todo) \in Nat
      /\ \A j \in 1 .. Len(todo) - 1 : todo'[j] = todo[j + 1]
  BY HeadSlice DEF IInv, TypeOK, SendingOK
<1>2. ASSUME NEW j \in 1 .. Len(todo) - 1, NEW k \in 1 .. Len(todo) - 1, j < k
      PROVE  todo'[j][2] < todo'[k][1]
  <2>1. j + 1 \in 1 .. Len(todo) /\ k + 1 \in 1 .. Len(todo) /\ j + 1 < k + 1
    BY <1>1, <1>2
  <2>2. todo[j + 1][2] < todo[k + 1][1]
    BY <2>1 DEF SlicesInOrder
  <2>. QED  BY <1>1, <2>2
<1>. QED  BY <1>1, <1>2 DEF SlicesInOrder

(* The slices a split leaves: two for the first, then the others.          *)
LEMMA SplitSlices ==
  ASSUME IInv, PushSplit
  PROVE  /\ Len(todo') = Len(todo) + 1
         /\ \E m \in todo[1][1] + 1 .. todo[1][2] :
              todo'[1][2] = m - 1 /\ todo'[2][1] = m /\ todo'[2][2] = todo[1][2]
         /\ \A j \in 2 .. Len(todo) : todo'[j + 1] = todo[j]
<1>1. IsSending /\ todo # <<>> /\ Len(Unsent) > 1 /\ Len(todo) \in Nat
  BY DEF PushSplit, IInv, TypeOK, SendingOK
<1>2. PICK w : w = todo[1]
  OBVIOUS
<1>3. /\ Head(todo) = w /\ w \in Nat \X Nat
      /\ w[1] \in 1 .. w[2] /\ w[2] \in 1 .. Len(batch)
      /\ Tail(todo) \in Seq(Nat \X Nat)
      /\ Len(Tail(todo)) = Len(todo) - 1
      /\ \A j \in 1 .. Len(todo) - 1 : Tail(todo)[j] = todo[j + 1]
  BY <1>1, <1>2, HeadSlice
<1>4. w[2] - w[1] + 1 > 1
  BY <1>1, <1>3, SliceProperties DEF Unsent, IInv, TypeOK, SendingOK
<1>5. PICK h : h = Halve(w)
  OBVIOUS
<1>6. h \in Seq(Nat \X Nat) /\ Len(h) = 2
  BY <1>3, <1>4, <1>5, HalveProperties
<1>7. \E m \in w[1] + 1 .. w[2] : h[1][2] = m - 1 /\ h[2][1] = m /\ h[2][2] = w[2]
  <2>1. PICK half : half = (w[2] - w[1] + 1) \div 2
    OBVIOUS
  <2>2. half \in 1 .. w[2] - w[1]
    BY <1>3, <1>4, <2>1
  <2>3. w[1] + half \in w[1] + 1 .. w[2]
    BY <1>3, <2>2
  <2>4. h = <<<<w[1], w[1] + half - 1>>, <<w[1] + half, w[2]>>>>
    BY <1>5, <2>1, Zenon DEF Halve
  <2>5. h[1][2] = w[1] + half - 1 /\ h[2][1] = w[1] + half /\ h[2][2] = w[2]
    BY <2>4
  <2>6. PICK m \in w[1] + 1 .. w[2] : m = w[1] + half
    BY <2>3, Zenon
  <2>7. h[1][2] = m - 1 /\ h[2][1] = m
    BY <1>3, <2>2, <2>5, <2>6
  <2>. QED  BY <2>5, <2>7
<1>8. /\ Len(todo') = 2 + Len(Tail(todo))
      /\ \A j \in 1 .. 2 + Len(Tail(todo)) : todo'[j] = IF j <= 2 THEN h[j] ELSE Tail(todo)[j - 2]
  BY <1>3, <1>5, <1>6, Concatenation DEF PushSplit
<1>9. todo'[1] = h[1] /\ todo'[2] = h[2]
  BY <1>3, <1>8
<1>10. ASSUME NEW j \in 2 .. Len(todo) PROVE todo'[j + 1] = todo[j]
  <2>1. j + 1 \in 1 .. 2 + Len(Tail(todo)) /\ ~(j + 1 <= 2) /\ j - 1 \in 1 .. Len(todo) - 1
    BY <1>1, <1>3
  <2>2. todo'[j + 1] = Tail(todo)[(j + 1) - 2]
    BY <1>8, <2>1
  <2>3. Tail(todo)[j - 1] = todo[(j - 1) + 1]
    BY <1>3, <2>1
  <2>. QED  BY <2>2, <2>3
<1>11. Len(todo') = Len(todo) + 1
  BY <1>1, <1>3, <1>8
<1>. QED  BY <1>2, <1>7, <1>9, <1>10, <1>11

LEMMA SplitInOrder ==
  ASSUME IInv, SlicesInOrder, PushSplit
  PROVE  SlicesInOrder'
<1>1. /\ IsSending /\ todo # <<>> /\ Len(todo) \in Nat
      /\ todo[1] \in Nat \X Nat /\ Len(Tail(todo)) = Len(todo) - 1
  BY HeadSlice DEF PushSplit, IInv, TypeOK, SendingOK
<1>2. Len(todo) >= 1
  BY <1>1 DEF IInv, TypeOK, SendingOK
<1>3. /\ Len(todo') = Len(todo) + 1
      /\ \A j \in 2 .. Len(todo) : todo'[j + 1] = todo[j]
  BY SplitSlices
<1>4. PICK m \in todo[1][1] + 1 .. todo[1][2] :
        todo'[1][2] = m - 1 /\ todo'[2][1] = m /\ todo'[2][2] = todo[1][2]
  BY SplitSlices
<1>5. ASSUME NEW j \in 2 .. Len(todo) PROVE todo[1][2] < todo[j][1] /\ todo[j][1] \in Int
  <2>1. 1 \in 1 .. Len(todo) /\ j \in 1 .. Len(todo) /\ 1 < j
    BY <1>1, <1>5
  <2>2. todo[j] \in Nat \X Nat
    BY <2>1 DEF IInv, TypeOK, SendingOK
  <2>. QED  BY <1>1, <2>1, <2>2 DEF SlicesInOrder
<1>6. ASSUME NEW j \in 1 .. Len(todo'), NEW k \in 1 .. Len(todo'), j < k
      PROVE  todo'[j][2] < todo'[k][1]
  <2>1. CASE j = 1 /\ k = 2
    BY <1>1, <1>4, <2>1
  <2>2. CASE j \in {1, 2} /\ k > 2
    <3>1. k - 1 \in 2 .. Len(todo) /\ k = (k - 1) + 1
      BY <1>1, <1>3, <2>2
    <3>2. todo'[k] = todo[k - 1]
      BY <1>3, <3>1
    <3>3. todo'[j][2] <= todo[1][2] /\ todo'[j][2] \in Int
      BY <1>1, <1>4, <2>2
    <3>4. todo[1][2] < todo[k - 1][1] /\ todo[k - 1][1] \in Int
      BY <1>5, <3>1
    <3>. QED  BY <1>1, <3>2, <3>3, <3>4
  <2>3. CASE j > 2
    <3>1. /\ j - 1 \in 2 .. Len(todo) /\ k - 1 \in 2 .. Len(todo) /\ j - 1 < k - 1
          /\ j = (j - 1) + 1 /\ k = (k - 1) + 1
      BY <1>1, <1>3, <1>6, <2>3
    <3>2. todo'[j] = todo[j - 1] /\ todo'[k] = todo[k - 1]
      BY <1>3, <3>1
    <3>3. j - 1 \in 1 .. Len(todo) /\ k - 1 \in 1 .. Len(todo)
      BY <3>1
    <3>. QED  BY <1>1, <3>1, <3>2, <3>3 DEF SlicesInOrder
  <2>. QED  BY <1>1, <1>3, <1>6, <2>1, <2>2, <2>3
<1>. QED  BY <1>6 DEF SlicesInOrder

LEMMA SendOrder ==
  ASSUME IInv, Account, Order, PushAccepted \/ PushRefused \/ PushFails
  PROVE  Order'
<1>1. IsSending /\ todo # <<>> /\ NoneSkipped(Ids(Unsent))
  BY UnsentSkipsNone DEF PushAccepted, PushRefused, PushFails
<1>2. PICK S : S = Ids(Unsent)
  OBVIOUS
<1>3. NoneSkipped(S)
  BY <1>1, <1>2
<1>4. CASE PushAccepted
  <2>1. /\ hub' = hub \cup S /\ todo' = Tail(todo)
        /\ UNCHANGED <<dropped, rejected, refused, disowned, late, pc>>
    BY <1>2, <1>4 DEF PushAccepted, buffer
  <2>2. NoneSkipped(hub)' /\ \A req \in late' : NoneSkipped(req)'
    BY <1>3, <2>1, HubGrows, SkippedStays DEF Order
  <2>3. SlicesInOrder'
    BY <1>1, <2>1, TailInOrder DEF Order
  <2>. QED  BY <2>1, <2>2, <2>3 DEF Order, IsSending
<1>5. CASE PushRefused
  <2>1. /\ refused' = refused \cup S /\ disowned' = disowned \cup S /\ todo' = Tail(todo)
        /\ UNCHANGED <<hub, dropped, rejected, late, pc>>
    BY <1>2, <1>5 DEF PushRefused, buffer, world
  <2>2. \A req \in late' : NoneSkipped(req)'
    BY <2>1, SkippedStays DEF Order
  <2>3. NoneSkipped(hub)'
    BY <2>1 DEF Order, NoneSkipped
  <2>4. SlicesInOrder'
    BY <1>1, <2>1, TailInOrder DEF Order
  <2>. QED  BY <2>1, <2>2, <2>3, <2>4 DEF Order, IsSending
<1>6. CASE PushFails
  <2>1. /\ late' \subseteq late \cup {S} /\ pc' \notin {"send", "finalSend"}
        /\ UNCHANGED <<hub, dropped, rejected, disowned>>
    BY <1>2, <1>6 DEF PushFails, buffer
  <2>2. \A req \in late' : NoneSkipped(req)'
    BY <1>3, <2>1, SkippedStays DEF Order
  <2>3. NoneSkipped(hub)'
    BY <2>1 DEF Order, NoneSkipped
  <2>. QED  BY <2>1, <2>2, <2>3 DEF Order, IsSending, SlicesInOrder
<1>. QED  BY <1>4, <1>5, <1>6

LEMMA QuietOrder ==
  ASSUME IInv, Order,
         \/ \E shape \in Shapes : MeasureRound(shape)
         \/ \E n \in 1 .. MaxRounds : FlushPeek(n) \/ FinalPeek(n)
         \/ PushSplit
  PROVE  Order'
<1>1. ASSUME NEW shape \in Shapes, MeasureRound(shape) PROVE Order'
  <2>1. /\ UNCHANGED <<hub, rejected, disowned, late, refused, todo, pc>>
        /\ dropped \subseteq dropped'
    BY <1>1 DEF MeasureRound, Add, sending, world
  <2>. QED  BY <2>1, OrderStays DEF Order, SlicesInOrder, IsSending
<1>2. CASE \E n \in 1 .. MaxRounds : FlushPeek(n) \/ FinalPeek(n)
  <2>1. PICK n \in Nat : todo' = <<<<1, n>>>> /\ refused' = {}
    BY <1>2 DEF FlushPeek, FinalPeek, StartSend
  <2>2. UNCHANGED <<hub, rejected, disowned, late, dropped>>
    BY <1>2 DEF FlushPeek, FinalPeek, StartSend, buffer, world
  <2>3. SlicesInOrder'
    BY <2>1 DEF SlicesInOrder
  <2>. QED  BY <2>1, <2>2, <2>3, OrderStays
<1>3. CASE PushSplit
  <2>1. UNCHANGED <<hub, rejected, disowned, late, dropped, refused, pc>>
    BY <1>3 DEF PushSplit, buffer, world
  <2>2. SlicesInOrder'
    BY <1>3, SplitInOrder DEF Order
  <2>. QED  BY <2>1, <2>2, OrderStays DEF Order, IsSending
<1>. QED  BY <1>1, <1>2, <1>3

LEMMA ControlOrder ==
  ASSUME Order,
         \/ Cancel \/ MeasureDrained \/ BackoffOver \/ ShutdownBegins \/ AwaitMeasureDrain
         \/ FinalDrained \/ FinalDeadline \/ FinishSend \/ HubProcessesLate \/ UNCHANGED vars
  PROVE  Order'
<1>1. CASE FinishSend
  <2>1. /\ UNCHANGED <<hub, dropped, disowned, late>> /\ rejected' = rejected \cup refused
        /\ pc' \notin {"send", "finalSend"} /\ refused \subseteq disowned
    BY <1>1 DEF FinishSend, Commit, world, Order
  <2>2. NoneSkipped(hub)' /\ \A req \in late' : NoneSkipped(req)'
    BY <2>1 DEF Order, NoneSkipped
  <2>. QED  BY <2>1, <2>2 DEF Order, IsSending, SlicesInOrder
<1>2. CASE HubProcessesLate
  <2>1. PICK req \in late : hub' = hub \cup req /\ late' = late \ {req}
    BY <1>2 DEF HubProcessesLate
  <2>2. UNCHANGED <<dropped, disowned, rejected, refused, todo, pc>>
    BY <1>2 DEF HubProcessesLate, buffer, sending
  <2>3. NoneSkipped(hub)' /\ \A r \in late' : NoneSkipped(r)'
    BY <2>1, <2>2, HubGrows, SkippedStays DEF Order
  <2>. QED  BY <2>2, <2>3 DEF Order, IsSending, SlicesInOrder
<1>3. CASE ~FinishSend /\ ~HubProcessesLate
  <2>1. /\ UNCHANGED <<hub, dropped, disowned, late, rejected, refused, todo>>
        /\ pc' = pc \/ pc' \in {"loop", "drain", "final", "stopped"}
    BY <1>3 DEF Cancel, MeasureDrained, BackoffOver, ShutdownBegins, AwaitMeasureDrain,
                FinalDrained, FinalDeadline, vars, buffer, sending, world
  <2>. QED  BY <2>1, OrderStays DEF Order, IsSending, SlicesInOrder
<1>. QED  BY <1>1, <1>2, <1>3

(* A round is never processed by the hub after a later one, unless the     *)
(* agent had dropped or disowned it: neither repeated and late requests    *)
(* nor splits and refusals let a later round overtake it.                  *)
THEOREM LaterNeverOvertakes == Spec => NeverOvertaken
<1>1. IInv /\ Account /\ Order /\ [Next]_vars => Order'
  BY SendOrder, QuietOrder, ControlOrder DEF Next, FlushLoop
<1>2. Spec => []Order
  BY <1>1, InitOrder, Invariance, AccountInvariant, PTL DEF Spec
<1>. DEFINE Orderly == \A id \in hub' \ hub :
                         (\E later \in hub : later > id) => id \in dropped \cup disowned
<1>3. IInv' /\ Order /\ IInv => Orderly
  <2>. SUFFICES ASSUME IInv, IInv', Order, NEW id \in hub' \ hub, NEW later \in hub, later > id
                PROVE  id \in dropped \cup disowned
    OBVIOUS
  <2>1. id \in Nat /\ later \in Nat
    BY DEF IInv, TypeOK, WorldOK
  <2>. QED  BY <2>1 DEF Order, NoneSkipped
<1>4. Spec => [][Orderly]_hub
  BY <1>2, <1>3, Invariance, PTL
<1>. QED  BY <1>4 DEF NeverOvertaken
=============================================================================
