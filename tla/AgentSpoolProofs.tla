-------------------------- MODULE AgentSpoolProofs --------------------------
(***************************************************************************)
(* What the spool promises on a file system whose directory changes are    *)
(* ordered by a journal, for every number of kills, power failures,        *)
(* failing operations and restarts, every capacity of the buffer and every *)
(* segment size.  After a power failure the directory is the durable one   *)
(* with the first few of the pending changes applied: one of Possible.     *)
(* The invariant says that each of these directories would do: its         *)
(* segments are contiguous and reach its watermark, what lies below the    *)
(* watermark is settled (delivered or evicted), and what a flush has       *)
(* promised is either settled or durable above the watermark.              *)
(***************************************************************************)
EXTENDS AgentSpool, FiniteSetTheorems, SequenceTheorems, WellFoundedInduction, TLAPS

Record    == [seq : Nat, id : Nat]
File      == [recs : Seq(Record), synced : Nat, torn : BOOLEAN]
Directory == [segs : SUBSET Names, head : Nat]
DirChange == [op : {"create", "unlink", "head"}, arg : Names]

TypeOK ==
  /\ disk \in [Names -> File]
  /\ dir \in Directory /\ ddir \in Directory /\ ops \in Seq(DirChange)
  /\ status \in {"down", "opening", "up", "refused"}
  /\ pc \in {"idle", "closed", "write", "roll", "rename", "headSync", "reclaim"}
  /\ closing \in BOOLEAN /\ degraded \in BOOLEAN /\ staging \in BOOLEAN
  /\ pending \in Seq(Record) /\ rounds \in Seq(Nat)
  /\ head \in Nat /\ headDurable \in Nat /\ headSeq \in Nat /\ measured \in 0 .. setup.rounds
  /\ active \in Names /\ upto \in Int
  /\ kills \in Nat /\ losses \in Nat /\ errors \in Nat

-----------------------------------------------------------------------------
(* The parts of the invariant.                                             *)

End(n)     == n + Len(disk[n].recs)
Settled    == hub \cup dropped
Possible   == {Applied(ddir, ops, 1 .. k) : k \in 0 .. Len(ops)}
Visible(n) == n \in dir.segs /\ \A m \in dir.segs : m <= n
Unsynced(n) == disk[n].torn \/ disk[n].synced < Len(disk[n].recs)

(* A segment is named after its first record, and numbers them in order.   *)
FilesOK ==
  \A n \in Names :
    /\ Len(disk[n].recs) <= SegMax
    /\ disk[n].synced <= Len(disk[n].recs)
    /\ \A i \in 1 .. Len(disk[n].recs) : disk[n].recs[i].seq = n + i - 1

(* A directory that recovery can start from.                               *)
Contiguous(d) ==
  \A m, n \in d.segs : m < n => m < End(m) /\ End(m) <= n /\ End(m) \in d.segs

Reaches(d) ==
  d.segs # {} => /\ \E m \in d.segs : m <= d.head
                 /\ \E n \in d.segs : d.head <= n + disk[n].synced

Bounded(d) == d.head <= measured /\ \A n \in d.segs : End(n) <= measured

Retired(d) ==
  \A n \in d.segs : \A i \in 1 .. Len(disk[n].recs) :
    n + i - 1 < d.head => disk[n].recs[i].id \in Settled

Keeps(d) ==
  \A id \in promised \ Settled : \E n \in d.segs : \E i \in 1 .. disk[n].synced :
    disk[n].recs[i].id = id /\ d.head <= n + i - 1

GoodDir(d) == Contiguous(d) /\ Reaches(d) /\ Bounded(d) /\ Retired(d) /\ Keeps(d)

(* No directory holds a segment beyond the newest visible one, the only    *)
(* one that may hold records no fsync has covered.                         *)
BelowVisible(d) ==
  \A n \in d.segs : (\E m \in dir.segs : n <= m) /\ (Unsynced(n) => Visible(n))

DirsOK ==
  /\ dir = Applied(ddir, ops, 1 .. Len(ops))
  /\ \A d \in Possible : GoodDir(d) /\ BelowVisible(d)

UnlinksOK ==
  \A i \in 1 .. Len(ops) : ops[i].op = "unlink" =>
    /\ ops[i].arg \notin dir.segs
    /\ \E m \in dir.segs : ops[i].arg < m
    /\ MaxSeq(ops[i].arg) < Applied(ddir, ops, 1 .. i).head

BufferOK ==
  /\ Len(rounds) <= Cap
  /\ headSeq + Len(rounds) <= measured
  /\ staging => rounds # <<>>
  /\ -1 <= upto /\ upto < headSeq + Len(rounds)
  /\ \A i \in 1 .. Len(rounds) : headSeq + i - 1 <= upto => rounds[i] \in hub
  /\ status = "up" => promised \subseteq Settled \cup Range(rounds)

DownOK ==
  /\ status # "up" => /\ pc = "idle" /\ degraded = FALSE
                      /\ pending = <<>> /\ rounds = <<>> /\ staging = FALSE /\ upto = -1
  /\ status = "opening" => promised \subseteq Settled
  /\ status # "refused"
  /\ degraded => MutexFree

(* A record that is written or staged, as the buffer knows it.             *)
Reflects(r) ==
  IF r.seq < headSeq THEN r.id \in Settled ELSE r.id = rounds[r.seq - headSeq + 1]

Mirroring == status \in {"opening", "up"} /\ Mirrored

MirrorOK ==
  Mirroring =>
    /\ active \in dir.segs
    /\ \A n \in dir.segs : ~disk[n].torn
    /\ pc # "roll" => Visible(active)
    /\ pc = "roll" => /\ pending # <<>> /\ active < End(active)
                      /\ Visible(End(active)) /\ disk[End(active)].recs = <<>>
    /\ \A i \in 1 .. Len(pending) : pending[i].seq = End(active) + i - 1
    /\ headSeq + Len(rounds) = End(active) + Len(pending) + (IF staging THEN 1 ELSE 0)
    /\ head = headSeq
    /\ \A n \in dir.segs : \A i \in 1 .. Len(disk[n].recs) : Reflects(disk[n].recs[i])
    /\ \A i \in 1 .. Len(pending) : Reflects(pending[i])

FlushOK ==
  Mirroring =>
    /\ pc \in {"rename", "headSync", "reclaim"} =>
         pending = <<>> /\ disk[active].synced = Len(disk[active].recs)
    /\ dir.head = (IF pc = "headSync" THEN head ELSE headDurable)
    /\ headDurable <= head
    /\ pc # "reclaim" => \A m, n \in dir.segs : m < n => headDurable <= n

SpoolInv ==
  TypeOK /\ FilesOK /\ DirsOK /\ UnlinksOK /\ BufferOK /\ DownOK /\ MirrorOK /\ FlushOK

IInv == setup \in Setups /\ (Journaled => SpoolInv)
-----------------------------------------------------------------------------
(* Least and greatest numbers of a set.                                    *)
LEMMA LeastNumber ==
  ASSUME NEW T \in SUBSET Nat, T # {}
  PROVE  \E x \in T : \A y \in T : x <= y
<1>1. PICK x \in T : \A y \in T : ~(<<y, x>> \in OpToRel(<, Nat))
  BY NatLessThanWellFounded, WFMin
<1>2. ASSUME NEW y \in T PROVE x <= y
  <2>1. ~(<<y, x>> \in {ss \in Nat \X Nat : ss[1] < ss[2]})
    BY <1>1 DEF OpToRel
  <2>. QED  BY <2>1
<1>. QED  BY <1>2

LEMMA GreatestNumber ==
  ASSUME NEW T \in SUBSET Nat, T # {}, NEW b \in Nat, \A y \in T : y <= b
  PROVE  \E x \in T : \A y \in T : y <= x
<1>. DEFINE U == {b - y : y \in T}
<1>1. U \in SUBSET Nat /\ U # {}
  <2>1. \A y \in T : b - y \in Nat
    OBVIOUS
  <2>2. PICK y \in T : TRUE
    OBVIOUS
  <2>. QED  BY <2>1, <2>2
<1>2. PICK u \in U : \A v \in U : u <= v
  <2>. HIDE DEF U
  <2>. QED  BY <1>1, LeastNumber
<1>3. PICK x \in T : u = b - x
  OBVIOUS
<1>4. ASSUME NEW y \in T PROVE y <= x
  <2>1. b - x <= b - y
    BY <1>2, <1>3
  <2>. QED  BY <2>1
<1>. QED  BY <1>4

LEMMA NewestIs ==
  ASSUME NEW T \in SUBSET Nat, NEW x \in T, \A y \in T : y <= x
  PROVE  Newest(T) = x
<1>1. \A z \in T : (\A y \in T : y <= z) => z = x
  OBVIOUS
<1>. QED  BY <1>1 DEF Newest

LEMMA NewestExists ==
  ASSUME NEW T \in SUBSET Nat, T # {}, NEW b \in Nat, \A y \in T : y <= b
  PROVE  Newest(T) \in T /\ \A y \in T : y <= Newest(T)
<1>1. PICK x \in T : \A y \in T : y <= x
  BY GreatestNumber
<1>2. Newest(T) = x
  BY <1>1, NewestIs
<1>. QED  BY <1>1, <1>2

LEMMA OldestIs ==
  ASSUME NEW T \in SUBSET Nat, NEW x \in T, \A y \in T : x <= y
  PROVE  Oldest(T) = x
<1>1. \A z \in T : (\A y \in T : z <= y) => z = x
  OBVIOUS
<1>. QED  BY <1>1 DEF Oldest

LEMMA OldestExists ==
  ASSUME NEW T \in SUBSET Nat, T # {}
  PROVE  Oldest(T) \in T /\ \A y \in T : Oldest(T) <= y
<1>. QED  BY LeastNumber, OldestIs

-----------------------------------------------------------------------------
(* What directory changes do.                                              *)

About(changes, keep, n) == {i \in keep : changes[i].op # "head" /\ changes[i].arg = n}
Heads(changes, keep)    == {i \in keep : changes[i].op = "head"}

LEMMA AppliedIs ==
  ASSUME NEW d, NEW c, NEW keep
  PROVE  /\ Applied(d, c, keep).segs =
              {n \in Names : IF About(c, keep, n) = {} THEN n \in d.segs
                             ELSE c[Newest(About(c, keep, n))].op = "create"}
         /\ Applied(d, c, keep).head =
              IF Heads(c, keep) = {} THEN d.head ELSE c[Newest(Heads(c, keep))].arg
         /\ Applied(d, c, keep) = [segs |-> Applied(d, c, keep).segs,
                                   head |-> Applied(d, c, keep).head]
<1>. QED  BY DEF Applied, About, Heads

(* Two directories with the same segments and the same watermark.          *)
LEMMA SameDirectory ==
  ASSUME NEW d, NEW e, d.segs = e.segs, d.head = e.head,
         d = [segs |-> d.segs, head |-> d.head], e = [segs |-> e.segs, head |-> e.head]
  PROVE  d = e
<1>. QED  OBVIOUS

LEMMA DirectoryRecord ==
  ASSUME NEW d \in Directory
  PROVE  d = [segs |-> d.segs, head |-> d.head] /\ d.segs \in SUBSET Names /\ d.head \in Nat
<1>. QED  BY DEF Directory

LEMMA AppliedNone ==
  ASSUME NEW d \in Directory, NEW c
  PROVE  Applied(d, c, 1 .. 0) = d
<1>1. About(c, 1 .. 0, 0) = {} /\ Heads(c, 1 .. 0) = {} /\ \A n : About(c, 1 .. 0, n) = {}
  BY DEF About, Heads
<1>2. d.segs = {n \in Names : n \in d.segs}
  BY DirectoryRecord
<1>3. Applied(d, c, 1 .. 0).segs = {n \in Names : n \in d.segs}
  BY <1>1, AppliedIs
<1>4. Applied(d, c, 1 .. 0).head = d.head
  BY <1>1, AppliedIs
<1>5. d = [segs |-> d.segs, head |-> d.head]
  BY DirectoryRecord
<1>6. Applied(d, c, 1 .. 0) = [segs |-> Applied(d, c, 1 .. 0).segs,
                               head |-> Applied(d, c, 1 .. 0).head]
  BY AppliedIs
<1>. QED  BY <1>2, <1>3, <1>4, <1>5, <1>6

LEMMA NewestChange ==
  ASSUME NEW k \in Nat, NEW S \in SUBSET (1 .. k), S # {}
  PROVE  Newest(S) \in S /\ Newest(S) \in 1 .. k /\ \A i \in S : i <= Newest(S)
<1>1. S \in SUBSET Nat /\ \A i \in S : i <= k
  OBVIOUS
<1>2. Newest(S) \in S /\ \A i \in S : i <= Newest(S)
  BY <1>1, NewestExists
<1>. QED  BY <1>2

(* Only the changes counted matter.                                        *)
LEMMA AppliedPrefix ==
  ASSUME NEW d, NEW c, NEW e, NEW k \in Nat, \A i \in 1 .. k : c[i] = e[i]
  PROVE  Applied(d, c, 1 .. k) = Applied(d, e, 1 .. k)
<1>1. \A n : About(c, 1 .. k, n) = About(e, 1 .. k, n)
  BY DEF About
<1>2. Heads(c, 1 .. k) = Heads(e, 1 .. k)
  BY DEF Heads
<1>3. ASSUME NEW n
      PROVE  About(c, 1 .. k, n) = {} \/ c[Newest(About(c, 1 .. k, n))] = e[Newest(About(c, 1 .. k, n))]
  <2>1. About(c, 1 .. k, n) \in SUBSET (1 .. k)
    BY DEF About
  <2>. QED  BY <2>1, NewestChange
<1>4. Heads(c, 1 .. k) = {} \/ c[Newest(Heads(c, 1 .. k))] = e[Newest(Heads(c, 1 .. k))]
  <2>1. Heads(c, 1 .. k) \in SUBSET (1 .. k)
    BY DEF Heads
  <2>. QED  BY <2>1, NewestChange
<1>5. Applied(d, c, 1 .. k).head = Applied(d, e, 1 .. k).head
  BY <1>2, <1>4, AppliedIs
<1>6. ASSUME NEW n \in Names
      PROVE  n \in Applied(d, c, 1 .. k).segs <=> n \in Applied(d, e, 1 .. k).segs
  BY <1>1, <1>3, AppliedIs
<1>7. /\ \A n \in Applied(d, c, 1 .. k).segs : n \in Names
      /\ \A n \in Applied(d, e, 1 .. k).segs : n \in Names
  BY AppliedIs
<1>8. Applied(d, c, 1 .. k).segs = Applied(d, e, 1 .. k).segs
  BY <1>6, <1>7
<1>. QED  BY <1>5, <1>8, AppliedIs, SameDirectory

LEMMA AppliedTyped ==
  ASSUME NEW d \in Directory, NEW k \in Nat, NEW c, \A i \in 1 .. k : c[i] \in DirChange
  PROVE  Applied(d, c, 1 .. k) \in Directory
<1>1. Applied(d, c, 1 .. k).segs \in SUBSET Names
  BY AppliedIs
<1>2. Heads(c, 1 .. k) \in SUBSET (1 .. k)
  BY DEF Heads
<1>3. Heads(c, 1 .. k) = {} \/ c[Newest(Heads(c, 1 .. k))] \in DirChange
  BY <1>2, NewestChange
<1>4. \A x \in DirChange : x.arg \in Nat
  BY SpoolAssumption DEF DirChange, Names
<1>5. Applied(d, c, 1 .. k).head \in Nat
  BY <1>3, <1>4, AppliedIs, DirectoryRecord
<1>. QED  BY <1>1, <1>5, AppliedIs DEF Directory

(* Changes made after others apply to the directory these have left.       *)
LEMMA AppliedConcat ==
  ASSUME NEW d \in Directory, NEW o \in Seq(DirChange), NEW c \in Seq(DirChange),
         NEW j \in 0 .. Len(c)
  PROVE  Applied(d, o \o c, 1 .. Len(o) + j) =
           Applied(Applied(d, o, 1 .. Len(o)), c, 1 .. j)
<1>. DEFINE l == Len(o)
            oc == o \o c
            K == 1 .. l + j
            D == Applied(d, o, 1 .. l)
<1>1. l \in Nat /\ j \in Nat /\ l + j \in Nat
  OBVIOUS
<1>2. /\ \A i \in 1 .. l : oc[i] = o[i]
      /\ \A i \in 1 .. j : oc[l + i] = c[i]
  BY ConcatProperties
<1>. HIDE DEF oc, l
<1>3. ASSUME NEW S \in SUBSET K, NEW A \in SUBSET (1 .. l), NEW B \in SUBSET (1 .. j),
             \A i \in K : i \in S <=> i \in A \/ i - l \in B
      PROVE  /\ B = {} => S = A
             /\ B # {} => S # {} /\ oc[Newest(S)] = c[Newest(B)]
  <2>1. A \subseteq K
    BY <1>1
  <2>2. ASSUME B = {} PROVE S = A
    BY <1>3, <2>1, <2>2
  <2>3. ASSUME B # {} PROVE S # {} /\ oc[Newest(S)] = c[Newest(B)]
    <3>1. Newest(B) \in B /\ Newest(B) \in 1 .. j /\ \A i \in B : i <= Newest(B)
      BY <1>1, <2>3, NewestChange
    <3>. DEFINE m == l + Newest(B)
    <3>2. m \in K /\ m - l = Newest(B)
      BY <1>1, <3>1
    <3>3. m \in S
      BY <1>3, <3>1, <3>2
    <3>4. \A i \in S : i <= m
      BY <1>1, <1>3, <3>1
    <3>5. Newest(S) = m
      <4>1. S \in SUBSET Nat
        BY <1>1
      <4>. HIDE DEF m
      <4>. QED  BY <4>1, <3>3, <3>4, NewestIs
    <3>. QED  BY <1>2, <3>1, <3>3, <3>5
  <2>. QED  BY <2>2, <2>3
<1>4. ASSUME NEW n
      PROVE  /\ About(c, 1 .. j, n) = {} => About(oc, K, n) = About(o, 1 .. l, n)
             /\ About(c, 1 .. j, n) # {} =>
                  /\ About(oc, K, n) # {}
                  /\ oc[Newest(About(oc, K, n))] = c[Newest(About(c, 1 .. j, n))]
  <2>1. /\ About(oc, K, n) \in SUBSET K /\ About(o, 1 .. l, n) \in SUBSET (1 .. l)
        /\ About(c, 1 .. j, n) \in SUBSET (1 .. j)
    BY DEF About
  <2>2. ASSUME NEW i \in K
        PROVE  i \in About(oc, K, n) <=> i \in About(o, 1 .. l, n) \/ i - l \in About(c, 1 .. j, n)
    <3>1. CASE i <= l
      <4>1. i \in 1 .. l /\ i - l \notin 1 .. j /\ oc[i] = o[i]
        BY <1>1, <1>2, <3>1
      <4>. QED  BY <4>1 DEF About
    <3>2. CASE i > l
      <4>1. i \notin 1 .. l /\ i - l \in 1 .. j /\ l + (i - l) = i
        BY <1>1, <3>2
      <4>2. oc[i] = c[i - l]
        BY <1>2, <4>1
      <4>. QED  BY <4>1, <4>2 DEF About
    <3>. QED  BY <3>1, <3>2, <1>1
  <2>. DEFINE S == About(oc, K, n)
              A == About(o, 1 .. l, n)
              B == About(c, 1 .. j, n)
  <2>3. S \in SUBSET K /\ A \in SUBSET (1 .. l) /\ B \in SUBSET (1 .. j)
    BY <2>1
  <2>4. \A i \in K : i \in S <=> i \in A \/ i - l \in B
    BY <2>2
  <2>5. /\ B = {} => S = A
        /\ B # {} => S # {} /\ oc[Newest(S)] = c[Newest(B)]
    <3>. HIDE DEF S, A, B, K
    <3>. QED  BY <2>3, <2>4, <1>3, ZenonT(30)
  <2>. QED  BY <2>5
<1>5. /\ Heads(c, 1 .. j) = {} => Heads(oc, K) = Heads(o, 1 .. l)
      /\ Heads(c, 1 .. j) # {} =>
           /\ Heads(oc, K) # {}
           /\ oc[Newest(Heads(oc, K))] = c[Newest(Heads(c, 1 .. j))]
  <2>1. /\ Heads(oc, K) \in SUBSET K /\ Heads(o, 1 .. l) \in SUBSET (1 .. l)
        /\ Heads(c, 1 .. j) \in SUBSET (1 .. j)
    BY DEF Heads
  <2>2. ASSUME NEW i \in K
        PROVE  i \in Heads(oc, K) <=> i \in Heads(o, 1 .. l) \/ i - l \in Heads(c, 1 .. j)
    <3>1. CASE i <= l
      <4>1. i \in 1 .. l /\ i - l \notin 1 .. j /\ oc[i] = o[i]
        BY <1>1, <1>2, <3>1
      <4>. QED  BY <4>1 DEF Heads
    <3>2. CASE i > l
      <4>1. i \notin 1 .. l /\ i - l \in 1 .. j /\ l + (i - l) = i
        BY <1>1, <3>2
      <4>2. oc[i] = c[i - l]
        BY <1>2, <4>1
      <4>. QED  BY <4>1, <4>2 DEF Heads
    <3>. QED  BY <3>1, <3>2, <1>1
  <2>. DEFINE S == Heads(oc, K)
              A == Heads(o, 1 .. l)
              B == Heads(c, 1 .. j)
  <2>3. S \in SUBSET K /\ A \in SUBSET (1 .. l) /\ B \in SUBSET (1 .. j)
    BY <2>1
  <2>4. \A i \in K : i \in S <=> i \in A \/ i - l \in B
    BY <2>2
  <2>5. /\ B = {} => S = A
        /\ B # {} => S # {} /\ oc[Newest(S)] = c[Newest(B)]
    <3>. HIDE DEF S, A, B, K
    <3>. QED  BY <2>3, <2>4, <1>3, ZenonT(30)
  <2>. QED  BY <2>5
<1>6. ASSUME NEW n \in Names
      PROVE  n \in Applied(d, oc, K).segs <=> n \in Applied(D, c, 1 .. j).segs
  <2>1. n \in D.segs <=> IF About(o, 1 .. l, n) = {} THEN n \in d.segs
                         ELSE o[Newest(About(o, 1 .. l, n))].op = "create"
    BY AppliedIs
  <2>2. About(o, 1 .. l, n) = {} \/ oc[Newest(About(o, 1 .. l, n))] = o[Newest(About(o, 1 .. l, n))]
    <3>1. About(o, 1 .. l, n) \in SUBSET (1 .. l)
      BY DEF About
    <3>. QED  BY <1>1, <1>2, <3>1, NewestChange
  <2>3. n \in Applied(d, oc, K).segs <=>
          IF About(oc, K, n) = {} THEN n \in d.segs ELSE oc[Newest(About(oc, K, n))].op = "create"
    BY AppliedIs
  <2>4. n \in Applied(D, c, 1 .. j).segs <=>
          IF About(c, 1 .. j, n) = {} THEN n \in D.segs ELSE c[Newest(About(c, 1 .. j, n))].op = "create"
    BY AppliedIs
  <2>. HIDE DEF D, K
  <2>. QED  BY <2>1, <2>2, <2>3, <2>4, <1>4
<1>8. Applied(d, oc, K).head = Applied(D, c, 1 .. j).head
  <2>1. D.head = IF Heads(o, 1 .. l) = {} THEN d.head ELSE o[Newest(Heads(o, 1 .. l))].arg
    BY AppliedIs
  <2>2. Heads(o, 1 .. l) = {} \/ oc[Newest(Heads(o, 1 .. l))] = o[Newest(Heads(o, 1 .. l))]
    <3>1. Heads(o, 1 .. l) \in SUBSET (1 .. l)
      BY DEF Heads
    <3>. QED  BY <1>1, <1>2, <3>1, NewestChange
  <2>3. Applied(d, oc, K).head =
          IF Heads(oc, K) = {} THEN d.head ELSE oc[Newest(Heads(oc, K))].arg
    BY AppliedIs
  <2>4. Applied(D, c, 1 .. j).head =
          IF Heads(c, 1 .. j) = {} THEN D.head ELSE c[Newest(Heads(c, 1 .. j))].arg
    BY AppliedIs
  <2>. HIDE DEF D, K
  <2>. QED  BY <2>1, <2>2, <2>3, <2>4, <1>5
<1>9. Applied(d, oc, K).segs = Applied(D, c, 1 .. j).segs
  <2>1. /\ \A n \in Applied(d, oc, K).segs : n \in Names
        /\ \A n \in Applied(D, c, 1 .. j).segs : n \in Names
    BY AppliedIs
  <2>. HIDE DEF D, K
  <2>. QED  BY <2>1, <1>6
<1>10. Applied(d, oc, K) = Applied(D, c, 1 .. j)
  <2>. HIDE DEF D, K
  <2>. QED  BY <1>8, <1>9, AppliedIs, SameDirectory
<1>. QED  BY <1>10 DEF oc, l

(* One change.                                                             *)
LEMMA AppliedOne ==
  ASSUME NEW d \in Directory, NEW x \in DirChange
  PROVE  LET e == Applied(d, <<x>>, 1 .. 1)
         IN /\ x.op = "create" => e.segs = d.segs \cup {x.arg} /\ e.head = d.head
            /\ x.op = "unlink" => e.segs = d.segs \ {x.arg} /\ e.head = d.head
            /\ x.op = "head" => e.segs = d.segs /\ e.head = x.arg
<1>. DEFINE c == <<x>>
            e == Applied(d, c, 1 .. 1)
<1>1. c[1] = x /\ 1 .. 1 = {1} /\ x.arg \in Names /\ x.op \in {"create", "unlink", "head"}
  BY DEF DirChange
<1>2. \A n : About(c, 1 .. 1, n) = IF x.op # "head" /\ x.arg = n THEN {1} ELSE {}
  BY <1>1 DEF About
<1>3. Heads(c, 1 .. 1) = IF x.op = "head" THEN {1} ELSE {}
  BY <1>1 DEF Heads
<1>4. Newest({1}) = 1
  BY NewestIs
<1>. HIDE DEF c
<1>5. e.head = IF x.op = "head" THEN x.arg ELSE d.head
  BY <1>1, <1>3, <1>4, AppliedIs
<1>6. \A n \in Names : n \in e.segs <=> IF x.op # "head" /\ x.arg = n THEN x.op = "create" ELSE n \in d.segs
  BY <1>1, <1>2, <1>4, AppliedIs
<1>7. (\A n \in e.segs : n \in Names) /\ \A n \in d.segs : n \in Names
  BY AppliedIs, DirectoryRecord
<1>. HIDE DEF e
<1>8. /\ x.op = "create" => e.segs = d.segs \cup {x.arg} /\ e.head = d.head
      /\ x.op = "unlink" => e.segs = d.segs \ {x.arg} /\ e.head = d.head
      /\ x.op = "head" => e.segs = d.segs /\ e.head = x.arg
  BY <1>1, <1>5, <1>6, <1>7
<1>. QED  BY <1>8 DEF e, c

(* A sequence of removals.                                                 *)
LEMMA AppliedUnlinks ==
  ASSUME NEW d \in Directory, NEW c \in Seq(DirChange), NEW j \in 0 .. Len(c),
         \A i \in 1 .. Len(c) : c[i].op = "unlink"
  PROVE  /\ Applied(d, c, 1 .. j).segs = d.segs \ {c[i].arg : i \in 1 .. j}
         /\ Applied(d, c, 1 .. j).head = d.head
<1>1. j \in Nat /\ \A i \in 1 .. j : c[i].op = "unlink"
  OBVIOUS
<1>2. Heads(c, 1 .. j) = {}
  BY <1>1 DEF Heads
<1>3. Applied(d, c, 1 .. j).head = d.head
  BY <1>2, AppliedIs
<1>4. ASSUME NEW n \in Names
      PROVE  n \in Applied(d, c, 1 .. j).segs <=> n \in d.segs /\ n \notin {c[i].arg : i \in 1 .. j}
  <2>1. About(c, 1 .. j, n) = {i \in 1 .. j : c[i].arg = n}
    BY <1>1 DEF About
  <2>2. CASE About(c, 1 .. j, n) = {}
    <3>1. n \notin {c[i].arg : i \in 1 .. j}
      BY <2>1, <2>2
    <3>. QED  BY <3>1, <2>2, AppliedIs
  <2>3. CASE About(c, 1 .. j, n) # {}
    <3>1. n \in {c[i].arg : i \in 1 .. j}
      BY <2>1, <2>3
    <3>2. About(c, 1 .. j, n) \in SUBSET (1 .. j)
      BY <2>1
    <3>3. c[Newest(About(c, 1 .. j, n))].op = "unlink"
      BY <1>1, <2>3, <3>2, NewestChange
    <3>. QED  BY <3>1, <3>3, <2>3, AppliedIs
  <2>. QED  BY <2>2, <2>3
<1>5. (\A n \in Applied(d, c, 1 .. j).segs : n \in Names) /\ \A n \in d.segs : n \in Names
  BY AppliedIs, DirectoryRecord
<1>6. Applied(d, c, 1 .. j).segs = d.segs \ {c[i].arg : i \in 1 .. j}
  BY <1>4, <1>5
<1>. QED  BY <1>3, <1>6

(* The directories a power failure may leave, after more changes.          *)
LEMMA PossibleAfterChange ==
  ASSUME TypeOK, dir = Applied(ddir, ops, 1 .. Len(ops)),
         NEW c \in Seq(DirChange), Change(c)
  PROVE  /\ ops' \in Seq(DirChange) /\ dir' \in Directory /\ ddir' = ddir
         /\ Len(ops') = Len(ops) + Len(c)
         /\ \A i \in 1 .. Len(ops) : ops'[i] = ops[i]
         /\ \A i \in 1 .. Len(c) : ops'[Len(ops) + i] = c[i]
         /\ \A k \in 0 .. Len(ops) : Applied(ddir', ops', 1 .. k) = Applied(ddir, ops, 1 .. k)
         /\ \A j \in 0 .. Len(c) : Applied(ddir', ops', 1 .. Len(ops) + j) = Applied(dir, c, 1 .. j)
         /\ dir' = Applied(ddir', ops', 1 .. Len(ops'))
         /\ dir' = Applied(dir, c, 1 .. Len(c))
         /\ \A d \in Possible' : d \in Possible \/ \E j \in 1 .. Len(c) : d = Applied(dir, c, 1 .. j)
<1>. DEFINE l == Len(ops)
            C(j) == Applied(dir, c, 1 .. j)
<1>1. ops \in Seq(DirChange) /\ dir \in Directory /\ ddir \in Directory /\ ddir' = ddir
  BY DEF TypeOK, Change
<1>2. l \in Nat /\ Len(c) \in Nat /\ DOMAIN c = 1 .. Len(c)
  BY <1>1
<1>3. ops' = ops \o c /\ dir' = Applied(dir, c, 1 .. Len(c))
  BY <1>2 DEF Change
<1>4. /\ ops' \in Seq(DirChange) /\ Len(ops') = l + Len(c)
      /\ \A i \in 1 .. l : ops'[i] = ops[i]
      /\ \A i \in 1 .. Len(c) : ops'[l + i] = c[i]
  BY <1>1, <1>2, <1>3, ConcatProperties
<1>5. dir' \in Directory
  <2>1. \A i \in 1 .. Len(c) : c[i] \in DirChange
    OBVIOUS
  <2>. QED  BY <1>1, <1>2, <1>3, <2>1, AppliedTyped
<1>6. ASSUME NEW k \in 0 .. l
      PROVE  Applied(ddir', ops', 1 .. k) = Applied(ddir, ops, 1 .. k)
  <2>1. k \in Nat /\ \A i \in 1 .. k : ops'[i] = ops[i]
    BY <1>2, <1>4
  <2>. QED  BY <1>1, <2>1, AppliedPrefix
<1>7. ASSUME NEW j \in 0 .. Len(c)
      PROVE  Applied(ddir', ops', 1 .. l + j) = C(j)
  BY <1>1, <1>3, AppliedConcat
<1>8. dir' = Applied(ddir', ops', 1 .. Len(ops'))
  BY <1>2, <1>3, <1>4, <1>7
<1>9. ASSUME NEW d \in Possible'
      PROVE  d \in Possible \/ \E j \in 1 .. Len(c) : d = C(j)
  <2>1. PICK k \in 0 .. l + Len(c) : d = Applied(ddir', ops', 1 .. k)
    BY <1>4 DEF Possible
  <2>2. CASE k <= l
    <3>1. k \in 0 .. l
      BY <1>2, <2>2
    <3>. QED  BY <2>1, <3>1, <1>6 DEF Possible
  <2>3. CASE k > l
    <3>1. k - l \in 1 .. Len(c) /\ k - l \in 0 .. Len(c) /\ l + (k - l) = k
      BY <1>2, <2>3
    <3>2. d = C(k - l)
      BY <2>1, <3>1, <1>7
    <3>. QED  BY <3>1, <3>2
  <2>. QED  BY <2>2, <2>3, <1>2
<1>. QED  BY <1>1, <1>3, <1>4, <1>5, <1>6, <1>7, <1>8, <1>9

LEMMA DirIsPossible ==
  ASSUME TypeOK, dir = Applied(ddir, ops, 1 .. Len(ops))
  PROVE  dir \in Possible /\ Possible \subseteq Directory
<1>1. Len(ops) \in 0 .. Len(ops) /\ ddir \in Directory /\ Len(ops) \in Nat
  BY DEF TypeOK
<1>2. dir \in Possible
  BY <1>1 DEF Possible
<1>3. ASSUME NEW k \in 0 .. Len(ops) PROVE Applied(ddir, ops, 1 .. k) \in Directory
  <2>1. k \in Nat /\ \A i \in 1 .. k : ops[i] \in DirChange
    BY <1>1 DEF TypeOK
  <2>. QED  BY <1>1, <2>1, AppliedTyped
<1>. QED  BY <1>2, <1>3 DEF Possible

-----------------------------------------------------------------------------
(* Files.                                                                  *)

LEMMA ConstantsTyped ==
  ASSUME setup \in Setups
  PROVE  /\ MaxRounds \in Nat /\ Cap \in Nat \ {0} /\ SegMax \in Nat \ {0}
         /\ setup.rounds \in Nat /\ setup.rounds <= MaxRounds
         /\ Names \subseteq Nat /\ \A n \in Nat : n <= MaxRounds => n \in Names
<1>. QED  BY SpoolAssumption DEF SegMax, Names

LEMMA SegTyped ==
  ASSUME NEW d \in Directory, NEW n \in d.segs
  PROVE  n \in Names /\ n \in Nat
<1>. QED  BY SpoolAssumption DEF Directory, Names

LEMMA ChangeTyped ==
  ASSUME NEW x \in DirChange
  PROVE  /\ x.arg \in Names /\ x.arg \in Nat /\ x.op \in {"create", "unlink", "head"}
         /\ x = [op |-> x.op, arg |-> x.arg]
<1>. QED  BY SpoolAssumption DEF DirChange, Names

LEMMA FileIn ==
  ASSUME NEW D \in [Names -> File], NEW n \in Names
  PROVE  /\ n \in Nat /\ D[n] \in File
         /\ D[n].recs \in Seq(Record) /\ Len(D[n].recs) \in Nat
         /\ D[n].synced \in Nat /\ D[n].torn \in BOOLEAN /\ n + Len(D[n].recs) \in Nat
         /\ D[n] = [recs |-> D[n].recs, synced |-> D[n].synced, torn |-> D[n].torn]
         /\ \A i \in 1 .. Len(D[n].recs) :
              D[n].recs[i] \in Record /\ D[n].recs[i].seq \in Nat /\ D[n].recs[i].id \in Nat
<1>1. n \in Nat /\ D[n] \in File
  BY SpoolAssumption DEF Names
<1>2. D[n].recs \in Seq(Record) /\ D[n].synced \in Nat /\ D[n].torn \in BOOLEAN
      /\ D[n] = [recs |-> D[n].recs, synced |-> D[n].synced, torn |-> D[n].torn]
  BY <1>1 DEF File
<1>3. Len(D[n].recs) \in Nat
  BY <1>2
<1>4. n + Len(D[n].recs) \in Nat
  BY <1>1, <1>3
<1>5. ASSUME NEW i \in 1 .. Len(D[n].recs)
      PROVE  D[n].recs[i] \in Record /\ D[n].recs[i].seq \in Nat /\ D[n].recs[i].id \in Nat
  <2>1. D[n].recs[i] \in Record
    BY <1>2
  <2>. QED  BY <2>1 DEF Record
<1>. QED  BY <1>1, <1>2, <1>3, <1>4, <1>5

LEMMA FileTyped ==
  ASSUME TypeOK, NEW n \in Names
  PROVE  /\ n \in Nat /\ disk[n] \in File
         /\ disk[n].recs \in Seq(Record) /\ Len(disk[n].recs) \in Nat
         /\ disk[n].synced \in Nat /\ disk[n].torn \in BOOLEAN /\ End(n) \in Nat
         /\ disk[n] = [recs |-> disk[n].recs, synced |-> disk[n].synced, torn |-> disk[n].torn]
         /\ \A i \in 1 .. Len(disk[n].recs) :
              disk[n].recs[i] \in Record /\ disk[n].recs[i].seq \in Nat /\ disk[n].recs[i].id \in Nat
<1>1. disk \in [Names -> File]
  BY DEF TypeOK
<1>. QED  BY <1>1, FileIn DEF End

(* The file that a torn frame ends, or no longer ends.                     *)
LEMMA TornFile ==
  ASSUME TypeOK, NEW a \in Names, NEW b \in BOOLEAN,
         disk' = [disk EXCEPT ![a].torn = b]
  PROVE  /\ disk' \in [Names -> File]
         /\ \A n \in Names : disk'[n].recs = disk[n].recs /\ disk'[n].synced = disk[n].synced
         /\ \A n \in Names : n # a => disk'[n] = disk[n]
         /\ disk'[a].torn = b
<1>1. PICK f \in File : f = disk[a]
  BY FileTyped
<1>2. f = [recs |-> f.recs, synced |-> f.synced, torn |-> f.torn]
  BY DEF File
<1>3. [f EXCEPT !.torn = b] = [recs |-> f.recs, synced |-> f.synced, torn |-> b]
  BY <1>2
<1>4. disk \in [Names -> File]
  BY DEF TypeOK
<1>5. disk' = [disk EXCEPT ![a] = [recs |-> f.recs, synced |-> f.synced, torn |-> b]]
  BY <1>1, <1>3
<1>6. [recs |-> f.recs, synced |-> f.synced, torn |-> b] \in File
  BY DEF File
<1>7. disk' \in [Names -> File]
  BY <1>4, <1>5, <1>6
<1>8. /\ disk'[a] = [recs |-> f.recs, synced |-> f.synced, torn |-> b]
      /\ \A n \in Names : n # a => disk'[n] = disk[n]
  BY <1>4, <1>5
<1>9. disk'[a].recs = disk[a].recs /\ disk'[a].synced = disk[a].synced /\ disk'[a].torn = b
  BY <1>1, <1>8
<1>. QED  BY <1>7, <1>8, <1>9

LEMMA SyncedFileIs ==
  ASSUME TypeOK, NEW a \in Names
  PROVE  /\ SyncedFile(a) \in File
         /\ SyncedFile(a).recs = disk[a].recs /\ SyncedFile(a).torn = disk[a].torn
         /\ SyncedFile(a).synced = Len(disk[a].recs)
<1>1. PICK f \in File : f = disk[a]
  BY FileTyped
<1>2. f = [recs |-> f.recs, synced |-> f.synced, torn |-> f.torn]
  BY DEF File
<1>3. [f EXCEPT !.synced = Len(f.recs)] = [recs |-> f.recs, synced |-> Len(f.recs), torn |-> f.torn]
  BY <1>2
<1>4. SyncedFile(a) = [recs |-> f.recs, synced |-> Len(f.recs), torn |-> f.torn]
  BY <1>1, <1>3 DEF SyncedFile
<1>5. f.recs \in Seq(Record) /\ f.torn \in BOOLEAN /\ Len(f.recs) \in Nat
  BY DEF File
<1>. QED  BY <1>1, <1>4, <1>5 DEF File

LEMMA WrittenFile ==
  ASSUME TypeOK, NEW a \in Names, NEW r \in Record,
         disk' = [disk EXCEPT ![a].recs = Append(@, r)]
  PROVE  /\ disk' \in [Names -> File]
         /\ \A n \in Names : n # a => disk'[n] = disk[n]
         /\ disk'[a].recs = Append(disk[a].recs, r)
         /\ disk'[a].synced = disk[a].synced /\ disk'[a].torn = disk[a].torn
<1>1. PICK f \in File : f = disk[a]
  BY FileTyped
<1>2. f = [recs |-> f.recs, synced |-> f.synced, torn |-> f.torn]
  BY DEF File
<1>. DEFINE g == [recs |-> Append(f.recs, r), synced |-> f.synced, torn |-> f.torn]
<1>3. [f EXCEPT !.recs = Append(f.recs, r)] = g
  BY <1>2
<1>4. disk \in [Names -> File]
  BY DEF TypeOK
<1>5. disk' = [disk EXCEPT ![a] = g]
  BY <1>1, <1>3
<1>6. g \in File
  <2>1. f.recs \in Seq(Record) /\ f.synced \in Nat /\ f.torn \in BOOLEAN
    BY DEF File
  <2>2. Append(f.recs, r) \in Seq(Record)
    BY <2>1, AppendProperties
  <2>. QED  BY <2>1, <2>2 DEF File
<1>. QED  BY <1>1, <1>4, <1>5, <1>6

LEMMA EmptyIs ==
  Empty \in File /\ Empty.recs = <<>> /\ Empty.synced = 0 /\ Empty.torn = FALSE /\ Len(Empty.recs) = 0
<1>. QED  BY EmptySeq DEF Empty, File

-----------------------------------------------------------------------------
(* Contiguous segments.                                                    *)

LEMMA EndBelowTop ==
  ASSUME TypeOK, NEW d \in Directory, Contiguous(d),
         NEW top \in d.segs, \A m \in d.segs : m <= top, NEW n \in d.segs
  PROVE  End(n) <= End(top)
<1>1. n \in Names /\ top \in Names
  BY DEF Directory
<1>2. End(n) \in Nat /\ End(top) \in Nat /\ n \in Nat /\ top \in Nat /\ Len(disk[top].recs) \in Nat
  BY <1>1, FileTyped
<1>4. top <= End(top)
  BY <1>2 DEF End
<1>3. n < top => End(n) <= top
  BY DEF Contiguous
<1>. QED  BY <1>2, <1>3, <1>4

(* Every number between the first segment and the end of the last is that  *)
(* of a record.                                                            *)
LEMMA Covered ==
  ASSUME TypeOK, NEW d \in Directory, Contiguous(d),
         NEW top \in d.segs, \A m \in d.segs : m <= top,
         NEW s \in Nat, \E m \in d.segs : m <= s, s < End(top)
  PROVE  \E n \in d.segs : n <= s /\ s < End(n) /\ s - n + 1 \in 1 .. Len(disk[n].recs)
<1>. DEFINE T == {m \in d.segs : m <= s}
<1>1. T \in SUBSET Nat /\ T # {} /\ \A m \in T : m <= s
  BY SpoolAssumption DEF Directory, Names
<1>2. PICK n \in T : \A m \in T : m <= n
  BY <1>1, GreatestNumber
<1>3. n \in d.segs /\ n \in Names /\ n <= s /\ n \in Nat /\ End(n) \in Nat /\ Len(disk[n].recs) \in Nat
  <2>1. n \in Names
    BY DEF Directory
  <2>. QED  BY <2>1, FileTyped
<1>4. s < End(n)
  <2>1. CASE n = top
    BY <2>1
  <2>2. CASE n # top
    <3>1. n < top /\ top \in Nat
      BY <1>3, <2>2, SpoolAssumption DEF Directory, Names
    <3>2. n < End(n) /\ End(n) \in d.segs
      BY <1>3, <3>1 DEF Contiguous
    <3>3. ~(End(n) <= s)
      BY <1>2, <1>3, <3>2
    <3>. QED  BY <1>3, <3>3
  <2>. QED  BY <2>1, <2>2
<1>5. s - n + 1 \in 1 .. Len(disk[n].recs)
  BY <1>3, <1>4 DEF End
<1>. QED  BY <1>3, <1>4, <1>5

(* No number is that of two records.                                       *)
LEMMA NoOverlap ==
  ASSUME TypeOK, NEW d \in Directory, Contiguous(d), NEW m \in d.segs, NEW n \in d.segs,
         NEW i \in 1 .. Len(disk[m].recs), NEW j \in 1 .. Len(disk[n].recs), m + i = n + j
  PROVE  m = n /\ i = j
<1>1. m \in Names /\ n \in Names
  BY DEF Directory
<1>2. m \in Nat /\ n \in Nat /\ Len(disk[m].recs) \in Nat /\ Len(disk[n].recs) \in Nat
  BY <1>1, FileTyped
<1>3. ~(m < n)
  <2>1. m < n => m + Len(disk[m].recs) <= n
    BY DEF Contiguous, End
  <2>. QED  BY <1>2, <2>1
<1>4. ~(n < m)
  <2>1. n < m => n + Len(disk[n].recs) <= m
    BY DEF Contiguous, End
  <2>. QED  BY <1>2, <2>1
<1>. QED  BY <1>2, <1>3, <1>4

LEMMA HeadBelowEnd ==
  ASSUME TypeOK, FilesOK, NEW d \in Directory, Contiguous(d), Reaches(d),
         NEW top \in d.segs, \A m \in d.segs : m <= top
  PROVE  d.head <= End(top)
<1>1. PICK n \in d.segs : d.head <= n + disk[n].synced
  BY DEF Reaches
<1>2. n \in Names /\ top \in Names /\ d.head \in Nat
  BY DEF Directory
<1>3. End(n) <= End(top)
  BY EndBelowTop
<1>4. disk[n].synced <= Len(disk[n].recs)
  BY <1>2 DEF FilesOK
<1>5. /\ n \in Nat /\ disk[n].synced \in Nat /\ Len(disk[n].recs) \in Nat
      /\ End(top) \in Nat /\ End(n) = n + Len(disk[n].recs)
  BY <1>2, FileTyped DEF End
<1>. QED  BY <1>1, <1>2, <1>3, <1>4, <1>5
-----------------------------------------------------------------------------
(* What keeps a directory good.                                            *)

(* A file of directory d that a step leaves as it was, synchronises, or,   *)
(* when it is the last of d, extends.                                      *)
Grows(d, n) ==
  /\ Len(disk[n].recs) <= Len(disk'[n].recs)
  /\ \A i \in 1 .. Len(disk[n].recs) : disk'[n].recs[i] = disk[n].recs[i]
  /\ disk[n].synced <= disk'[n].synced
  /\ Len(disk'[n].recs) # Len(disk[n].recs) =>
       (\A m \in d.segs : m <= n) /\ n + Len(disk'[n].recs) <= measured'

LEMMA GoodDirKept ==
  ASSUME TypeOK, TypeOK', FilesOK, NEW d \in Directory, GoodDir(d),
         hub \subseteq hub', dropped \subseteq dropped', measured <= measured',
         \A n \in d.segs : Grows(d, n)
  PROVE  /\ Contiguous(d)' /\ Reaches(d)' /\ Bounded(d)' /\ Retired(d)'
         /\ promised' = promised => Keeps(d)'
<1>1. d.segs \subseteq Names /\ d.head \in Nat
  BY DEF Directory
<1>2. ASSUME NEW n \in d.segs
      PROVE  /\ n \in Names /\ n \in Nat /\ Len(disk[n].recs) \in Nat /\ Len(disk'[n].recs) \in Nat
             /\ disk[n].synced \in Nat /\ disk'[n].synced \in Nat
             /\ End(n) = n + Len(disk[n].recs) /\ End(n)' = n + Len(disk'[n].recs)
             /\ disk[n].synced <= Len(disk[n].recs)
  <2>1. n \in Names /\ disk' \in [Names -> File]
    BY <1>1 DEF TypeOK
  <2>2. disk[n].synced <= Len(disk[n].recs)
    BY <2>1 DEF FilesOK
  <2>. QED  BY <2>1, <2>2, FileTyped, FileIn DEF End
<1>3. Contiguous(d)'
  <2>1. ASSUME NEW m \in d.segs, NEW n \in d.segs, m < n
        PROVE  m < End(m)' /\ End(m)' <= n /\ End(m)' \in d.segs
    <3>1. ~(n <= m)
      BY <1>2, <2>1
    <3>2. Len(disk'[m].recs) = Len(disk[m].recs)
      BY <3>1 DEF Grows
    <3>3. m < End(m) /\ End(m) <= n /\ End(m) \in d.segs
      BY <2>1 DEF GoodDir, Contiguous
    <3>. QED  BY <1>2, <3>2, <3>3
  <2>. QED  BY <2>1 DEF Contiguous
<1>4. Reaches(d)'
  <2>1. ASSUME d.segs # {}
        PROVE  (\E m \in d.segs : m <= d.head) /\ \E n \in d.segs : d.head <= n + disk'[n].synced
    <3>1. PICK n \in d.segs : d.head <= n + disk[n].synced
      BY <2>1 DEF GoodDir, Reaches
    <3>2. disk[n].synced <= disk'[n].synced
      BY DEF Grows
    <3>3. d.head <= n + disk'[n].synced
      BY <1>1, <1>2, <3>1, <3>2
    <3>. QED  BY <2>1, <3>3 DEF GoodDir, Reaches
  <2>. QED  BY <2>1 DEF Reaches
<1>5. Bounded(d)'
  <2>1. measured \in Nat /\ measured' \in Nat
    BY DEF TypeOK
  <2>2. ASSUME NEW n \in d.segs PROVE End(n)' <= measured'
    <3>1. End(n) <= measured
      BY DEF GoodDir, Bounded
    <3>2. CASE Len(disk'[n].recs) = Len(disk[n].recs)
      BY <1>2, <2>1, <3>1, <3>2
    <3>3. CASE Len(disk'[n].recs) # Len(disk[n].recs)
      BY <1>2, <3>3 DEF Grows
    <3>. QED  BY <3>2, <3>3
  <2>3. d.head <= measured'
    BY <1>1, <2>1 DEF GoodDir, Bounded
  <2>. QED  BY <2>2, <2>3 DEF Bounded
<1>6. Settled \subseteq Settled'
  BY DEF Settled
<1>7. Retired(d)'
  <2>1. ASSUME NEW n \in d.segs, NEW i \in 1 .. Len(disk'[n].recs), n + i - 1 < d.head
        PROVE  disk'[n].recs[i].id \in Settled'
    <3>1. CASE i <= Len(disk[n].recs)
      <4>1. i \in 1 .. Len(disk[n].recs)
        BY <1>2, <3>1
      <4>2. disk[n].recs[i].id \in Settled
        BY <2>1, <4>1 DEF GoodDir, Retired
      <4>3. disk'[n].recs[i] = disk[n].recs[i]
        BY <4>1 DEF Grows
      <4>. QED  BY <1>6, <4>2, <4>3
    <3>2. CASE i > Len(disk[n].recs)
      <4>1. \A m \in d.segs : m <= n
        BY <1>2, <3>2 DEF Grows
      <4>2. d.head <= End(n)
        BY <4>1, HeadBelowEnd DEF GoodDir
      <4>. QED  BY <1>1, <1>2, <2>1, <3>2, <4>2
    <3>. QED  BY <1>2, <3>1, <3>2
  <2>. QED  BY <2>1 DEF Retired
<1>8. ASSUME promised' = promised PROVE Keeps(d)'
  <2>1. ASSUME NEW id \in promised \ Settled'
        PROVE  \E n \in d.segs : \E i \in 1 .. disk'[n].synced :
                 disk'[n].recs[i].id = id /\ d.head <= n + i - 1
    <3>1. id \in promised \ Settled
      BY <1>6
    <3>2. PICK n \in d.segs : \E i \in 1 .. disk[n].synced :
            disk[n].recs[i].id = id /\ d.head <= n + i - 1
      BY <3>1 DEF GoodDir, Keeps
    <3>5. PICK i \in 1 .. disk[n].synced : disk[n].recs[i].id = id /\ d.head <= n + i - 1
      BY <3>2
    <3>3. i \in 1 .. disk'[n].synced /\ i \in 1 .. Len(disk[n].recs)
      BY <1>2 DEF Grows
    <3>4. disk'[n].recs[i] = disk[n].recs[i]
      BY <3>3 DEF Grows
    <3>. QED  BY <3>5, <3>3, <3>4
  <2>. QED  BY <1>8, <2>1 DEF Keeps
<1>. QED  BY <1>3, <1>4, <1>5, <1>7, <1>8
(* Rounds are only ever delivered, evicted and measured.                   *)
Accounts == hub \subseteq hub' /\ dropped \subseteq dropped' /\ measured <= measured'

(* A file that a step leaves, synchronises, tears or mends, or, when it is *)
(* the newest visible one, extends.                                        *)
FileGrows(n) ==
  /\ Len(disk[n].recs) <= Len(disk'[n].recs)
  /\ \A i \in 1 .. Len(disk[n].recs) : disk'[n].recs[i] = disk[n].recs[i]
  /\ disk[n].synced <= disk'[n].synced
  /\ Len(disk'[n].recs) # Len(disk[n].recs) => Visible(n) /\ n + Len(disk'[n].recs) <= measured'
  /\ Unsynced(n)' => Unsynced(n) \/ Visible(n)

(* The newest visible segment stays.                                       *)
NewestStays ==
  /\ \A n \in dir.segs : \E m \in dir'.segs : n <= m
  /\ \A n \in dir.segs : Visible(n) => Visible(n)'

LEMMA DirsPreserved ==
  ASSUME SpoolInv, TypeOK', Accounts, NewestStays, promised' = promised,
         dir' = Applied(ddir', ops', 1 .. Len(ops')),
         \A d \in Possible' : d \in Possible \/ (GoodDir(d)' /\ BelowVisible(d)'),
         \A d \in Possible : \A n \in d.segs : FileGrows(n)
  PROVE  DirsOK'
<1>1. TypeOK /\ FilesOK /\ DirsOK /\ dir \in Directory /\ dir' \in Directory
  BY DEF SpoolInv, TypeOK
<1>2. Possible \subseteq Directory
  BY <1>1, DirIsPossible DEF DirsOK
<1>3. ASSUME NEW d \in Possible PROVE GoodDir(d)' /\ BelowVisible(d)'
  <2>1. d \in Directory /\ GoodDir(d) /\ BelowVisible(d)
    BY <1>1, <1>2 DEF DirsOK
  <2>2. ASSUME NEW n \in d.segs, Visible(n) PROVE \A m \in d.segs : m <= n
    <3>1. ASSUME NEW m \in d.segs PROVE m <= n
      <4>1. PICK v \in dir.segs : m <= v
        BY <2>1 DEF BelowVisible
      <4>2. v <= n
        BY <2>2, <4>1 DEF Visible
      <4>3. m \in Nat /\ v \in Nat /\ n \in Nat
        BY <1>1, <2>1, SegTyped
      <4>. QED  BY <4>1, <4>2, <4>3
    <3>. QED  BY <3>1
  <2>3. ASSUME NEW n \in d.segs PROVE Grows(d, n)
    BY <2>2 DEF FileGrows, Grows
  <2>4. GoodDir(d)'
    BY <1>1, <2>1, <2>3, GoodDirKept DEF Accounts, GoodDir
  <2>5. ASSUME NEW n \in d.segs
        PROVE  (\E m \in dir'.segs : n <= m) /\ (Unsynced(n)' => Visible(n)')
    <3>1. PICK v \in dir.segs : n <= v
      BY <2>1 DEF BelowVisible
    <3>2. PICK m \in dir'.segs : v <= m
      BY DEF NewestStays
    <3>3. n \in Nat /\ v \in Nat /\ m \in Nat
      BY <1>1, <2>1, SegTyped
    <3>4. n <= m
      BY <3>1, <3>2, <3>3
    <3>5. Unsynced(n)' => Visible(n)
      BY <2>1 DEF FileGrows, BelowVisible
    <3>6. Visible(n) => Visible(n)'
      BY DEF NewestStays, Visible
    <3>. QED  BY <3>4, <3>5, <3>6
  <2>6. BelowVisible(d)'
    BY <2>5 DEF BelowVisible
  <2>. QED  BY <2>4, <2>6
<1>. QED  BY <1>3 DEF DirsOK

LEMMA UnlinksPreserved ==
  ASSUME SpoolInv, TypeOK', ddir' = ddir, Len(ops) <= Len(ops'),
         \A i \in 1 .. Len(ops) : ops'[i] = ops[i],
         \A n \in dir.segs : \E m \in dir'.segs : n <= m,
         dir.segs # {} => dir'.segs \subseteq dir.segs,
         dir.segs # {} => \A n \in Names \ dir.segs : disk'[n].recs = disk[n].recs,
         \A i \in Len(ops) + 1 .. Len(ops'), n \in Names : ops'[i] = Unlink(n) =>
           /\ n \notin dir'.segs
           /\ \E m \in dir'.segs : n < m
           /\ MaxSeq(n)' < Applied(ddir', ops', 1 .. i).head
  PROVE  UnlinksOK'
<1>1. /\ TypeOK /\ UnlinksOK /\ dir \in Directory /\ dir' \in Directory
      /\ ops \in Seq(DirChange) /\ ops' \in Seq(DirChange)
  BY DEF SpoolInv, TypeOK
<1>2. Len(ops) \in Nat /\ Len(ops') \in Nat
  BY <1>1
<1>3. ASSUME NEW i \in 1 .. Len(ops'), NEW n \in Names, ops'[i] = Unlink(n)
      PROVE  /\ n \notin dir'.segs
             /\ \E m \in dir'.segs : n < m
             /\ MaxSeq(n)' < Applied(ddir', ops', 1 .. i).head
  <2>1. CASE i > Len(ops)
    <3>1. i \in Len(ops) + 1 .. Len(ops')
      BY <1>2, <2>1
    <3>. QED  BY <1>3, <3>1
  <2>2. CASE i <= Len(ops)
    <3>1. i \in 1 .. Len(ops) /\ i \in Nat /\ ops[i] = Unlink(n)
      BY <1>2, <1>3, <2>2
    <3>2. ops[i].op = "unlink" /\ ops[i].arg = n
      BY <3>1 DEF Unlink
    <3>3. /\ n \notin dir.segs /\ \E m \in dir.segs : n < m
          /\ MaxSeq(n) < Applied(ddir, ops, 1 .. i).head
      BY <1>1, <3>1, <3>2 DEF UnlinksOK
    <3>4. disk'[n].recs = disk[n].recs
      BY <3>3
    <3>5. MaxSeq(n)' = MaxSeq(n)
      BY <3>4 DEF MaxSeq
    <3>6. Applied(ddir', ops', 1 .. i) = Applied(ddir, ops, 1 .. i)
      <4>1. \A j \in 1 .. i : ops'[j] = ops[j]
        BY <1>2, <3>1
      <4>. QED  BY <3>1, <4>1, AppliedPrefix
    <3>7. PICK m \in dir.segs : n < m
      BY <3>3
    <3>8. PICK v \in dir'.segs : m <= v
      OBVIOUS
    <3>9. m \in Nat /\ v \in Nat /\ n \in Nat
      BY <1>1, SegTyped, SpoolAssumption DEF Names
    <3>10. n < v
      BY <3>7, <3>8, <3>9
    <3>. QED  BY <3>3, <3>5, <3>6, <3>10
  <2>. QED  BY <2>1, <2>2, <1>2
<1>4. ASSUME NEW i \in 1 .. Len(ops'), ops'[i].op = "unlink"
      PROVE  ops'[i].arg \in Names /\ ops'[i] = Unlink(ops'[i].arg)
  <2>1. ops'[i] \in DirChange
    BY <1>1
  <2>2. PICK x \in DirChange : x = ops'[i]
    BY <2>1
  <2>. QED  BY <1>4, <2>2, ChangeTyped DEF Unlink
<1>5. ASSUME NEW i \in 1 .. Len(ops'), ops'[i].op = "unlink"
      PROVE  /\ ops'[i].arg \notin dir'.segs
             /\ \E m \in dir'.segs : ops'[i].arg < m
             /\ (IF disk'[ops'[i].arg].recs = <<>> THEN -1 ELSE Last(disk'[ops'[i].arg].recs).seq)
                  < Applied(ddir', ops', 1 .. i).head
  <2>1. PICK n \in Names : n = ops'[i].arg /\ ops'[i] = Unlink(n)
    BY <1>4, <1>5
  <2>. QED  BY <1>3, <2>1 DEF MaxSeq
<1>. QED  BY <1>5 DEF UnlinksOK, MaxSeq
-----------------------------------------------------------------------------
(* The buffer and the spool side by side.                                  *)

LEMMA BufferTyped ==
  ASSUME TypeOK
  PROVE  /\ rounds \in Seq(Nat) /\ Len(rounds) \in Nat /\ DOMAIN rounds = 1 .. Len(rounds)
         /\ pending \in Seq(Record) /\ Len(pending) \in Nat /\ DOMAIN pending = 1 .. Len(pending)
         /\ headSeq \in Nat /\ head \in Nat /\ headDurable \in Nat /\ measured \in Nat
         /\ upto \in Int /\ staging \in BOOLEAN /\ active \in Names /\ active \in Nat
         /\ End(active) \in Nat /\ Len(disk[active].recs) \in Nat
         /\ dir \in Directory /\ ddir \in Directory /\ ops \in Seq(DirChange) /\ Len(ops) \in Nat
         /\ disk \in [Names -> File]
         /\ \A i \in 1 .. Len(pending) : pending[i] \in Record
              /\ pending[i].seq \in Nat /\ pending[i].id \in Nat
<1>1. rounds \in Seq(Nat) /\ pending \in Seq(Record) /\ ops \in Seq(DirChange)
  BY DEF TypeOK
<1>2. active \in Names /\ measured \in Nat
  BY DEF TypeOK
<1>3. active \in Nat /\ End(active) \in Nat /\ Len(disk[active].recs) \in Nat
  BY <1>2, FileTyped
<1>4. ASSUME NEW i \in 1 .. Len(pending)
      PROVE  pending[i] \in Record /\ pending[i].seq \in Nat /\ pending[i].id \in Nat
  <2>1. pending[i] \in Record
    BY <1>1
  <2>. QED  BY <2>1 DEF Record
<1>. QED  BY <1>1, <1>2, <1>3, <1>4 DEF TypeOK

(* What is visible on disk ends where the staged records begin.            *)
LEMMA StoredBelow ==
  ASSUME SpoolInv, Mirroring
  PROVE  /\ \A n \in dir.segs : End(n) <= End(active)
         /\ \E top \in dir.segs : Visible(top) /\ End(top) = End(active)
<1>1. /\ TypeOK /\ dir \in Directory /\ Contiguous(dir) /\ active \in dir.segs
      /\ pc # "roll" => Visible(active)
      /\ pc = "roll" => Visible(End(active)) /\ disk[End(active)].recs = <<>>
  BY DirIsPossible DEF SpoolInv, DirsOK, GoodDir, MirrorOK, TypeOK
<1>2. \E top \in dir.segs : Visible(top) /\ End(top) = End(active)
  <2>1. CASE pc # "roll"
    BY <1>1, <2>1
  <2>2. CASE pc = "roll"
    <3>1. PICK top \in dir.segs : top = End(active) /\ Visible(top) /\ disk[top].recs = <<>>
      BY <1>1, <2>2 DEF Visible
    <3>2. top \in Nat /\ Len(disk[top].recs) = 0
      BY <1>1, <3>1, SegTyped
    <3>3. End(top) = top
      BY <3>2 DEF End
    <3>. QED  BY <3>1, <3>3
  <2>. QED  BY <2>1, <2>2
<1>3. PICK top \in dir.segs : Visible(top) /\ End(top) = End(active)
  BY <1>2
<1>4. \A n \in dir.segs : End(n) <= End(top)
  BY <1>1, <1>3, EndBelowTop DEF Visible
<1>. QED  BY <1>2, <1>3, <1>4

LEMMA StoredRecord ==
  ASSUME SpoolInv, Mirroring, NEW n \in dir.segs, NEW i \in 1 .. Len(disk[n].recs)
  PROVE  /\ disk[n].recs[i] \in Record /\ disk[n].recs[i].seq \in Nat
         /\ disk[n].recs[i].seq = n + i - 1
         /\ disk[n].recs[i].seq < End(active)
         /\ disk[n].recs[i].seq < headSeq + Len(rounds)
         /\ Reflects(disk[n].recs[i])
<1>1. TypeOK /\ n \in Names /\ n \in Nat /\ FilesOK /\ MirrorOK
  BY SegTyped DEF SpoolInv, TypeOK
<1>2. disk[n].recs[i] \in Record /\ disk[n].recs[i].seq \in Nat /\ Len(disk[n].recs) \in Nat
  BY <1>1, FileTyped
<1>3. disk[n].recs[i].seq = n + i - 1
  BY <1>1 DEF FilesOK
<1>4. End(n) <= End(active) /\ End(n) = n + Len(disk[n].recs)
  BY StoredBelow DEF End
<1>5. End(active) <= headSeq + Len(rounds)
  BY <1>1, BufferTyped DEF MirrorOK
<1>6. End(active) \in Nat /\ headSeq + Len(rounds) \in Nat
  BY <1>1, BufferTyped
<1>7. Reflects(disk[n].recs[i])
  BY <1>1 DEF MirrorOK
<1>. QED  BY <1>1, <1>2, <1>3, <1>4, <1>5, <1>6, <1>7

LEMMA StagedRecord ==
  ASSUME SpoolInv, Mirroring, NEW i \in 1 .. Len(pending)
  PROVE  /\ pending[i] \in Record /\ pending[i].seq \in Nat
         /\ pending[i].seq = End(active) + i - 1
         /\ pending[i].seq < headSeq + Len(rounds)
         /\ Reflects(pending[i])
<1>1. TypeOK /\ MirrorOK
  BY DEF SpoolInv
<1>. QED  BY <1>1, BufferTyped DEF MirrorOK

(* The buffer gives up its first k rounds.                                 *)
LEMMA ReflectsShifted ==
  ASSUME TypeOK, NEW k \in 0 .. Len(rounds), headSeq' = headSeq + k,
         \A i \in 1 .. Len(rounds) - k : rounds'[i] = rounds[i + k],
         \A i \in 1 .. k : rounds[i] \in Settled', Settled \subseteq Settled',
         NEW r, r.seq \in Nat, r.seq < headSeq + Len(rounds), Reflects(r)
  PROVE  Reflects(r)'
<1>1. headSeq \in Nat /\ Len(rounds) \in Nat
  BY BufferTyped
<1>2. CASE r.seq < headSeq
  <2>1. r.seq < headSeq + k /\ r.id \in Settled'
    BY <1>1, <1>2 DEF Reflects
  <2>. QED  BY <2>1 DEF Reflects
<1>3. CASE r.seq >= headSeq /\ r.seq < headSeq + k
  <2>1. r.id = rounds[r.seq - headSeq + 1] /\ r.seq - headSeq + 1 \in 1 .. k
    BY <1>1, <1>3 DEF Reflects
  <2>2. r.id \in Settled'
    BY <2>1
  <2>. QED  BY <1>3, <2>2 DEF Reflects
<1>4. CASE r.seq >= headSeq + k
  <2>1. r.id = rounds[r.seq - headSeq + 1] /\ ~(r.seq < headSeq + k)
    BY <1>1, <1>4 DEF Reflects
  <2>2. r.seq - (headSeq + k) + 1 \in 1 .. Len(rounds) - k
    BY <1>1, <1>4
  <2>3. rounds'[r.seq - (headSeq + k) + 1] = rounds[r.seq - headSeq + 1]
    <3>1. r.seq - (headSeq + k) + 1 + k = r.seq - headSeq + 1
      BY <1>1
    <3>. QED  BY <2>2, <3>1
  <2>. QED  BY <2>1, <2>3 DEF Reflects
<1>. QED  BY <1>1, <1>2, <1>3, <1>4

(* Steps that touch no file.                                               *)
LEMMA FilesUnchanged ==
  ASSUME SpoolInv, TypeOK', UNCHANGED <<setup, disk, dir, ddir, ops, promised>>, Accounts
  PROVE  FilesOK' /\ DirsOK' /\ UnlinksOK'
<1>1. TypeOK /\ FilesOK /\ DirsOK /\ UnlinksOK /\ dir \in Directory
  BY DEF SpoolInv, TypeOK
<1>2. FilesOK'
  BY <1>1 DEF FilesOK, SegMax
<1>3. Possible' = Possible /\ dir' = Applied(ddir', ops', 1 .. Len(ops'))
  BY <1>1 DEF Possible, DirsOK
<1>4. NewestStays
  <2>1. \A n \in dir.segs : n <= n
    BY <1>1, SegTyped
  <2>. QED  BY <2>1 DEF NewestStays, Visible
<1>5. ASSUME NEW d \in Possible, NEW n \in d.segs PROVE FileGrows(n)
  <2>1. d \in Directory
    BY <1>1, <1>5, DirIsPossible DEF DirsOK
  <2>2. Len(disk[n].recs) \in Nat /\ disk[n].synced \in Nat
    BY <1>1, <1>5, <2>1, SegTyped, FileTyped
  <2>. QED  BY <2>2 DEF FileGrows, Unsynced
<1>6. DirsOK'
  BY <1>3, <1>4, <1>5, DirsPreserved
<1>7. UnlinksOK'
  BY <1>1 DEF UnlinksOK, MaxSeq
<1>. QED  BY <1>2, <1>6, <1>7
-----------------------------------------------------------------------------
(* The steps of the buffer.                                                *)

(* A step of the buffer in a running agent: it gives up its first k        *)
(* rounds, and touches nothing of the spool but the staged watermark.      *)
LEMMA BufferStep ==
  ASSUME SpoolInv, TypeOK', Journaled, status = "up", NEW k \in 0 .. Len(rounds),
         headSeq' = headSeq + k,
         \A i \in 1 .. Len(rounds) - k : rounds'[i] = rounds[i + k],
         \A i \in 1 .. k : rounds[i] \in Settled',
         UNCHANGED <<files, status, pc, closing, degraded, headDurable, active, promised, setup>>,
         pending' = pending \/ ~Mirrored, Accounts,
         Mirrored => head' = headSeq',
         MutexFree \/ k = 0,
         \/ staging' = staging /\ headSeq' + Len(rounds') = headSeq + Len(rounds)
         \/ ~staging /\ staging' /\ headSeq' + Len(rounds') = headSeq + Len(rounds) + 1,
         BufferOK'
  PROVE  SpoolInv'
<1>1. TypeOK /\ MirrorOK /\ FlushOK /\ DownOK
  BY DEF SpoolInv
<1>2. FilesOK' /\ DirsOK' /\ UnlinksOK'
  BY FilesUnchanged DEF files
<1>3. DownOK'
  BY <1>1 DEF DownOK, files, MutexFree
<1>4. Mirroring' <=> Mirroring
  BY DEF Mirroring, Mirrored, files
<1>5. Settled \subseteq Settled'
  BY DEF Settled, Accounts
<1>6. MirrorOK'
  <2>. SUFFICES ASSUME Mirroring PROVE MirrorOK'
    BY <1>4 DEF MirrorOK
  <2>1. /\ pending' = pending /\ head' = headSeq' /\ disk' = disk /\ dir' = dir
        /\ active' = active /\ pc' = pc
    BY DEF Mirroring, files
  <2>2. ASSUME NEW n \in dir.segs, NEW i \in 1 .. Len(disk[n].recs)
        PROVE  Reflects(disk[n].recs[i])'
    <3>1. PICK r : r = disk[n].recs[i]
      OBVIOUS
    <3>2. r.seq \in Nat /\ r.seq < headSeq + Len(rounds) /\ Reflects(r)
      BY <3>1, StoredRecord
    <3>3. Reflects(r)'
      BY <1>1, <1>5, <3>2, ReflectsShifted
    <3>. QED  BY <2>1, <3>1, <3>3 DEF Reflects
  <2>3. ASSUME NEW i \in 1 .. Len(pending) PROVE Reflects(pending[i])'
    <3>1. PICK r : r = pending[i]
      OBVIOUS
    <3>2. r.seq \in Nat /\ r.seq < headSeq + Len(rounds) /\ Reflects(r)
      BY <3>1, StagedRecord
    <3>3. Reflects(r)'
      BY <1>1, <1>5, <3>2, ReflectsShifted
    <3>. QED  BY <2>1, <3>1, <3>3 DEF Reflects
  <2>4. headSeq' + Len(rounds') = End(active) + Len(pending) + (IF staging' THEN 1 ELSE 0)
    <3>1. headSeq + Len(rounds) = End(active) + Len(pending) + (IF staging THEN 1 ELSE 0)
      BY <1>1 DEF MirrorOK
    <3>2. End(active) \in Nat /\ Len(pending) \in Nat /\ headSeq \in Nat /\ Len(rounds) \in Nat
      BY <1>1, BufferTyped
    <3>3. staging \in BOOLEAN /\ staging' \in BOOLEAN
      BY DEF SpoolInv, TypeOK
    <3>. QED  BY <3>1, <3>2, <3>3
  <2>5. /\ active \in dir.segs
        /\ \A n \in dir.segs : ~disk[n].torn
        /\ pc # "roll" => Visible(active)
        /\ pc = "roll" => /\ pending # <<>> /\ active < End(active)
                          /\ Visible(End(active)) /\ disk[End(active)].recs = <<>>
        /\ \A i \in 1 .. Len(pending) : pending[i].seq = End(active) + i - 1
    BY <1>1 DEF MirrorOK
  <2>. QED  BY <2>1, <2>2, <2>3, <2>4, <2>5 DEF MirrorOK, Visible, End
<1>7. FlushOK'
  <2>. SUFFICES ASSUME Mirroring PROVE FlushOK'
    BY <1>4 DEF FlushOK
  <2>1. /\ pending' = pending /\ head' = headSeq + k /\ disk' = disk /\ dir' = dir
        /\ active' = active /\ pc' = pc /\ headDurable' = headDurable
        /\ k \in Nat
    BY BufferTyped, <1>1 DEF Mirroring, files
  <2>2. /\ head = headSeq /\ head \in Nat /\ headDurable \in Nat
    BY <1>1, BufferTyped DEF MirrorOK
  <2>3. pc = "headSync" => head' = head
    BY <2>1, <2>2 DEF MutexFree
  <2>. QED  BY <1>1, <2>1, <2>2, <2>3 DEF FlushOK
<1>. QED  BY <1>2, <1>3, <1>6, <1>7 DEF SpoolInv
LEMMA AddRoundStep ==
  ASSUME SpoolInv, setup \in Setups, Journaled, AddRound
  PROVE  SpoolInv'
<1>1. TypeOK /\ BufferOK /\ MirrorOK /\ status = "up" /\ ~staging /\ measured < setup.rounds
  BY DEF SpoolInv, AddRound
<1>2. /\ rounds \in Seq(Nat) /\ Len(rounds) \in Nat /\ headSeq \in Nat /\ head \in Nat
      /\ measured \in Nat /\ upto \in Int /\ setup.rounds \in Nat /\ Cap \in Nat \ {0}
  BY <1>1, BufferTyped, ConstantsTyped
<1>3. /\ UNCHANGED <<disk, dir, ddir, ops, status, pc, closing, degraded, headDurable, active>>
      /\ UNCHANGED <<pending, upto, hub, promised, setup, kills, losses, errors>>
      /\ measured' = measured + 1 /\ staging' = TRUE
  BY DEF AddRound, files, flusher, faults
<1>. DEFINE Shape(k) ==
       /\ Len(rounds') = Len(rounds) + 1 - k /\ headSeq' = headSeq + k
       /\ \A i \in 1 .. Len(rounds) - k : rounds'[i] = rounds[i + k]
       /\ rounds'[Len(rounds) + 1 - k] = measured
       /\ rounds' \in Seq(Nat)
       /\ dropped' = dropped \cup {rounds[i] : i \in 1 .. k}
       /\ MutexFree \/ k = 0
       /\ Mirrored => head' = headSeq'
       /\ head' \in Nat
       /\ Len(rounds) + 1 - k <= Cap
<1>4. PICK k \in 0 .. Len(rounds) : k \in {0, 1} /\ Shape(k)
  <2>0. Mirrored => head = headSeq
    BY <1>1 DEF MirrorOK, Mirroring
  <2>1. CASE Len(rounds) < Cap
    <3>1. rounds' = Append(rounds, measured) /\ headSeq' = headSeq /\ head' = head /\ dropped' = dropped
      BY <2>1 DEF AddRound
    <3>2. /\ rounds' \in Seq(Nat) /\ Len(rounds') = Len(rounds) + 1
          /\ \A i \in 1 .. Len(rounds) : rounds'[i] = rounds[i]
          /\ rounds'[Len(rounds) + 1] = measured
      BY <1>2, <3>1, AppendProperties
    <3>3. Shape(0)
      BY <1>2, <2>0, <2>1, <3>1, <3>2
    <3>4. 0 \in 0 .. Len(rounds)
      BY <1>2
    <3>. QED  BY <3>3, <3>4
  <2>2. CASE ~(Len(rounds) < Cap)
    <3>1. Len(rounds) = Cap /\ rounds # <<>>
      BY <1>1, <1>2, <2>2 DEF BufferOK
    <3>2. /\ rounds' = Append(Tail(rounds), measured) /\ headSeq' = headSeq + 1 /\ MutexFree
          /\ AdvanceHead(headSeq + 1) /\ dropped' = dropped \cup {rounds[1]}
      BY <2>2 DEF AddRound, AdvanceHead
    <3>3. /\ Tail(rounds) \in Seq(Nat) /\ Len(Tail(rounds)) = Len(rounds) - 1
          /\ \A i \in 1 .. Len(rounds) - 1 : Tail(rounds)[i] = rounds[i + 1]
      BY <1>2, <3>1, HeadTailProperties
    <3>4. /\ rounds' \in Seq(Nat) /\ Len(rounds') = Len(rounds)
          /\ \A i \in 1 .. Len(rounds) - 1 : rounds'[i] = rounds[i + 1]
          /\ rounds'[Len(rounds)] = measured
      <4>1. Len(Tail(rounds)) + 1 = Len(rounds)
        BY <1>2, <3>3
      <4>. QED  BY <1>2, <3>2, <3>3, <4>1, AppendProperties
    <3>5. head' \in Nat /\ (Mirrored => head' = headSeq')
      BY <1>2, <2>0, <3>2 DEF AdvanceHead
    <3>6. dropped' = dropped \cup {rounds[i] : i \in 1 .. 1}
      BY <3>2
    <3>7. Shape(1)
      BY <1>2, <3>1, <3>2, <3>4, <3>5, <3>6
    <3>8. 1 \in 0 .. Len(rounds)
      BY <1>2, <3>1
    <3>. QED  BY <3>7, <3>8
  <2>. QED  BY <2>1, <2>2
<1>5. TypeOK'
  <2>1. headSeq' \in Nat /\ head' \in Nat /\ rounds' \in Seq(Nat)
    BY <1>2, <1>4
  <2>2. measured' \in 0 .. setup'.rounds
    BY <1>1, <1>2, <1>3
  <2>. QED  BY <1>1, <1>3, <2>1, <2>2 DEF TypeOK
<1>6. Accounts
  BY <1>2, <1>3, <1>4 DEF Accounts
<1>7. BufferOK'
  <2>1. Len(rounds') <= Cap /\ headSeq' + Len(rounds') = headSeq + Len(rounds) + 1
    BY <1>2, <1>4
  <2>2. headSeq' + Len(rounds') <= measured' /\ upto < headSeq' + Len(rounds')
    BY <1>1, <1>2, <1>3, <2>1 DEF BufferOK
  <2>3. rounds' # <<>>
    BY <1>2, <1>4
  <2>4. ASSUME NEW i \in 1 .. Len(rounds'), headSeq' + i - 1 <= upto PROVE rounds'[i] \in hub
    <3>1. headSeq + (i + k) - 1 <= upto /\ i + k \in 1 .. Len(rounds)
      BY <1>1, <1>2, <1>4, <2>4 DEF BufferOK
    <3>2. rounds[i + k] \in hub
      BY <1>1, <3>1 DEF BufferOK
    <3>3. i \in 1 .. Len(rounds) - k
      BY <1>2, <1>4, <3>1
    <3>. QED  BY <1>4, <3>2, <3>3
  <2>5. promised \subseteq hub \cup dropped' \cup Range(rounds')
    <3>1. ASSUME NEW i \in 1 .. Len(rounds) PROVE rounds[i] \in dropped' \cup Range(rounds')
      <4>1. CASE i <= k
        <5>1. i \in 1 .. k /\ dropped' = dropped \cup {rounds[j] : j \in 1 .. k}
          BY <1>2, <1>4, <4>1
        <5>. QED  BY <5>1
      <4>2. CASE i > k
        <5>1. i - k \in 1 .. Len(rounds) - k /\ i - k + k = i /\ i - k \in 1 .. Len(rounds')
          BY <1>2, <1>4, <4>2
        <5>2. rounds'[i - k] = rounds[i]
          BY <1>4, <5>1
        <5>. QED  BY <1>4, <5>1, <5>2 DEF Range
      <4>. QED  BY <1>2, <4>1, <4>2
    <3>2. promised \subseteq hub \cup dropped \cup Range(rounds) /\ dropped \subseteq dropped'
      BY <1>1, <1>4 DEF BufferOK, Settled
    <3>. QED  BY <1>2, <3>1, <3>2 DEF Range
  <2>. QED  BY <1>1, <1>3, <2>1, <2>2, <2>3, <2>4, <2>5 DEF BufferOK, Settled
<1>8. \A i \in 1 .. k : rounds[i] \in Settled'
  BY <1>4 DEF Settled
<1>9. headSeq' + Len(rounds') = headSeq + Len(rounds) + 1
  BY <1>2, <1>4
<1>10. UNCHANGED <<files, status, pc, closing, degraded, headDurable, active, promised, setup>>
  BY <1>3 DEF files
<1>. HIDE DEF Shape
<1>11. /\ headSeq' = headSeq + k /\ \A i \in 1 .. Len(rounds) - k : rounds'[i] = rounds[i + k]
       /\ MutexFree \/ k = 0
       /\ Mirrored => head' = headSeq'
  BY <1>4 DEF Shape
<1>. QED  BY <1>1, <1>3, <1>5, <1>6, <1>7, <1>8, <1>9, <1>10, <1>11, BufferStep

LEMMA CommitStep ==
  ASSUME SpoolInv, setup \in Setups, Journaled, CommitBatch
  PROVE  SpoolInv'
<1>. DEFINE n == upto - headSeq + 1
            k == IF n <= 0 THEN 0 ELSE IF n > Len(rounds) THEN Len(rounds) ELSE n
<1>1. TypeOK /\ BufferOK /\ MirrorOK /\ DownOK /\ upto # -1 /\ ~staging /\ MutexFree
  BY DEF SpoolInv, CommitBatch
<1>2. /\ rounds \in Seq(Nat) /\ Len(rounds) \in Nat /\ headSeq \in Nat /\ head \in Nat
      /\ measured \in Nat /\ upto \in Int /\ k \in 0 .. Len(rounds)
  BY <1>1, BufferTyped
<1>3. status = "up"
  BY <1>1 DEF DownOK
<1>4. /\ UNCHANGED <<disk, dir, ddir, ops, status, pc, closing, degraded, headDurable, active>>
      /\ UNCHANGED <<pending, staging, hub, dropped, promised, measured, setup, kills, losses, errors>>
      /\ upto' = -1 /\ headSeq' = headSeq + k /\ rounds' = After(rounds, k)
      /\ IF k > 0 THEN AdvanceHead(headSeq') ELSE head' = head
  BY DEF CommitBatch, files, flusher, history, faults
<1>5. /\ rounds' \in Seq(Nat) /\ Len(rounds') = Len(rounds) - k
      /\ \A i \in 1 .. Len(rounds) - k : rounds'[i] = rounds[i + k]
  <2>. HIDE DEF k
  <2>. DEFINE m == k + 1
              l == Len(rounds)
              s == SubSeq(rounds, m, l)
  <2>1. m \in Int /\ l \in Int /\ \A i \in m .. l : rounds[i] \in Nat
    BY <1>2
  <2>2. /\ s \in Seq(Nat)
        /\ Len(s) = IF m <= l THEN l - m + 1 ELSE 0
        /\ \A i \in 1 .. l - m + 1 : s[i] = rounds[m + i - 1]
    <3>. HIDE DEF m, l
    <3>. QED  BY <2>1, SubSeqProperties
  <2>3. Len(s) = Len(rounds) - k
    BY <1>2, <2>2
  <2>4. ASSUME NEW i \in 1 .. Len(rounds) - k PROVE s[i] = rounds[i + k]
    <3>1. i \in 1 .. l - m + 1 /\ m + i - 1 = i + k
      BY <1>2
    <3>. QED  BY <2>2, <3>1
  <2>5. rounds' = s
    BY <1>4 DEF After
  <2>. HIDE DEF s
  <2>. QED  BY <2>2, <2>3, <2>4, <2>5
<1>6. \A i \in 1 .. k : rounds[i] \in hub
  BY <1>1, <1>2 DEF BufferOK
<1>. HIDE DEF k
<1>7. head' \in Nat /\ (Mirrored => head' = headSeq')
  <2>1. Mirrored => head = headSeq
    BY <1>1, <1>3 DEF MirrorOK, Mirroring
  <2>. QED  BY <1>2, <1>4, <2>1 DEF AdvanceHead
<1>8. TypeOK'
  <2>1. headSeq' \in Nat /\ upto' \in Int
    BY <1>2, <1>4
  <2>. QED  BY <1>1, <1>4, <1>5, <1>7, <2>1 DEF TypeOK
<1>9. Accounts
  BY <1>2, <1>4 DEF Accounts
<1>10. headSeq' + Len(rounds') = headSeq + Len(rounds)
  BY <1>2, <1>4, <1>5
<1>11. BufferOK'
  <2>1. /\ Len(rounds') <= Cap /\ headSeq' + Len(rounds') <= measured'
        /\ -1 <= upto' /\ upto' < headSeq' + Len(rounds')
    BY <1>1, <1>2, <1>4, <1>5, <1>10, SpoolAssumption DEF BufferOK
  <2>2. \A i \in 1 .. Len(rounds') : ~(headSeq' + i - 1 <= upto')
    BY <1>2, <1>4
  <2>3. promised \subseteq hub \cup dropped \cup Range(rounds')
    <3>1. ASSUME NEW i \in 1 .. Len(rounds) PROVE rounds[i] \in hub \cup Range(rounds')
      <4>1. CASE i <= k
        BY <1>2, <1>6, <4>1
      <4>2. CASE i > k
        <5>1. i - k \in 1 .. Len(rounds) - k /\ i - k + k = i
          BY <1>2, <4>2
        <5>2. rounds'[i - k] = rounds[i] /\ i - k \in DOMAIN rounds'
          BY <1>5, <5>1
        <5>. QED  BY <5>2 DEF Range
      <4>. QED  BY <1>2, <4>1, <4>2
    <3>2. promised \subseteq hub \cup dropped \cup Range(rounds)
      BY <1>1, <1>3 DEF BufferOK, Settled
    <3>. QED  BY <1>2, <3>1, <3>2 DEF Range
  <2>. QED  BY <1>1, <1>4, <2>1, <2>2, <2>3 DEF BufferOK, Settled
<1>12. \A i \in 1 .. k : rounds[i] \in Settled'
  BY <1>4, <1>6 DEF Settled
<1>13. UNCHANGED <<files, status, pc, closing, degraded, headDurable, active, promised, setup>>
  BY <1>4 DEF files
<1>. QED  BY <1>1, <1>2, <1>3, <1>4, <1>5, <1>7, <1>8, <1>9, <1>10, <1>11, <1>12, <1>13, BufferStep

LEMMA PushStep ==
  ASSUME SpoolInv, setup \in Setups, Journaled, NEW n \in 1 .. Cap, Push(n)
  PROVE  SpoolInv'
<1>1. TypeOK /\ BufferOK /\ MirrorOK /\ status = "up" /\ ~staging /\ n \in 1 .. Len(rounds)
  BY DEF SpoolInv, Push
<1>2. /\ rounds \in Seq(Nat) /\ Len(rounds) \in Nat /\ headSeq \in Nat /\ head \in Nat /\ n \in Nat
      /\ measured \in Nat
  BY <1>1, BufferTyped
<1>3. /\ UNCHANGED <<disk, dir, ddir, ops, status, pc, closing, degraded, headDurable, active, head>>
      /\ UNCHANGED <<pending, staging, rounds, headSeq, dropped, promised, measured, setup, kills, losses, errors>>
      /\ upto' = headSeq + n - 1 /\ hub' = hub \cup {rounds[i] : i \in 1 .. n}
  BY DEF Push, files, flusher, staged, faults
<1>4. TypeOK'
  <2>1. upto' \in Int
    BY <1>2, <1>3
  <2>. QED  BY <1>1, <1>3, <2>1 DEF TypeOK
<1>5. Accounts
  BY <1>2, <1>3 DEF Accounts
<1>6. BufferOK'
  <2>1. -1 <= upto' /\ upto' < headSeq + Len(rounds)
    BY <1>1, <1>2, <1>3
  <2>2. ASSUME NEW i \in 1 .. Len(rounds), headSeq + i - 1 <= upto' PROVE rounds[i] \in hub'
    <3>1. i \in 1 .. n
      BY <1>2, <1>3, <2>2
    <3>. QED  BY <1>3, <3>1
  <2>3. promised \subseteq Settled' \cup Range(rounds)
    BY <1>1, <1>3 DEF BufferOK, Settled
  <2>. QED  BY <1>1, <1>3, <2>1, <2>2, <2>3 DEF BufferOK
<1>7. 0 \in 0 .. Len(rounds) /\ headSeq' = headSeq + 0
      /\ (\A i \in 1 .. Len(rounds) - 0 : rounds'[i] = rounds[i + 0])
      /\ \A i \in 1 .. 0 : rounds[i] \in Settled'
  BY <1>2, <1>3
<1>8. UNCHANGED <<files, status, pc, closing, degraded, headDurable, active, promised, setup>>
  BY <1>3 DEF files
<1>9. Mirrored => head' = headSeq'
  BY <1>1, <1>3 DEF MirrorOK, Mirroring
<1>. QED  BY <1>1, <1>3, <1>4, <1>5, <1>6, <1>7, <1>8, <1>9, BufferStep
LEMMA StageStep ==
  ASSUME SpoolInv, setup \in Setups, Journaled, StageRound
  PROVE  SpoolInv'
<1>1. TypeOK /\ BufferOK /\ MirrorOK /\ DownOK /\ FlushOK /\ staging /\ MutexFree
  BY DEF SpoolInv, StageRound
<1>2. /\ rounds \in Seq(Nat) /\ Len(rounds) \in Nat /\ headSeq \in Nat
      /\ pending \in Seq(Record) /\ Len(pending) \in Nat
  BY <1>1, BufferTyped
<1>3. status = "up" /\ rounds # <<>>
  BY <1>1 DEF DownOK, BufferOK
<1>4. /\ UNCHANGED <<disk, dir, ddir, ops, status, pc, closing, degraded, headDurable, active, head>>
      /\ UNCHANGED <<rounds, headSeq, upto, hub, dropped, promised, measured, setup, kills, losses, errors>>
      /\ staging' = FALSE
  BY DEF StageRound, files, flusher, history, faults
<1>. DEFINE r == [seq |-> headSeq + Len(rounds) - 1, id |-> Last(rounds)]
<1>5. Len(rounds) >= 1 /\ Last(rounds) = rounds[Len(rounds)] /\ rounds[Len(rounds)] \in Nat
  BY <1>2, <1>3 DEF Last
<1>6. r \in Record /\ r.seq = headSeq + Len(rounds) - 1 /\ r.id = rounds[Len(rounds)]
  BY <1>2, <1>5 DEF Record
<1>7. Mirrored => pending' = Append(pending, r)
  BY DEF StageRound
<1>8. ~Mirrored => pending' = pending
  BY DEF StageRound
<1>. HIDE DEF r
<1>9. Mirrored => /\ pending' \in Seq(Record) /\ Len(pending') = Len(pending) + 1
                  /\ \A i \in 1 .. Len(pending) : pending'[i] = pending[i]
                  /\ pending'[Len(pending) + 1] = r
  <2>1. r \in Record
    BY <1>6
  <2>2. /\ Append(pending, r) \in Seq(Record) /\ Len(Append(pending, r)) = Len(pending) + 1
        /\ \A i \in 1 .. Len(pending) : Append(pending, r)[i] = pending[i]
        /\ Append(pending, r)[Len(pending) + 1] = r
    BY <1>2, <2>1, AppendProperties
  <2>. QED  BY <1>7, <2>2
<1>10. pending' \in Seq(Record)
  BY <1>2, <1>8, <1>9
<1>11. TypeOK'
  BY <1>1, <1>4, <1>10 DEF TypeOK
<1>12. FilesOK' /\ DirsOK' /\ UnlinksOK'
  <2>1. measured \in Nat
    BY <1>1, BufferTyped
  <2>2. Accounts
    BY <1>4, <2>1 DEF Accounts
  <2>. QED  BY <1>4, <1>11, <2>2, FilesUnchanged
<1>13. BufferOK'
  BY <1>1, <1>4 DEF BufferOK, Settled
<1>14. DownOK'
  BY <1>1, <1>3, <1>4 DEF DownOK, MutexFree
<1>15. Mirroring' => Mirroring
  BY <1>4 DEF Mirroring, Mirrored
<1>16. MirrorOK'
  <2>. SUFFICES ASSUME Mirroring PROVE MirrorOK'
    BY <1>15 DEF MirrorOK
  <2>1. Mirrored
    BY DEF Mirroring
  <2>2. /\ \A i \in 1 .. Len(pending) : pending[i].seq = End(active) + i - 1
        /\ headSeq + Len(rounds) = End(active) + Len(pending) + 1
    BY <1>1 DEF MirrorOK
  <2>3. End(active) \in Nat
    BY <1>1, BufferTyped
  <2>4. ASSUME NEW i \in 1 .. Len(pending')
        PROVE  pending'[i].seq = End(active) + i - 1 /\ Reflects(pending'[i])
    <3>1. CASE i = Len(pending) + 1
      <4>1. pending'[i] = r
        BY <2>1, <1>9, <3>1
      <4>2. r.seq = End(active) + i - 1
        BY <1>2, <1>6, <2>2, <2>3, <3>1
      <4>3. r.seq - headSeq + 1 = Len(rounds) /\ ~(r.seq < headSeq)
        BY <1>2, <1>5, <1>6
      <4>4. Reflects(r)
        BY <1>6, <4>3 DEF Reflects
      <4>. QED  BY <4>1, <4>2, <4>4
    <3>2. CASE i # Len(pending) + 1
      <4>1. i \in 1 .. Len(pending) /\ pending'[i] = pending[i]
        BY <1>2, <1>9, <2>1, <3>2
      <4>. QED  BY <2>2, <4>1, StagedRecord
    <3>. QED  BY <3>1, <3>2
  <2>5. headSeq + Len(rounds) = End(active) + Len(pending')
    <3>1. Len(pending') = Len(pending) + 1 /\ Len(pending) \in Nat
      BY <1>2, <1>9, <2>1
    <3>2. headSeq + Len(rounds) = End(active) + Len(pending) + 1
      BY <2>2
    <3> HIDE DEF SpoolInv
    <3>. QED  BY <2>3, <3>1, <3>2
  <2>6. pending' # <<>>
    BY <1>9, <2>1, <1>2
  <2>7. ASSUME NEW n \in dir.segs, NEW i \in 1 .. Len(disk[n].recs) PROVE Reflects(disk[n].recs[i])
    BY StoredRecord
  <2>8. headSeq' = headSeq /\ head' = head /\ head = headSeq /\ active \in dir.segs
        /\ (pc # "roll" => Visible(active)) /\ pc # "roll" /\ \A n \in dir.segs : ~disk[n].torn
    BY <1>1, <1>4 DEF MirrorOK, MutexFree
  <2>9. headSeq' + Len(rounds') = End(active)' + Len(pending') + (IF staging' THEN 1 ELSE 0)
    BY <1>2, <1>4, <1>9, <2>1, <2>3, <2>5 DEF End
  <2>. QED  BY <1>4, <2>4, <2>7, <2>8, <2>9 DEF MirrorOK, Visible, End, Reflects, Settled
<1>17. FlushOK'
  BY <1>1, <1>4, <1>15 DEF FlushOK, MutexFree
<1>. QED  BY <1>11, <1>12, <1>13, <1>14, <1>16, <1>17 DEF SpoolInv

LEMMA StartFlushStep ==
  ASSUME SpoolInv, setup \in Setups, Journaled, NEW last \in BOOLEAN, StartFlush(last)
  PROVE  SpoolInv'
<1>1. TypeOK /\ BufferOK /\ MirrorOK /\ DownOK /\ FlushOK /\ status = "up" /\ pc = "idle"
  BY DEF SpoolInv, StartFlush
<1>2. /\ UNCHANGED <<disk, dir, ddir, ops, status, degraded, headDurable, active, head, pending>>
      /\ UNCHANGED <<rounds, headSeq, staging, upto, hub, dropped, promised, measured>>
      /\ UNCHANGED <<setup, kills, losses, errors>>
      /\ pc' \in {"write", "closed", "idle"} /\ closing' \in BOOLEAN
      /\ pc' = "write" => ~degraded
  BY DEF StartFlush, files, staged, buffer, history, faults
<1>3. TypeOK'
  BY <1>1, <1>2 DEF TypeOK
<1>4. FilesOK' /\ DirsOK' /\ UnlinksOK'
  <2>1. measured \in Nat
    BY <1>1, BufferTyped
  <2>2. Accounts
    BY <1>2, <2>1 DEF Accounts
  <2>. QED  BY <1>2, <1>3, <2>2, FilesUnchanged
<1>5. BufferOK'
  BY <1>1, <1>2 DEF BufferOK, Settled
<1>6. DownOK'
  BY <1>1, <1>2 DEF DownOK, MutexFree
<1>7. Mirroring' => Mirroring
  BY <1>1, <1>2 DEF Mirroring, Mirrored
<1>8. MirrorOK'
  BY <1>1, <1>2, <1>7 DEF MirrorOK, Visible, End, Reflects, Settled
<1>9. FlushOK'
  BY <1>1, <1>2, <1>7 DEF FlushOK
<1>. QED  BY <1>3, <1>4, <1>5, <1>6, <1>8, <1>9 DEF SpoolInv
-----------------------------------------------------------------------------
(* The steps of a flush.                                                   *)

(* A flush runs in an agent whose spool mirrors the buffer.                *)
LEMMA Flushing ==
  ASSUME SpoolInv, pc \notin {"idle", "closed"}
  PROVE  /\ status = "up" /\ ~degraded /\ Mirrored /\ Mirroring
         /\ TypeOK /\ FilesOK /\ DirsOK /\ UnlinksOK /\ BufferOK /\ DownOK
         /\ active \in dir.segs /\ active \in Names /\ active \in Nat
         /\ \A n \in dir.segs : ~disk[n].torn
         /\ pc # "roll" => Visible(active)
         /\ headSeq + Len(rounds) = End(active) + Len(pending) + (IF staging THEN 1 ELSE 0)
         /\ head = headSeq
         /\ dir.head = (IF pc = "headSync" THEN head ELSE headDurable)
         /\ headDurable <= head
         /\ dir \in Possible /\ GoodDir(dir)
<1>1. /\ TypeOK /\ FilesOK /\ DirsOK /\ UnlinksOK /\ BufferOK /\ DownOK /\ MirrorOK /\ FlushOK
  BY DEF SpoolInv
<1>2. status = "up" /\ ~degraded /\ Mirrored /\ Mirroring
  BY <1>1 DEF DownOK, MutexFree, Mirrored, Mirroring, TypeOK
<1>3. active \in Names /\ active \in Nat
  BY <1>1, BufferTyped
<1>4. dir \in Possible /\ GoodDir(dir)
  BY <1>1, DirIsPossible DEF DirsOK
<1>. QED  BY <1>1, <1>2, <1>3, <1>4 DEF MirrorOK, FlushOK

LEMMA WriteRecordStep ==
  ASSUME SpoolInv, setup \in Setups, Journaled, WriteRecord
  PROVE  SpoolInv'
<1>1. pc = "write" /\ pending # <<>> /\ ~RollNeeded
  BY DEF WriteRecord
<1>2. /\ status = "up" /\ ~degraded /\ Mirrored /\ Mirroring
      /\ TypeOK /\ FilesOK /\ DirsOK /\ UnlinksOK /\ BufferOK /\ DownOK /\ MirrorOK /\ FlushOK
      /\ active \in dir.segs /\ active \in Names /\ active \in Nat /\ Visible(active)
      /\ headSeq + Len(rounds) = End(active) + Len(pending) + (IF staging THEN 1 ELSE 0)
  BY <1>1, Flushing DEF SpoolInv
<1>3. /\ rounds \in Seq(Nat) /\ Len(rounds) \in Nat /\ headSeq \in Nat /\ measured \in Nat
      /\ pending \in Seq(Record) /\ Len(pending) \in Nat /\ End(active) \in Nat
      /\ Len(disk[active].recs) \in Nat /\ SegMax \in Nat \ {0} /\ dir \in Directory
      /\ disk[active].recs \in Seq(Record) /\ disk[active].synced \in Nat
  BY <1>2, BufferTyped, ConstantsTyped, FileTyped
<1>4. /\ UNCHANGED <<dir, ddir, ops, status, pc, closing, degraded, headDurable, active, head>>
      /\ UNCHANGED <<rounds, headSeq, staging, upto, hub, dropped, promised, measured>>
      /\ UNCHANGED <<setup, kills, losses, errors>>
      /\ pending' = Tail(pending)
  BY DEF WriteRecord, flusher, buffer, history, faults
<1>5. PICK r \in Record : r = Head(pending) /\ r = pending[1]
  BY <1>1, <1>3, HeadTailProperties
<1>6. /\ pending' \in Seq(Record) /\ Len(pending') = Len(pending) - 1 /\ Len(pending) >= 1
      /\ \A i \in 1 .. Len(pending) - 1 : pending'[i] = pending[i + 1]
  BY <1>1, <1>3, <1>4, HeadTailProperties, EmptySeq
<1>7. r.seq = End(active) /\ Reflects(r) /\ r.seq \in Nat
  <2>1. 1 \in 1 .. Len(pending)
    BY <1>3, <1>6
  <2>2. pending[1].seq = End(active) + 1 - 1 /\ Reflects(pending[1]) /\ pending[1].seq \in Nat
    BY <1>2, <2>1, StagedRecord
  <2>. QED  BY <1>3, <1>5, <2>2
<1>8. disk' = [disk EXCEPT ![active].recs = Append(@, r)]
  BY <1>5 DEF WriteRecord
<1>9. /\ disk' \in [Names -> File]
      /\ \A n \in Names : n # active => disk'[n] = disk[n]
      /\ disk'[active].recs = Append(disk[active].recs, r)
      /\ disk'[active].synced = disk[active].synced /\ disk'[active].torn = disk[active].torn
  BY <1>2, <1>8, WrittenFile
<1>10. /\ Len(disk'[active].recs) = Len(disk[active].recs) + 1
       /\ \A i \in 1 .. Len(disk[active].recs) : disk'[active].recs[i] = disk[active].recs[i]
       /\ disk'[active].recs[Len(disk[active].recs) + 1] = r
  BY <1>3, <1>9, AppendProperties
<1>11. TypeOK'
  BY <1>2, <1>4, <1>6, <1>9 DEF TypeOK
<1>12. FilesOK'
  <2>1. ASSUME NEW n \in Names
        PROVE  /\ Len(disk'[n].recs) <= SegMax
               /\ disk'[n].synced <= Len(disk'[n].recs)
               /\ \A i \in 1 .. Len(disk'[n].recs) : disk'[n].recs[i].seq = n + i - 1
    <3>1. /\ Len(disk[n].recs) <= SegMax /\ disk[n].synced <= Len(disk[n].recs)
          /\ \A i \in 1 .. Len(disk[n].recs) : disk[n].recs[i].seq = n + i - 1
      BY <1>2 DEF FilesOK
    <3>2. CASE n # active
      BY <1>9, <3>1, <3>2
    <3>3. CASE n = active
      <4>1. Len(disk[active].recs) + 1 <= SegMax
        BY <1>1, <1>3 DEF RollNeeded
      <4>2. disk[active].synced <= Len(disk[active].recs) + 1
        BY <1>3, <3>1, <3>3
      <4>3. ASSUME NEW i \in 1 .. Len(disk'[active].recs)
            PROVE  disk'[active].recs[i].seq = active + i - 1
        <5>1. CASE i = Len(disk[active].recs) + 1
          BY <1>2, <1>3, <1>7, <1>10, <5>1 DEF End
        <5>2. CASE i # Len(disk[active].recs) + 1
          <6>1. i \in 1 .. Len(disk[active].recs)
            BY <1>3, <1>10, <5>2
          <6>. QED  BY <1>10, <3>1, <3>3, <6>1
        <5>. QED  BY <5>1, <5>2
      <4>. QED  BY <1>9, <1>10, <3>3, <4>1, <4>2, <4>3
    <3>. QED  BY <3>2, <3>3
  <2>. QED  BY <1>4, <2>1 DEF FilesOK, SegMax
<1>13. /\ End(active) + 1 <= measured /\ active + Len(disk'[active].recs) = End(active) + 1
       /\ End(active)' = End(active) + 1
  <2>1. headSeq + Len(rounds) <= measured
    BY <1>2 DEF BufferOK
  <2>2. End(active) = active + Len(disk[active].recs)
    BY DEF End
  <2>3. End(active) + Len(pending) <= headSeq + Len(rounds) /\ Len(pending) >= 1
    BY <1>2, <1>3, <1>6
  <2>4. active + Len(disk'[active].recs) = End(active) + 1
    BY <1>2, <1>3, <1>10, <2>2
  <2>5. End(active)' = active + Len(disk'[active].recs)
    BY <1>4 DEF End
  <2>. QED  BY <1>2, <1>3, <2>1, <2>3, <2>4, <2>5
<1>14. DirsOK'
  <2>1. Possible' = Possible /\ dir' = Applied(ddir', ops', 1 .. Len(ops'))
    BY <1>2, <1>4 DEF Possible, DirsOK
  <2>2. NewestStays
    <3>1. \A n \in dir.segs : n <= n
      BY <1>3, SegTyped
    <3>. QED  BY <1>4, <3>1 DEF NewestStays, Visible
  <2>3. Accounts
    BY <1>3, <1>4 DEF Accounts
  <2>4. ASSUME NEW d \in Possible, NEW n \in d.segs PROVE FileGrows(n)
    <3>1. d \in Directory
      BY <1>2, <2>4, DirIsPossible DEF DirsOK
    <3>2. n \in Names /\ Len(disk[n].recs) \in Nat /\ disk[n].synced \in Nat
      BY <1>2, <2>4, <3>1, SegTyped, FileTyped
    <3>3. CASE n # active
      BY <1>9, <3>2, <3>3 DEF FileGrows, Unsynced
    <3>4. CASE n = active
      <4>1. active + Len(disk'[active].recs) <= measured'
        BY <1>3, <1>4, <1>13
      <4>2. Len(disk[active].recs) <= Len(disk'[active].recs) /\ disk[active].synced <= disk'[active].synced
        BY <1>3, <1>9, <1>10
      <4>. QED  BY <1>2, <1>10, <3>4, <4>1, <4>2 DEF FileGrows
    <3>. QED  BY <3>3, <3>4
  <2>. QED  BY <1>4, <1>11, <2>1, <2>2, <2>3, <2>4, DirsPreserved
<1>15. UnlinksOK'
  <2>1. \A n \in dir.segs : n <= n
    BY <1>3, SegTyped
  <2>2. \A n \in Names \ dir.segs : disk'[n].recs = disk[n].recs
    BY <1>2, <1>9
  <2>3. Len(ops) \in Nat /\ Len(ops) + 1 .. Len(ops) = {}
    BY <1>2, BufferTyped
  <2>. QED  BY <1>4, <1>11, <2>1, <2>2, <2>3, UnlinksPreserved
<1>16. BufferOK'
  BY <1>2, <1>4 DEF BufferOK, Settled
<1>17. DownOK'
  BY <1>1, <1>2, <1>4 DEF DownOK, MutexFree
<1>18. MirrorOK'
  <2>1. ASSUME NEW i \in 1 .. Len(pending')
        PROVE  pending'[i].seq = End(active)' + i - 1 /\ Reflects(pending'[i])
    <3>1. i + 1 \in 1 .. Len(pending) /\ pending'[i] = pending[i + 1]
      BY <1>3, <1>6
    <3>2. pending[i + 1].seq = End(active) + i /\ Reflects(pending[i + 1])
      BY <1>2, <1>3, <3>1, StagedRecord
    <3>. QED  BY <1>3, <1>13, <3>1, <3>2
  <2>2. headSeq + Len(rounds) = End(active)' + Len(pending') + (IF staging THEN 1 ELSE 0)
    BY <1>2, <1>3, <1>6, <1>13
  <2>3. ASSUME NEW n \in dir.segs, NEW i \in 1 .. Len(disk'[n].recs)
        PROVE  Reflects(disk'[n].recs[i])
    <3>1. n \in Names
      BY <1>3, SegTyped
    <3>2. CASE n # active
      BY <1>2, <1>9, <3>1, <3>2, StoredRecord
    <3>3. CASE n = active
      <4>1. CASE i = Len(disk[active].recs) + 1
        BY <1>7, <1>10, <3>3, <4>1
      <4>2. CASE i # Len(disk[active].recs) + 1
        <5>1. i \in 1 .. Len(disk[n].recs)
          BY <1>3, <1>10, <3>3, <4>2
        <5>2. disk'[n].recs[i] = disk[n].recs[i]
          BY <1>10, <3>3, <5>1
        <5>. QED  BY <1>2, <5>1, <5>2, StoredRecord
      <4>. QED  BY <4>1, <4>2
    <3>. QED  BY <3>2, <3>3
  <2>4. ASSUME NEW n \in dir.segs PROVE ~disk'[n].torn
    BY <1>2, <1>3, <1>9, SegTyped DEF MirrorOK
  <2>. QED  BY <1>1, <1>2, <1>4, <2>1, <2>2, <2>3, <2>4 DEF MirrorOK, Visible, Reflects, Settled
<1>19. FlushOK'
  BY <1>1, <1>2, <1>4 DEF FlushOK
<1>. QED  BY <1>11, <1>12, <1>14, <1>15, <1>16, <1>17, <1>18, <1>19 DEF SpoolInv
(* With no change pending, only one directory can be found on stable       *)
(* storage.                                                                *)
LEMMA DurableDir ==
  ASSUME NEW e \in Directory, ddir' = e, ops' = <<>>, dir' = e
  PROVE  /\ Possible' = {e} /\ dir' = Applied(ddir', ops', 1 .. Len(ops'))
         /\ ops' \in Seq(DirChange) /\ Len(ops') = 0 /\ UnlinksOK'
<1>1. ops' \in Seq(DirChange) /\ Len(ops') = 0
  OBVIOUS
<1>2. Applied(ddir', ops', 1 .. 0) = e
  BY AppliedNone
<1>3. 0 .. Len(ops') = {0}
  BY <1>1
<1>4. Possible' = {e}
  BY <1>2, <1>3 DEF Possible
<1>5. UnlinksOK'
  BY <1>1 DEF UnlinksOK
<1>. QED  BY <1>1, <1>2, <1>4, <1>5

LEMMA FsyncedDir ==
  ASSUME TypeOK, dir \in Directory, ddir' = dir, ops' = <<>>, dir' = dir
  PROVE  /\ Possible' = {dir} /\ dir' = Applied(ddir', ops', 1 .. Len(ops'))
         /\ ops' \in Seq(DirChange) /\ Len(ops') = 0 /\ UnlinksOK'
<1>. QED  BY DurableDir

(* The spool still mirrors the buffer when segments only leave.            *)
LEMMA MirrorKept ==
  ASSUME SpoolInv, Mirroring, pc # "roll", pc' # "roll", active' = active,
         UNCHANGED <<pending, rounds, headSeq, head, staging, hub, dropped>>,
         dir'.segs \subseteq dir.segs, active \in dir'.segs,
         \A n \in dir.segs : disk'[n].recs = disk[n].recs /\ disk'[n].torn = disk[n].torn
  PROVE  MirrorOK'
<1>1. TypeOK /\ MirrorOK
  BY DEF SpoolInv
<1>2. active \in dir.segs /\ Visible(active)
  BY <1>1 DEF MirrorOK
<1>3. End(active)' = End(active)
  BY <1>2 DEF End
<1>4. \A n \in dir'.segs : \A i \in 1 .. Len(disk'[n].recs) : Reflects(disk'[n].recs[i])
  BY StoredRecord
<1>5. /\ \A i \in 1 .. Len(pending) : pending[i].seq = End(active) + i - 1
      /\ headSeq + Len(rounds) = End(active) + Len(pending) + (IF staging THEN 1 ELSE 0)
      /\ head = headSeq
      /\ \A i \in 1 .. Len(pending) : Reflects(pending[i])
      /\ \A n \in dir.segs : ~disk[n].torn
  BY <1>1 DEF MirrorOK
<1>. QED  BY <1>2, <1>3, <1>4, <1>5 DEF MirrorOK, Visible, Reflects, Settled

LEMMA MaxSeqIs ==
  ASSUME TypeOK, FilesOK, NEW n \in Names
  PROVE  /\ n < End(n) => disk[n].recs # <<>> /\ MaxSeq(n) = End(n) - 1
         /\ disk[n].recs # <<>> => MaxSeq(n) = End(n) - 1 /\ n < End(n)
         /\ disk[n].recs = <<>> => MaxSeq(n) = -1 /\ End(n) = n
<1>1. disk[n].recs \in Seq(Record) /\ Len(disk[n].recs) \in Nat /\ n \in Nat
      /\ End(n) = n + Len(disk[n].recs)
  BY FileTyped DEF End
<1>2. disk[n].recs # <<>> <=> Len(disk[n].recs) > 0
  BY <1>1, EmptySeq
<1>3. ASSUME Len(disk[n].recs) > 0 PROVE MaxSeq(n) = End(n) - 1
  <2>1. Len(disk[n].recs) \in 1 .. Len(disk[n].recs)
    BY <1>1, <1>3
  <2>2. disk[n].recs[Len(disk[n].recs)].seq = n + Len(disk[n].recs) - 1
    BY <2>1 DEF FilesOK
  <2>. QED  BY <1>1, <1>2, <1>3, <2>2 DEF MaxSeq, Last
<1>. QED  BY <1>1, <1>2, <1>3 DEF MaxSeq

(* A closed segment while no successor is being created.                   *)
LEMMA ClosedSegment ==
  ASSUME SpoolInv, Mirroring, pc # "roll", NEW n \in dir.segs, n # active
  PROVE  /\ n < active /\ n < End(n) /\ End(n) <= active /\ End(n) \in dir.segs
         /\ MaxSeq(n) = End(n) - 1 /\ n \in Names
         /\ disk[n].synced = Len(disk[n].recs)
<1>1. /\ TypeOK /\ FilesOK /\ DirsOK /\ Visible(active) /\ active \in dir.segs
      /\ dir \in Directory /\ n \in Names /\ n \in Nat /\ active \in Nat
  BY SegTyped, BufferTyped DEF SpoolInv, MirrorOK, TypeOK
<1>2. n < active
  BY <1>1 DEF Visible
<1>3. dir \in Possible
  BY <1>1, DirIsPossible DEF DirsOK
<1>4. n < End(n) /\ End(n) <= active /\ End(n) \in dir.segs
  BY <1>1, <1>2, <1>3 DEF DirsOK, GoodDir, Contiguous
<1>5. ~Visible(n)
  BY <1>1, <1>2 DEF Visible
<1>6. ~(disk[n].synced < Len(disk[n].recs))
  BY <1>1, <1>3, <1>5 DEF DirsOK, BelowVisible, Unsynced
<1>7. disk[n].synced = Len(disk[n].recs)
  <2>1. disk[n].synced \in Nat /\ Len(disk[n].recs) \in Nat /\ disk[n].synced <= Len(disk[n].recs)
    BY <1>1, FileTyped DEF FilesOK
  <2>. QED  BY <1>6, <2>1
<1>. QED  BY <1>1, <1>2, <1>4, <1>7, MaxSeqIs

(* The watermark does not pass the records when none is staged.            *)
LEMMA HeadReached ==
  ASSUME SpoolInv, Mirroring, pending = <<>>
  PROVE  head <= End(active)
<1>1. TypeOK /\ MirrorOK /\ BufferOK
  BY DEF SpoolInv
<1>2. headSeq + Len(rounds) = End(active) + 0 + (IF staging THEN 1 ELSE 0) /\ head = headSeq
  BY <1>1 DEF MirrorOK
<1>3. staging => Len(rounds) >= 1
  BY <1>1, BufferTyped DEF BufferOK
<1>4. headSeq \in Nat /\ Len(rounds) \in Nat /\ End(active) \in Nat
  BY <1>1, BufferTyped
<1>. QED  BY <1>2, <1>3, <1>4

LEMMA SyncActiveStep ==
  ASSUME SpoolInv, setup \in Setups, Journaled, SyncActive
  PROVE  SpoolInv'
<1>1. pc = "write" /\ pending = <<>>
  BY DEF SyncActive
<1>2. /\ status = "up" /\ ~degraded /\ Mirrored /\ Mirroring
      /\ TypeOK /\ FilesOK /\ DirsOK /\ UnlinksOK /\ BufferOK /\ DownOK /\ MirrorOK /\ FlushOK
      /\ active \in dir.segs /\ active \in Names /\ active \in Nat /\ Visible(active)
      /\ dir \in Possible /\ GoodDir(dir) /\ BelowVisible(dir)
  BY <1>1, Flushing DEF SpoolInv, DirsOK
<1>3. /\ rounds \in Seq(Nat) /\ Len(rounds) \in Nat /\ headSeq \in Nat /\ measured \in Nat
      /\ dir \in Directory /\ disk \in [Names -> File]
  BY <1>2, BufferTyped
<1>4. /\ UNCHANGED <<status, closing, degraded, headDurable, active, pending, head>>
      /\ UNCHANGED <<rounds, headSeq, staging, upto, hub, dropped, measured>>
      /\ UNCHANGED <<setup, kills, losses, errors>>
      /\ disk' = [disk EXCEPT ![active] = SyncedFile(active)]
      /\ ddir' = dir /\ ops' = <<>> /\ dir' = dir
      /\ promised' = promised \cup Ids(Stored)
      /\ pc' \in {"rename", "closed", "idle"}
  BY DEF SyncActive, FsyncDir, staged, buffer, faults, Finished
<1>5. /\ disk' \in [Names -> File]
      /\ \A n \in Names : disk'[n].recs = disk[n].recs /\ disk'[n].torn = disk[n].torn
      /\ \A n \in Names : n # active => disk'[n] = disk[n]
      /\ disk'[active].synced = Len(disk[active].recs)
  BY <1>2, <1>3, <1>4, SyncedFileIs
<1>6. /\ Possible' = {dir} /\ dir' = Applied(ddir', ops', 1 .. Len(ops'))
      /\ ops' \in Seq(DirChange) /\ UnlinksOK'
  BY <1>2, <1>3, <1>4, FsyncedDir
<1>7. TypeOK'
  BY <1>2, <1>4, <1>5, <1>6 DEF TypeOK
<1>8. FilesOK'
  BY <1>2, <1>4, <1>5 DEF FilesOK, SegMax
<1>9. ASSUME NEW n \in dir.segs PROVE disk'[n].synced = Len(disk[n].recs) /\ n \in Names
  BY <1>1, <1>2, <1>5, ClosedSegment
<1>10. GoodDir(dir)'
  <2>1. ASSUME NEW n \in dir.segs PROVE Grows(dir, n)
    <3>1. n \in Names /\ Len(disk[n].recs) \in Nat /\ disk[n].synced <= Len(disk[n].recs)
      BY <1>2, <1>3, SegTyped, FileTyped DEF FilesOK
    <3>2. disk[n].synced <= disk'[n].synced /\ disk'[n].recs = disk[n].recs
      BY <1>5, <1>9, <3>1
    <3>. QED  BY <3>1, <3>2 DEF Grows
  <2>2. Contiguous(dir)' /\ Reaches(dir)' /\ Bounded(dir)' /\ Retired(dir)'
    <3>1. PICK d \in Directory : d = dir
      BY <1>3
    <3>2. GoodDir(d) /\ \A n \in d.segs : Grows(d, n)
      BY <1>2, <2>1, <3>1
    <3>3. hub \subseteq hub' /\ dropped \subseteq dropped' /\ measured <= measured'
      BY <1>3, <1>4
    <3>4. Contiguous(d)' /\ Reaches(d)' /\ Bounded(d)' /\ Retired(d)'
      BY <1>2, <1>7, <3>2, <3>3, GoodDirKept
    <3>. QED  BY <1>4, <3>1, <3>4 DEF Contiguous, Reaches, Bounded, Retired, End
  <2>3. ASSUME NEW id \in promised' \ Settled
        PROVE  \E n \in dir.segs : \E i \in 1 .. disk'[n].synced :
                 disk'[n].recs[i].id = id /\ dir.head <= n + i - 1
    <3>1. CASE id \in promised
      <4>1. PICK n \in dir.segs : \E i \in 1 .. disk[n].synced :
              disk[n].recs[i].id = id /\ dir.head <= n + i - 1
        BY <1>2, <2>3, <3>1 DEF GoodDir, Keeps
      <4>2. PICK i \in 1 .. disk[n].synced : disk[n].recs[i].id = id /\ dir.head <= n + i - 1
        BY <4>1
      <4>3. i \in 1 .. disk'[n].synced
        <5>1. disk[n].synced <= disk'[n].synced /\ disk[n].synced \in Nat /\ disk'[n].synced \in Nat
          BY <1>2, <1>5, <1>9, <2>1, FileTyped, FileIn DEF Grows
        <5>. QED  BY <5>1
      <4>. QED  BY <1>5, <1>9, <4>2, <4>3
    <3>2. CASE id \in Ids(Stored)
      <4>0. PICK n \in dir.segs : \E x \in Range(disk[n].recs) : x.id = id
        BY <3>2 DEF Ids, Stored
      <4>1. PICK r \in Range(disk[n].recs) : r.id = id
        BY <4>0
      <4>2. disk[n].recs \in Seq(Record) /\ n \in Nat
        BY <1>2, <1>9, FileTyped
      <4>3. PICK i \in 1 .. Len(disk[n].recs) : r = disk[n].recs[i]
        BY <4>1, <4>2 DEF Range
      <4>4. ~(n + i - 1 < dir.head)
        BY <1>2, <2>3, <4>1, <4>3 DEF GoodDir, Retired
      <4>5. dir.head \in Nat
        BY <1>3, DirectoryRecord
      <4>. QED  BY <1>5, <1>9, <4>1, <4>2, <4>3, <4>4, <4>5
    <3>. QED  BY <1>4, <2>3, <3>1, <3>2
  <2>4. Keeps(dir)'
    BY <1>4, <2>3 DEF Keeps, Settled
  <2>. QED  BY <2>2, <2>4 DEF GoodDir
<1>11. BelowVisible(dir)'
  BY <1>2, <1>4, <1>5, <1>9 DEF BelowVisible, Visible, Unsynced
<1>12. DirsOK'
  <2>1. \A d \in Possible' : d = dir'
    BY <1>4, <1>6
  <2>. QED  BY <1>4, <1>6, <1>10, <1>11, <2>1 DEF DirsOK, GoodDir, BelowVisible,
            Contiguous, Reaches, Bounded, Retired, Keeps
<1>13. BufferOK'
  <2>1. ASSUME NEW id \in Ids(Stored) PROVE id \in Settled \cup Range(rounds)
    <3>0. PICK n \in dir.segs : \E x \in Range(disk[n].recs) : x.id = id
      BY <2>1 DEF Ids, Stored
    <3>1. PICK r \in Range(disk[n].recs) : r.id = id
      BY <3>0
    <3>2. disk[n].recs \in Seq(Record)
      BY <1>2, <1>9, FileTyped
    <3>3. PICK i \in 1 .. Len(disk[n].recs) : r = disk[n].recs[i]
      BY <3>1, <3>2 DEF Range
    <3>4. r.seq \in Nat /\ r.seq < headSeq + Len(rounds) /\ Reflects(r)
      BY <1>2, <3>3, StoredRecord
    <3>5. CASE r.seq < headSeq
      BY <3>1, <3>4, <3>5 DEF Reflects
    <3>6. CASE ~(r.seq < headSeq)
      <4>1. r.id = rounds[r.seq - headSeq + 1] /\ r.seq - headSeq + 1 \in 1 .. Len(rounds)
        BY <1>3, <3>4, <3>6 DEF Reflects
      <4>. QED  BY <1>3, <3>1, <4>1 DEF Range
    <3>. QED  BY <3>5, <3>6
  <2>2. promised \subseteq Settled \cup Range(rounds)
    BY <1>2 DEF BufferOK
  <2>. QED  BY <1>2, <1>4, <2>1, <2>2 DEF BufferOK, Settled
<1>14. DownOK'
  BY <1>2, <1>4 DEF DownOK, MutexFree
<1>15. MirrorOK'
  <2>1. \A n \in dir.segs : disk'[n].recs = disk[n].recs /\ disk'[n].torn = disk[n].torn
    BY <1>5, <1>9
  <2>. QED  BY <1>1, <1>2, <1>4, <2>1, MirrorKept
<1>16. FlushOK'
  <2>1. disk'[active].synced = Len(disk'[active].recs)
    BY <1>2, <1>5
  <2>. QED  BY <1>1, <1>2, <1>4, <2>1 DEF FlushOK
<1>. QED  BY <1>6, <1>7, <1>8, <1>12, <1>13, <1>14, <1>15, <1>16 DEF SpoolInv
LEMMA HeadFsyncDirStep ==
  ASSUME SpoolInv, setup \in Setups, Journaled, HeadFsyncDir
  PROVE  SpoolInv'
<1>1. pc = "headSync"
  BY DEF HeadFsyncDir
<1>2. /\ status = "up" /\ ~degraded /\ Mirrored /\ Mirroring
      /\ TypeOK /\ FilesOK /\ DirsOK /\ UnlinksOK /\ BufferOK /\ DownOK /\ MirrorOK /\ FlushOK
      /\ active \in dir.segs /\ active \in Names /\ dir \in Possible
      /\ dir.head = head /\ pending = <<>> /\ disk[active].synced = Len(disk[active].recs)
  BY <1>1, Flushing DEF SpoolInv, FlushOK
<1>3. measured \in Nat /\ dir \in Directory /\ head \in Nat
  BY <1>2, BufferTyped
<1>4. /\ UNCHANGED <<disk, status, closing, degraded, active, pending, head>>
      /\ UNCHANGED <<rounds, headSeq, staging, upto, hub, dropped, measured, promised>>
      /\ UNCHANGED <<setup, kills, losses, errors>>
      /\ ddir' = dir /\ ops' = <<>> /\ dir' = dir /\ headDurable' = head /\ pc' = "reclaim"
  BY DEF HeadFsyncDir, FsyncDir, staged, buffer, faults
<1>5. /\ Possible' = {dir} /\ dir' = Applied(ddir', ops', 1 .. Len(ops'))
      /\ ops' \in Seq(DirChange) /\ UnlinksOK'
  BY <1>2, <1>3, <1>4, FsyncedDir
<1>6. TypeOK'
  BY <1>2, <1>3, <1>4, <1>5 DEF TypeOK
<1>7. DirsOK'
  <2>1. NewestStays
    <3>1. \A n \in dir.segs : n <= n
      BY <1>3, SegTyped
    <3>. QED  BY <1>4, <3>1 DEF NewestStays, Visible
  <2>2. Accounts
    BY <1>3, <1>4 DEF Accounts
  <2>3. ASSUME NEW d \in Possible, NEW n \in d.segs PROVE FileGrows(n)
    <3>1. d \in Directory
      BY <1>2, <2>3, DirIsPossible DEF DirsOK
    <3>2. Len(disk[n].recs) \in Nat /\ disk[n].synced \in Nat
      BY <1>2, <2>3, <3>1, SegTyped, FileTyped
    <3>. QED  BY <1>4, <3>2 DEF FileGrows, Unsynced
  <2>. QED  BY <1>2, <1>4, <1>5, <1>6, <2>1, <2>2, <2>3, DirsPreserved
<1>8. FilesOK' /\ BufferOK' /\ DownOK'
  BY <1>2, <1>4 DEF FilesOK, SegMax, BufferOK, Settled, DownOK, MutexFree
<1>9. MirrorOK'
  BY <1>1, <1>2, <1>4, MirrorKept
<1>10. FlushOK'
  BY <1>2, <1>3, <1>4 DEF FlushOK
<1>. QED  BY <1>5, <1>6, <1>7, <1>8, <1>9, <1>10 DEF SpoolInv

LEMMA RenameHeadStep ==
  ASSUME SpoolInv, setup \in Setups, Journaled, RenameHead
  PROVE  SpoolInv'
<1>1. pc = "rename"
  BY DEF RenameHead
<1>2. /\ status = "up" /\ ~degraded /\ Mirrored /\ Mirroring
      /\ TypeOK /\ FilesOK /\ DirsOK /\ UnlinksOK /\ BufferOK /\ DownOK /\ MirrorOK /\ FlushOK
      /\ active \in dir.segs /\ active \in Names /\ dir \in Possible /\ GoodDir(dir)
      /\ dir.head = headDurable /\ headDurable <= head /\ head = headSeq
      /\ pending = <<>> /\ disk[active].synced = Len(disk[active].recs) /\ BelowVisible(dir)
  BY <1>1, Flushing DEF SpoolInv, FlushOK, DirsOK
<1>3. /\ measured \in Nat /\ dir \in Directory /\ head \in Nat /\ headDurable \in Nat
      /\ headSeq \in Nat /\ Len(rounds) \in Nat /\ Len(ops) \in Nat
      /\ setup.rounds \in Nat /\ setup.rounds <= MaxRounds /\ MaxRounds \in Nat
  BY <1>2, BufferTyped, ConstantsTyped
<1>4. head <= measured /\ head \in Names
  <2>1. head <= measured /\ measured <= setup.rounds
    BY <1>2, <1>3 DEF BufferOK, TypeOK
  <2>. QED  BY <1>3, <2>1 DEF Names
<1>. DEFINE x == [op |-> "head", arg |-> head]
            c == <<x>>
<1>5. x \in DirChange /\ c \in Seq(DirChange) /\ Len(c) = 1 /\ c[1] = x /\ x.op = "head" /\ x.arg = head
  BY <1>4 DEF DirChange
<1>6. /\ UNCHANGED <<disk, status, closing, degraded, headDurable, active, pending, head>>
      /\ UNCHANGED <<rounds, headSeq, staging, upto, hub, dropped, measured, promised>>
      /\ UNCHANGED <<setup, kills, losses, errors>>
      /\ Change(c) /\ pc' = "headSync"
  BY DEF RenameHead, staged, buffer, faults, history
<1>7. Applied(dir, c, 1 .. 1).segs = dir.segs /\ Applied(dir, c, 1 .. 1).head = head
  BY <1>3, <1>5, AppliedOne
<1>. HIDE DEF x, c
<1>8. /\ ops' \in Seq(DirChange) /\ dir' \in Directory /\ ddir' = ddir
      /\ Len(ops') = Len(ops) + 1
      /\ \A i \in 1 .. Len(ops) : ops'[i] = ops[i]
      /\ ops'[Len(ops) + 1] = x
      /\ dir' = Applied(ddir', ops', 1 .. Len(ops'))
      /\ dir' = Applied(dir, c, 1 .. 1)
      /\ \A d \in Possible' : d \in Possible \/ d = dir'
  <2>1. /\ ops' \in Seq(DirChange) /\ dir' \in Directory /\ ddir' = ddir
        /\ Len(ops') = Len(ops) + Len(c)
        /\ \A i \in 1 .. Len(ops) : ops'[i] = ops[i]
        /\ \A i \in 1 .. Len(c) : ops'[Len(ops) + i] = c[i]
        /\ dir' = Applied(ddir', ops', 1 .. Len(ops'))
        /\ dir' = Applied(dir, c, 1 .. Len(c))
        /\ \A d \in Possible' : d \in Possible \/ \E j \in 1 .. Len(c) : d = Applied(dir, c, 1 .. j)
    BY <1>2, <1>5, <1>6, PossibleAfterChange DEF DirsOK
  <2>. QED  BY <1>5, <2>1
<1>8a. PICK e \in Directory : e = dir'
  BY <1>8
<1>9. e.segs = dir.segs /\ e.head = head
  BY <1>7, <1>8, <1>8a
<1>10. TypeOK'
  BY <1>2, <1>3, <1>6, <1>8 DEF TypeOK
<1>11. FilesOK' /\ BufferOK' /\ DownOK'
  BY <1>1, <1>2, <1>6 DEF FilesOK, SegMax, BufferOK, Settled, DownOK, MutexFree
<1>12. GoodDir(e)'
  <2>1. Contiguous(e)'
    BY <1>2, <1>6, <1>9 DEF GoodDir, Contiguous, End
  <2>2. Reaches(e)'
    <3>1. PICK m \in dir.segs : m <= headDurable
      BY <1>2 DEF GoodDir, Reaches
    <3>2. m \in Nat
      BY <1>3, SegTyped
    <3>3. m <= head
      BY <1>2, <1>3, <3>1, <3>2
    <3>4. head <= active + disk[active].synced
      BY <1>2, HeadReached DEF End
    <3>. QED  BY <1>2, <1>6, <1>9, <3>3, <3>4 DEF Reaches
  <2>3. Bounded(e)'
    BY <1>2, <1>4, <1>6, <1>9 DEF GoodDir, Bounded, End
  <2>4. \A n \in dir.segs : \A i \in 1 .. Len(disk[n].recs) :
          n + i - 1 < head => disk[n].recs[i].id \in Settled
    BY <1>2, StoredRecord DEF Reflects
  <2>5. Retired(e)'
    BY <1>6, <1>9, <2>4 DEF Retired, Settled
  <2>6. ASSUME NEW id \in promised \ Settled
        PROVE  \E n \in dir.segs : \E i \in 1 .. disk[n].synced :
                 disk[n].recs[i].id = id /\ head <= n + i - 1
    <3>1. PICK n \in dir.segs : \E i \in 1 .. disk[n].synced :
            disk[n].recs[i].id = id /\ dir.head <= n + i - 1
      BY <1>2, <2>6 DEF GoodDir, Keeps
    <3>2. PICK i \in 1 .. disk[n].synced : disk[n].recs[i].id = id /\ dir.head <= n + i - 1
      BY <3>1
    <3>3. n \in Nat /\ Len(disk[n].recs) \in Nat /\ disk[n].synced \in Nat
          /\ disk[n].synced <= Len(disk[n].recs)
      BY <1>2, <1>3, SegTyped, FileTyped DEF FilesOK
    <3>4. i \in 1 .. Len(disk[n].recs)
      BY <3>3
    <3>5. ~(n + i - 1 < head)
      BY <2>4, <2>6, <3>2, <3>4
    <3>6. head <= n + i - 1
      BY <1>3, <3>3, <3>4, <3>5
    <3>. QED  BY <3>2, <3>6
  <2>7. Keeps(e)'
    BY <1>6, <1>9, <2>6 DEF Keeps, Settled
  <2>. QED  BY <2>1, <2>2, <2>3, <2>5, <2>7 DEF GoodDir
<1>13. BelowVisible(e)'
  BY <1>2, <1>6, <1>9, <1>8a DEF BelowVisible, Visible, Unsynced
<1>14. DirsOK'
  <2>1. NewestStays
    <3>1. \A n \in dir.segs : n <= n
      BY <1>3, SegTyped
    <3>. QED  BY <1>9, <1>8a, <3>1 DEF NewestStays, Visible
  <2>2. Accounts
    BY <1>3, <1>6 DEF Accounts
  <2>3. ASSUME NEW d \in Possible, NEW n \in d.segs PROVE FileGrows(n)
    <3>1. d \in Directory
      BY <1>2, <2>3, DirIsPossible DEF DirsOK
    <3>2. Len(disk[n].recs) \in Nat /\ disk[n].synced \in Nat
      BY <1>2, <2>3, <3>1, SegTyped, FileTyped
    <3>. QED  BY <1>6, <3>2 DEF FileGrows, Unsynced
  <2>4. \A d \in Possible' : d \in Possible \/ (GoodDir(d)' /\ BelowVisible(d)')
    BY <1>8, <1>12, <1>13, <1>8a
  <2>. QED  BY <1>6, <1>8, <1>10, <2>1, <2>2, <2>3, <2>4, DirsPreserved
<1>15. UnlinksOK'
  <2>1. \A n \in dir.segs : n <= n
    BY <1>3, SegTyped
  <2>2. ASSUME NEW i \in Len(ops) + 1 .. Len(ops'), NEW n \in Names PROVE ops'[i] # Unlink(n)
    <3>1. i = Len(ops) + 1
      BY <1>3, <1>8
    <3>. QED  BY <1>5, <1>8, <3>1 DEF Unlink
  <2>3. Len(ops) <= Len(ops')
    BY <1>3, <1>8
  <2>. QED  BY <1>6, <1>8, <1>9, <1>10, <1>8a, <2>1, <2>2, <2>3, UnlinksPreserved
<1>16. MirrorOK'
  BY <1>1, <1>2, <1>6, <1>9, <1>8a, MirrorKept
<1>17. FlushOK'
  BY <1>1, <1>2, <1>6, <1>9, <1>8a DEF FlushOK
<1>. QED  BY <1>10, <1>11, <1>14, <1>15, <1>16, <1>17 DEF SpoolInv
(* The segment that a flush removes next is the first one.                 *)
LEMMA OldestDead ==
  ASSUME SpoolInv, pc = "reclaim", Dead # {}, NEW x, x = Oldest(Dead)
  PROVE  /\ x \in dir.segs /\ x # active /\ MaxSeq(x) < headDurable
         /\ \A n \in dir.segs : n # x => x < n
<1>1. /\ Mirroring /\ TypeOK /\ FilesOK /\ dir \in Directory /\ headDurable \in Nat
  BY Flushing, BufferTyped
<1>2. Dead \in SUBSET Nat
  BY <1>1, SegTyped DEF Dead, Closed
<1>3. x \in Dead /\ \A y \in Dead : x <= y
  BY <1>2, OldestExists
<1>4. x \in dir.segs /\ x # active /\ MaxSeq(x) < headDurable
  BY <1>3 DEF Dead, Closed
<1>5. ASSUME NEW n \in dir.segs, n < x PROVE FALSE
  <2>1. x < active /\ x < End(x) /\ MaxSeq(x) = End(x) - 1 /\ x \in Names
    BY <1>1, <1>4, ClosedSegment
  <2>2. x \in Nat /\ n \in Nat /\ n \in Names /\ active \in Nat
    BY <1>1, <1>4, SegTyped, BufferTyped
  <2>3. n # active
    BY <1>5, <2>1, <2>2
  <2>4. MaxSeq(n) = End(n) - 1
    BY <1>1, <2>3, ClosedSegment
  <2>5. End(n) <= x
    BY <1>1, <1>4, <1>5, Flushing DEF GoodDir, Contiguous
  <2>6. End(n) \in Nat /\ End(x) \in Nat
    BY <1>1, <2>1, <2>2, FileTyped
  <2>7. MaxSeq(n) < headDurable
    BY <1>1, <1>4, <2>1, <2>2, <2>4, <2>5, <2>6
  <2>8. n \in Dead
    BY <2>3, <2>7 DEF Dead, Closed
  <2>. QED  BY <1>3, <1>5, <2>2, <2>8
<1>6. \A n \in dir.segs : n # x => x < n
  BY <1>1, <1>4, <1>5, SegTyped
<1>. QED  BY <1>4, <1>6

LEMMA ReclaimStep ==
  ASSUME SpoolInv, setup \in Setups, Journaled, Reclaim
  PROVE  SpoolInv'
<1>1. pc = "reclaim"
  BY DEF Reclaim
<1>2. /\ status = "up" /\ ~degraded /\ Mirrored /\ Mirroring
      /\ TypeOK /\ FilesOK /\ DirsOK /\ UnlinksOK /\ BufferOK /\ DownOK /\ MirrorOK /\ FlushOK
      /\ active \in dir.segs /\ active \in Names /\ dir \in Possible /\ GoodDir(dir)
      /\ dir.head = headDurable /\ headDurable <= head /\ head = headSeq /\ Visible(active)
      /\ pending = <<>> /\ disk[active].synced = Len(disk[active].recs) /\ BelowVisible(dir)
  BY <1>1, Flushing DEF SpoolInv, FlushOK, DirsOK
<1>3. /\ measured \in Nat /\ dir \in Directory /\ head \in Nat /\ headDurable \in Nat
      /\ headSeq \in Nat /\ Len(rounds) \in Nat /\ Len(ops) \in Nat /\ active \in Nat
  BY <1>2, BufferTyped, ConstantsTyped
<1>4. /\ UNCHANGED <<disk, status, closing, degraded, headDurable, active, pending, head>>
      /\ UNCHANGED <<rounds, headSeq, staging, upto, hub, dropped, measured, promised>>
      /\ UNCHANGED <<setup, kills, losses, errors>>
      /\ pc' \in {"reclaim", "closed", "idle"}
  BY <1>1 DEF Reclaim, staged, buffer, faults, history, Finished
<1>5. FilesOK' /\ BufferOK' /\ DownOK'
  BY <1>1, <1>2, <1>4 DEF FilesOK, SegMax, BufferOK, Settled, DownOK, MutexFree
<1>6. Accounts
  BY <1>3, <1>4 DEF Accounts
<1>7. CASE Dead = {}
  <2>1. dir' = dir /\ ddir' = ddir /\ ops' = ops /\ pc' # "reclaim"
    BY <1>7 DEF Reclaim, Finished
  <2>2. TypeOK'
    BY <1>2, <1>4, <2>1 DEF TypeOK
  <2>3. DirsOK' /\ UnlinksOK'
    BY <1>4, <1>6, <2>1, <2>2, FilesUnchanged
  <2>4. MirrorOK'
    BY <1>1, <1>2, <1>4, <2>1, MirrorKept
  <2>5. ASSUME NEW m \in dir.segs, NEW n \in dir.segs, m < n PROVE headDurable <= n
    <3>1. m \in Nat /\ n \in Nat /\ n <= active
      BY <1>2, <1>3, SegTyped DEF Visible
    <3>2. m # active
      BY <1>3, <2>5, <3>1
    <3>3. MaxSeq(m) = End(m) - 1 /\ m \in Names
      BY <1>1, <1>2, <3>2, ClosedSegment
    <3>4. End(m) <= n /\ End(m) \in Nat
      BY <1>2, <2>5, <3>3, FileTyped DEF GoodDir, Contiguous
    <3>5. ~(MaxSeq(m) < headDurable)
      BY <1>7, <3>2 DEF Dead, Closed
    <3>. QED  BY <1>3, <3>1, <3>3, <3>4, <3>5
  <2>6. FlushOK'
    BY <1>2, <1>4, <2>1, <2>5 DEF FlushOK
  <2>. QED  BY <1>5, <2>2, <2>3, <2>4, <2>6 DEF SpoolInv
<1>8. CASE Dead # {}
  <2>1. PICK x : x = Oldest(Dead)
    OBVIOUS
  <2>2. /\ x \in dir.segs /\ x # active /\ MaxSeq(x) < headDurable
        /\ \A n \in dir.segs : n # x => x < n
    BY <1>1, <1>8, <2>1, OldestDead
  <2>3. /\ x < active /\ x < End(x) /\ MaxSeq(x) = End(x) - 1 /\ x \in Names
        /\ End(x) \in dir.segs /\ x \in Nat /\ End(x) \in Nat
    BY <1>1, <1>2, <1>3, <2>2, ClosedSegment, SegTyped, FileTyped
  <2>. DEFINE c == <<Unlink(x)>>
  <2>4. /\ Unlink(x) \in DirChange /\ c \in Seq(DirChange) /\ Len(c) = 1 /\ c[1] = Unlink(x)
        /\ Unlink(x).op = "unlink" /\ Unlink(x).arg = x
    BY <2>3 DEF DirChange, Unlink
  <2>5. Change(c) /\ pc' = pc
    BY <1>8, <2>1 DEF Reclaim
  <2>6. /\ Applied(dir, c, 1 .. 1).segs = dir.segs \ {x}
        /\ Applied(dir, c, 1 .. 1).head = dir.head
    BY <1>3, <2>4, AppliedOne
  <2>. HIDE DEF c
  <2>7. /\ ops' \in Seq(DirChange) /\ dir' \in Directory /\ ddir' = ddir
        /\ Len(ops') = Len(ops) + 1
        /\ \A i \in 1 .. Len(ops) : ops'[i] = ops[i]
        /\ ops'[Len(ops) + 1] = Unlink(x)
        /\ dir' = Applied(ddir', ops', 1 .. Len(ops'))
        /\ dir' = Applied(dir, c, 1 .. 1)
        /\ \A d \in Possible' : d \in Possible \/ d = dir'
    <3>1. /\ ops' \in Seq(DirChange) /\ dir' \in Directory /\ ddir' = ddir
          /\ Len(ops') = Len(ops) + Len(c)
          /\ \A i \in 1 .. Len(ops) : ops'[i] = ops[i]
          /\ \A i \in 1 .. Len(c) : ops'[Len(ops) + i] = c[i]
          /\ dir' = Applied(ddir', ops', 1 .. Len(ops'))
          /\ dir' = Applied(dir, c, 1 .. Len(c))
          /\ \A d \in Possible' : d \in Possible \/ \E j \in 1 .. Len(c) : d = Applied(dir, c, 1 .. j)
      BY <1>2, <2>4, <2>5, PossibleAfterChange DEF DirsOK
    <3>. QED  BY <2>4, <3>1
  <2>8. PICK e \in Directory : e = dir'
    BY <2>7
  <2>9. e.segs = dir.segs \ {x} /\ e.head = headDurable
    BY <1>2, <2>6, <2>7, <2>8
  <2>10. TypeOK'
    BY <1>2, <1>3, <1>4, <2>7 DEF TypeOK
  <2>11. active \in e.segs /\ \A n \in dir.segs : n <= active
    BY <1>2, <2>2, <2>9 DEF Visible
  <2>12. GoodDir(e)'
    <3>1. ASSUME NEW m \in e.segs, NEW n \in e.segs, m < n
          PROVE  m < End(m) /\ End(m) <= n /\ End(m) \in e.segs
      <4>1. m < End(m) /\ End(m) <= n /\ End(m) \in dir.segs
        BY <1>2, <2>9, <3>1 DEF GoodDir, Contiguous
      <4>2. x < m /\ m \in Nat /\ m \in Names /\ End(m) \in Nat
        BY <1>2, <1>3, <2>2, <2>9, SegTyped, FileTyped
      <4>3. End(m) # x
        BY <2>3, <4>1, <4>2
      <4>. QED  BY <2>9, <4>1, <4>3
    <3>2. Contiguous(e)'
      BY <1>4, <3>1 DEF Contiguous, End
    <3>3. Reaches(e)'
      <4>1. End(x) \in e.segs /\ End(x) <= headDurable
        BY <1>3, <2>2, <2>3, <2>9
      <4>2. headDurable <= active + disk[active].synced
        <5>1. head <= End(active) /\ End(active) \in Nat
          BY <1>2, HeadReached, BufferTyped
        <5>2. End(active) = active + disk[active].synced
          BY <1>2 DEF End
        <5>. QED  BY <1>2, <1>3, <5>1, <5>2
      <4>. QED  BY <1>4, <2>9, <2>11, <4>1, <4>2 DEF Reaches
    <3>4. Bounded(e)' /\ Retired(e)'
      BY <1>2, <1>4, <2>9 DEF GoodDir, Bounded, Retired, End, Settled
    <3>5. ASSUME NEW id \in promised \ Settled
          PROVE  \E n \in e.segs : \E i \in 1 .. disk[n].synced :
                   disk[n].recs[i].id = id /\ headDurable <= n + i - 1
      <4>1. PICK n \in dir.segs : \E i \in 1 .. disk[n].synced :
              disk[n].recs[i].id = id /\ dir.head <= n + i - 1
        BY <1>2, <3>5 DEF GoodDir, Keeps
      <4>2. PICK i \in 1 .. disk[n].synced : disk[n].recs[i].id = id /\ dir.head <= n + i - 1
        BY <4>1
      <4>3. n # x
        <5>1. SUFFICES ASSUME n = x PROVE FALSE
          OBVIOUS
        <5>2. /\ disk[x].synced \in Nat /\ Len(disk[x].recs) \in Nat
              /\ disk[x].synced <= Len(disk[x].recs) /\ End(x) = x + Len(disk[x].recs)
          BY <1>2, <2>3, FileTyped DEF FilesOK, End
        <5>3. headDurable <= x + i - 1 /\ i <= Len(disk[x].recs) /\ i \in Nat
          BY <1>2, <4>2, <5>1, <5>2
        <5>. QED  BY <1>3, <2>2, <2>3, <5>2, <5>3
      <4>. QED  BY <1>2, <2>9, <4>2, <4>3
    <3>6. Keeps(e)'
      BY <1>4, <2>9, <3>5 DEF Keeps, Settled
    <3>. QED  BY <3>2, <3>3, <3>4, <3>6 DEF GoodDir
  <2>13. NewestStays
    <3>1. ASSUME NEW n \in dir.segs, Visible(n) PROVE n = active
      <4>1. n \in Nat /\ n <= active /\ active <= n
        BY <1>2, <1>3, <2>11, <3>1, SegTyped DEF Visible
      <4>. QED  BY <1>3, <4>1
    <3>2. Visible(active)'
      BY <1>2, <1>4, <2>8, <2>9, <2>11 DEF Visible
    <3>. QED  BY <1>4, <2>8, <2>11, <3>1, <3>2 DEF NewestStays, Visible
  <2>14. BelowVisible(e)'
    <3>1. ASSUME NEW n \in e.segs, Unsynced(n) PROVE Visible(n)'
      <4>1. n \in dir.segs /\ Visible(n)
        BY <1>2, <2>9, <3>1 DEF BelowVisible
      <4>. QED  BY <2>8, <2>9, <3>1, <4>1 DEF Visible
    <3>. QED  BY <1>4, <2>8, <2>9, <2>11, <3>1 DEF BelowVisible, Unsynced
  <2>15. DirsOK'
    <3>1. ASSUME NEW d \in Possible, NEW n \in d.segs PROVE FileGrows(n)
      <4>1. d \in Directory
        BY <1>2, <3>1, DirIsPossible DEF DirsOK
      <4>2. Len(disk[n].recs) \in Nat /\ disk[n].synced \in Nat
        BY <1>2, <3>1, <4>1, SegTyped, FileTyped
      <4>. QED  BY <1>4, <4>2 DEF FileGrows, Unsynced
    <3>2. \A d \in Possible' : d \in Possible \/ (GoodDir(d)' /\ BelowVisible(d)')
      BY <2>7, <2>8, <2>12, <2>14
    <3>. QED  BY <1>4, <1>6, <2>7, <2>10, <2>13, <3>1, <3>2, DirsPreserved
  <2>16. UnlinksOK'
    <3>1. \A n \in dir.segs : \E m \in dir'.segs : n <= m
      BY <2>13 DEF NewestStays
    <3>2. ASSUME NEW i \in Len(ops) + 1 .. Len(ops'), NEW n \in Names, ops'[i] = Unlink(n)
          PROVE  /\ n \notin dir'.segs /\ \E m \in dir'.segs : n < m
                 /\ MaxSeq(n)' < Applied(ddir', ops', 1 .. i).head
      <4>1. i = Len(ops) + 1 /\ i = Len(ops')
        BY <1>3, <2>7
      <4>2. Unlink(n) = Unlink(x)
        BY <2>7, <3>2, <4>1
      <4>3. n = x
        BY <4>2 DEF Unlink
      <4>4. Applied(ddir', ops', 1 .. i) = e
        BY <2>7, <2>8, <4>1
      <4>5. MaxSeq(n)' = MaxSeq(x)
        BY <1>4, <4>3 DEF MaxSeq
      <4>6. n \notin e.segs /\ n < active
        BY <2>3, <2>9, <4>3
      <4>. QED  BY <2>2, <2>8, <2>9, <2>11, <4>4, <4>5, <4>6
    <3>3. Len(ops) <= Len(ops')
      BY <1>3, <2>7
    <3>. QED  BY <1>4, <2>7, <2>8, <2>9, <2>10, <3>1, <3>2, <3>3, UnlinksPreserved
  <2>17. MirrorOK'
    BY <1>1, <1>2, <1>4, <2>5, <2>8, <2>9, <2>11, MirrorKept
  <2>18. FlushOK'
    BY <1>1, <1>2, <1>4, <2>5, <2>8, <2>9 DEF FlushOK
  <2>. QED  BY <1>5, <2>10, <2>15, <2>16, <2>17, <2>18 DEF SpoolInv
<1>. QED  BY <1>7, <1>8
(* The number of the next record, after which a new segment is named.      *)
LEMMA NextRecord ==
  ASSUME SpoolInv, setup \in Setups, Mirroring, pending # <<>>
  PROVE  /\ Head(pending).seq = End(active) /\ End(active) \in Names /\ End(active) < measured
<1>1. TypeOK /\ BufferOK /\ MirrorOK
  BY DEF SpoolInv
<1>2. /\ pending \in Seq(Record) /\ Len(pending) \in Nat /\ End(active) \in Nat /\ measured \in Nat
      /\ headSeq \in Nat /\ Len(rounds) \in Nat
      /\ setup.rounds \in Nat /\ setup.rounds <= MaxRounds /\ MaxRounds \in Nat
  BY <1>1, BufferTyped, ConstantsTyped
<1>3. Len(pending) >= 1 /\ 1 \in 1 .. Len(pending) /\ Head(pending) = pending[1]
  BY <1>2, EmptySeq, HeadTailProperties
<1>4. pending[1].seq = End(active) + 1 - 1
  BY <1>3, StagedRecord
<1>5. End(active) + Len(pending) <= headSeq + Len(rounds) /\ headSeq + Len(rounds) <= measured
  BY <1>1, <1>2 DEF MirrorOK, BufferOK
<1>6. measured <= setup.rounds
  BY <1>1, <1>2 DEF TypeOK
<1>7. End(active) < measured
  BY <1>2, <1>3, <1>5
<1>8. End(active) <= MaxRounds
  BY <1>2, <1>6, <1>7
<1>. QED  BY <1>2, <1>3, <1>4, <1>7, <1>8 DEF Names

LEMMA RollCreateStep ==
  ASSUME SpoolInv, setup \in Setups, Journaled, RollCreate
  PROVE  SpoolInv'
<1>1. pc = "write" /\ pending # <<>> /\ RollNeeded
  BY DEF RollCreate
<1>2. /\ status = "up" /\ ~degraded /\ Mirrored /\ Mirroring
      /\ TypeOK /\ FilesOK /\ DirsOK /\ UnlinksOK /\ BufferOK /\ DownOK /\ MirrorOK /\ FlushOK
      /\ active \in dir.segs /\ active \in Names /\ active \in Nat /\ Visible(active)
      /\ dir \in Possible /\ GoodDir(dir) /\ BelowVisible(dir) /\ dir.head = headDurable
      /\ \A n \in dir.segs : ~disk[n].torn
  BY <1>1, Flushing DEF SpoolInv, DirsOK
<1>3. /\ measured \in Nat /\ dir \in Directory /\ headDurable \in Nat /\ disk \in [Names -> File]
      /\ Len(disk[active].recs) \in Nat /\ End(active) \in Nat
  BY <1>2, BufferTyped
<1>4. PICK new \in Names : new = Head(pending).seq /\ new = End(active) /\ new < measured
  BY <1>1, <1>2, NextRecord
<1>5. active < new /\ new \notin dir.segs /\ new \in Nat /\ \A n \in dir.segs : n < new
  <2>1. active < new
    BY <1>1, <1>2, <1>3, <1>4 DEF RollNeeded, End
  <2>2. new \in Nat
    BY <1>3, <1>4
  <2>3. \A n \in dir.segs : n < new
    BY <1>2, <1>3, <2>1, <2>2, SegTyped DEF Visible
  <2>. QED  BY <2>1, <2>2, <2>3
<1>. DEFINE x == [op |-> "create", arg |-> new]
            c == <<x>>
<1>6. x \in DirChange /\ c \in Seq(DirChange) /\ Len(c) = 1 /\ c[1] = x /\ x.op = "create" /\ x.arg = new
  BY DEF DirChange
<1>7. /\ UNCHANGED <<status, closing, degraded, headDurable, active, pending, head>>
      /\ UNCHANGED <<rounds, headSeq, staging, upto, hub, dropped, measured, promised>>
      /\ UNCHANGED <<setup, kills, losses, errors>>
      /\ ddir' = dir /\ ops' = c /\ dir' = Applied(dir, c, {1}) /\ pc' = "roll"
      /\ disk' = [disk EXCEPT ![active] = SyncedFile(active), ![new] = Empty]
  BY <1>4 DEF RollCreate, staged, buffer, faults, history
<1>8. Applied(dir, c, 1 .. 1).segs = dir.segs \cup {new} /\ Applied(dir, c, 1 .. 1).head = dir.head
  BY <1>3, <1>6, AppliedOne
<1>. HIDE DEF x, c
<1>9. dir' = Applied(dir, c, 1 .. 1) /\ dir' \in Directory
  <2>1. 1 .. 1 = {1} /\ \A i \in 1 .. 1 : c[i] \in DirChange
    BY <1>6
  <2>2. Applied(dir, c, 1 .. 1) \in Directory
    BY <1>3, <2>1, AppliedTyped
  <2>. QED  BY <1>7, <2>1, <2>2
<1>10. PICK e \in Directory : e = dir'
  BY <1>9
<1>11. e.segs = dir.segs \cup {new} /\ e.head = headDurable
  BY <1>2, <1>8, <1>9, <1>10
<1>12. \A d \in Possible' : d = dir \/ d = e
  <2>0. Len(ops') = 1
    BY <1>6, <1>7
  <2>1. \A k \in 0 .. Len(ops') : k = 0 \/ k = 1
    BY <2>0
  <2>2. Applied(ddir', ops', 1 .. 0) = dir
    BY <1>3, <1>7, AppliedNone
  <2>. QED  BY <1>7, <1>9, <1>10, <2>1, <2>2 DEF Possible
<1>13. dir' = Applied(ddir', ops', 1 .. Len(ops'))
  BY <1>6, <1>7, <1>9
<1>14. /\ disk' \in [Names -> File]
       /\ \A n \in Names : n # new => disk'[n].recs = disk[n].recs /\ disk'[n].torn = disk[n].torn
       /\ \A n \in Names : n # active /\ n # new => disk'[n] = disk[n]
       /\ disk'[active].synced = Len(disk[active].recs)
       /\ disk'[new].recs = <<>> /\ disk'[new].synced = 0 /\ disk'[new].torn = FALSE
       /\ Len(disk'[new].recs) = 0
  BY <1>2, <1>3, <1>5, <1>7, SyncedFileIs, EmptyIs
<1>15. TypeOK'
  BY <1>2, <1>6, <1>7, <1>9, <1>14, <1>3 DEF TypeOK
<1>16. FilesOK'
  <2>1. ASSUME NEW n \in Names
        PROVE  /\ Len(disk'[n].recs) <= SegMax
               /\ disk'[n].synced <= Len(disk'[n].recs)
               /\ \A i \in 1 .. Len(disk'[n].recs) : disk'[n].recs[i].seq = n + i - 1
    <3>1. /\ Len(disk[n].recs) <= SegMax /\ disk[n].synced <= Len(disk[n].recs)
          /\ \A i \in 1 .. Len(disk[n].recs) : disk[n].recs[i].seq = n + i - 1
      BY <1>2 DEF FilesOK
    <3>2. CASE n = new
      BY <1>14, <3>2, ConstantsTyped
    <3>3. CASE n # new
      <4>1. disk'[n].recs = disk[n].recs
        BY <1>14, <3>3
      <4>2. disk'[n].synced <= Len(disk[n].recs)
        BY <1>3, <1>14, <3>1, <3>3
      <4>. QED  BY <3>1, <4>1, <4>2
    <3>. QED  BY <3>2, <3>3
  <2>. QED  BY <1>7, <2>1 DEF FilesOK, SegMax
<1>17. ASSUME NEW n \in dir.segs
       PROVE  /\ n \in Names /\ n \in Nat /\ n # new /\ n < new
              /\ disk'[n].recs = disk[n].recs /\ disk'[n].synced = Len(disk[n].recs)
              /\ disk[n].synced \in Nat /\ Len(disk[n].recs) \in Nat
              /\ disk[n].synced <= Len(disk[n].recs) /\ ~disk'[n].torn
              /\ End(n)' = End(n) /\ End(n) <= new
  <2>1. n \in Names /\ n \in Nat /\ n # new /\ n < new
    BY <1>3, <1>5, SegTyped
  <2>2. disk[n].synced \in Nat /\ Len(disk[n].recs) \in Nat /\ disk[n].synced <= Len(disk[n].recs)
    BY <1>2, <2>1, FileTyped DEF FilesOK
  <2>3. disk'[n].synced = Len(disk[n].recs)
    <3>1. CASE n = active
      BY <1>14, <3>1
    <3>2. CASE n # active
      BY <1>1, <1>2, <1>14, <2>1, <3>2, ClosedSegment
    <3>. QED  BY <3>1, <3>2
  <2>4. disk'[n].recs = disk[n].recs /\ ~disk'[n].torn
    BY <1>2, <1>14, <2>1
  <2>5. End(n) <= End(active)
    BY <1>2, StoredBelow
  <2>. QED  BY <1>4, <2>1, <2>2, <2>3, <2>4, <2>5 DEF End
<1>18. End(new)' = new
  BY <1>5, <1>14 DEF End
<1>19. PICK d \in Directory : d = dir
  BY <1>3
<1>21. GoodDir(d)' /\ BelowVisible(d)'
  <2>1. \A n \in d.segs : Grows(d, n)
    BY <1>17, <1>19 DEF Grows
  <2>2. GoodDir(d)'
    <3>1. hub \subseteq hub' /\ dropped \subseteq dropped' /\ measured <= measured' /\ promised' = promised
      BY <1>3, <1>7
    <3>. QED  BY <1>2, <1>15, <1>19, <2>1, <3>1, GoodDirKept DEF GoodDir
  <2>3. new \in dir'.segs
    BY <1>10, <1>11
  <2>4. ASSUME NEW n \in d.segs PROVE n <= new /\ ~Unsynced(n)'
    BY <1>5, <1>17, <1>19, <2>4 DEF Unsynced
  <2>5. BelowVisible(d)'
    BY <2>3, <2>4 DEF BelowVisible
  <2>. QED  BY <2>2, <2>5
<1>22. GoodDir(e)'
  <2>1. ASSUME NEW m \in e.segs, NEW n \in e.segs, m < n
        PROVE  m < End(m)' /\ End(m)' <= n /\ End(m)' \in e.segs
    <3>1. m \in dir.segs
      BY <1>5, <1>11, <1>17, <2>1
    <3>2. CASE n = new
      <4>1. CASE m = active
        BY <1>4, <1>5, <1>11, <1>17, <3>1, <3>2, <4>1
      <4>2. CASE m # active
        <5>1. m < End(m) /\ End(m) <= new /\ End(m) \in dir.segs
          BY <1>1, <1>2, <1>17, <3>1, <4>2, ClosedSegment
        <5>. QED  BY <1>11, <1>17, <3>1, <3>2, <5>1
      <4>. QED  BY <4>1, <4>2
    <3>3. CASE n # new
      <4>1. n \in dir.segs
        BY <1>11, <3>3
      <4>2. m < End(m) /\ End(m) <= n /\ End(m) \in dir.segs
        BY <1>2, <2>1, <3>1, <4>1 DEF GoodDir, Contiguous
      <4>. QED  BY <1>11, <1>17, <3>1, <4>2
    <3>. QED  BY <3>2, <3>3
  <2>2. Contiguous(e)'
    BY <2>1 DEF Contiguous
  <2>3. Reaches(e)'
    <3>1. /\ \E m \in d.segs : m <= d.head
          /\ \E n \in d.segs : d.head <= n + disk'[n].synced
      BY <1>2, <1>19, <1>21 DEF GoodDir, Reaches
    <3>. QED  BY <1>2, <1>11, <1>19, <3>1 DEF Reaches
  <2>4. Bounded(e)'
    <3>1. d.head <= measured' /\ \A n \in d.segs : End(n)' <= measured'
      BY <1>21 DEF GoodDir, Bounded
    <3>2. End(new)' <= measured'
      BY <1>3, <1>4, <1>5, <1>7, <1>18
    <3>. QED  BY <1>2, <1>11, <1>19, <3>1, <3>2 DEF Bounded
  <2>5. Retired(e)'
    <3>1. \A n \in d.segs : \A i \in 1 .. Len(disk'[n].recs) :
            n + i - 1 < d.head => disk'[n].recs[i].id \in Settled'
      BY <1>21 DEF GoodDir, Retired
    <3>2. \A i \in 1 .. Len(disk'[new].recs) : FALSE
      BY <1>14
    <3>. QED  BY <1>2, <1>11, <1>19, <3>1, <3>2 DEF Retired
  <2>6. Keeps(e)'
    <3>1. \A id \in promised' \ Settled' : \E n \in d.segs : \E i \in 1 .. disk'[n].synced :
            disk'[n].recs[i].id = id /\ d.head <= n + i - 1
      BY <1>21 DEF GoodDir, Keeps
    <3>2. d.segs \subseteq e.segs /\ d.head = e.head
      BY <1>2, <1>11, <1>19
    <3>. QED  BY <3>1, <3>2 DEF Keeps
  <2>. QED  BY <2>2, <2>3, <2>4, <2>5, <2>6 DEF GoodDir
<1>23. BelowVisible(e)'
  <2>1. ASSUME NEW n \in e.segs PROVE n <= new /\ ~Unsynced(n)'
    <3>1. CASE n = new
      BY <1>5, <1>14, <3>1 DEF Unsynced
    <3>2. CASE n # new
      <4>1. n \in dir.segs
        BY <1>11, <3>2
      <4>. QED  BY <1>5, <1>17, <4>1 DEF Unsynced
    <3>. QED  BY <3>1, <3>2
  <2>. QED  BY <1>10, <1>11, <2>1 DEF BelowVisible
<1>24. DirsOK'
  BY <1>12, <1>13, <1>19, <1>21, <1>22, <1>23 DEF DirsOK
<1>25. UnlinksOK'
  <2>0. ops' = c /\ Len(ops') = 1
    BY <1>6, <1>7
  <2>1. ASSUME NEW i \in 1 .. Len(ops') PROVE ops'[i].op = "create"
    <3>1. i = 1
      BY <2>0
    <3>. QED  BY <1>6, <2>0, <3>1
  <2>. QED  BY <2>1 DEF UnlinksOK
<1>26. BufferOK' /\ DownOK'
  BY <1>2, <1>7 DEF BufferOK, Settled, DownOK
<1>27. MirrorOK'
  <2>1. End(active)' = new
    BY <1>2, <1>4, <1>7, <1>17 DEF End
  <2>2. Visible(new)'
    BY <1>5, <1>10, <1>11, <1>17 DEF Visible
  <2>3. ASSUME NEW n \in e.segs, NEW i \in 1 .. Len(disk'[n].recs) PROVE Reflects(disk[n].recs[i])'
    <3>1. n # new
      BY <1>14, <2>3
    <3>2. n \in dir.segs
      BY <1>11, <3>1
    <3>3. Reflects(disk[n].recs[i]) /\ disk'[n].recs[i] = disk[n].recs[i]
      BY <1>2, <1>17, <3>2, StoredRecord
    <3>. QED  BY <1>7, <3>3 DEF Reflects, Settled
  <2>4. /\ \A i \in 1 .. Len(pending) : pending[i].seq = End(active) + i - 1
        /\ headSeq + Len(rounds) = End(active) + Len(pending) + (IF staging THEN 1 ELSE 0)
        /\ head = headSeq
        /\ \A i \in 1 .. Len(pending) : Reflects(pending[i])
    BY <1>2 DEF MirrorOK
  <2>5. \A n \in e.segs : ~disk'[n].torn
    BY <1>11, <1>14, <1>17
  <2>6. active \in e.segs
    BY <1>2, <1>11
  <2>7. Visible(End(active))' /\ (disk[End(active)].recs)' = <<>> /\ active < End(active)'
    BY <1>5, <1>14, <2>1, <2>2 DEF Visible
  <2>8. \A n \in dir'.segs : \A i \in 1 .. Len(disk'[n].recs) : Reflects(disk[n].recs[i])'
    BY <1>10, <2>3
  <2>9. \A i \in 1 .. Len(pending') : pending'[i].seq = End(active)' + i - 1 /\ Reflects(pending[i])'
    BY <1>4, <1>7, <2>1, <2>4 DEF Reflects, Settled
  <2>10. headSeq' + Len(rounds') = End(active)' + Len(pending') + (IF staging' THEN 1 ELSE 0)
         /\ head' = headSeq'
    BY <1>4, <1>7, <2>1, <2>4
  <2>. QED  BY <1>1, <1>7, <1>10, <2>5, <2>6, <2>7, <2>8, <2>9, <2>10 DEF MirrorOK
<1>28. FlushOK'
  <2>1. headDurable <= new
    BY <1>2, <1>3, <1>4, HeadBelowEnd DEF GoodDir, Visible
  <2>2. ASSUME NEW m \in e.segs, NEW n \in e.segs, m < n PROVE headDurable <= n
    <3>1. m \in dir.segs
      BY <1>5, <1>11, <1>17, <2>2
    <3>. QED  BY <1>1, <1>2, <1>11, <2>1, <2>2, <3>1 DEF FlushOK
  <2>. QED  BY <1>2, <1>7, <1>10, <1>11, <2>2 DEF FlushOK
<1>. QED  BY <1>15, <1>16, <1>24, <1>25, <1>26, <1>27, <1>28 DEF SpoolInv
LEMMA RollFsyncDirStep ==
  ASSUME SpoolInv, setup \in Setups, Journaled, RollFsyncDir
  PROVE  SpoolInv'
<1>1. pc = "roll"
  BY DEF RollFsyncDir
<1>2. /\ status = "up" /\ ~degraded /\ Mirrored /\ Mirroring
      /\ TypeOK /\ FilesOK /\ DirsOK /\ UnlinksOK /\ BufferOK /\ DownOK /\ MirrorOK /\ FlushOK
      /\ active \in dir.segs /\ dir \in Possible /\ dir.head = headDurable
      /\ pending # <<>> /\ Visible(End(active)) /\ disk[End(active)].recs = <<>>
  BY <1>1, Flushing DEF SpoolInv, MirrorOK
<1>3. measured \in Nat /\ dir \in Directory
  BY <1>2, BufferTyped
<1>4. PICK new \in Names : new = Head(pending).seq /\ new = End(active)
  BY <1>2, NextRecord
<1>5. /\ UNCHANGED <<disk, status, closing, degraded, headDurable, pending, head>>
      /\ UNCHANGED <<rounds, headSeq, staging, upto, hub, dropped, measured, promised>>
      /\ UNCHANGED <<setup, kills, losses, errors>>
      /\ ddir' = dir /\ ops' = <<>> /\ dir' = dir /\ active' = new /\ pc' = "write"
  BY <1>4 DEF RollFsyncDir, FsyncDir, staged, buffer, faults, history
<1>6. /\ Possible' = {dir} /\ dir' = Applied(ddir', ops', 1 .. Len(ops'))
      /\ ops' \in Seq(DirChange) /\ UnlinksOK'
  BY <1>2, <1>3, <1>5, FsyncedDir
<1>7. TypeOK'
  BY <1>2, <1>3, <1>5, <1>6 DEF TypeOK
<1>8. DirsOK'
  <2>1. NewestStays
    <3>1. \A n \in dir.segs : n <= n
      BY <1>3, SegTyped
    <3>. QED  BY <1>5, <3>1 DEF NewestStays, Visible
  <2>2. Accounts
    BY <1>3, <1>5 DEF Accounts
  <2>3. ASSUME NEW d \in Possible, NEW n \in d.segs PROVE FileGrows(n)
    <3>1. d \in Directory
      BY <1>2, <2>3, DirIsPossible DEF DirsOK
    <3>2. Len(disk[n].recs) \in Nat /\ disk[n].synced \in Nat
      BY <1>2, <2>3, <3>1, SegTyped, FileTyped
    <3>. QED  BY <1>5, <3>2 DEF FileGrows, Unsynced
  <2>. QED  BY <1>2, <1>5, <1>6, <1>7, <2>1, <2>2, <2>3, DirsPreserved
<1>9. FilesOK' /\ BufferOK' /\ DownOK'
  BY <1>2, <1>5 DEF FilesOK, SegMax, BufferOK, Settled, DownOK, MutexFree
<1>10. MirrorOK'
  <2>1. new \in dir.segs /\ Visible(new)'
    BY <1>2, <1>4, <1>5 DEF Visible
  <2>2. Len(disk[new].recs) = 0 /\ new \in Nat
    BY <1>2, <1>4, EmptyIs, FileTyped DEF Empty
  <2>3. End(active)' = End(active)
    BY <1>4, <1>5, <2>2 DEF End
  <2>4. /\ \A n \in dir.segs : ~disk[n].torn
        /\ \A i \in 1 .. Len(pending) : pending[i].seq = End(active) + i - 1
        /\ headSeq + Len(rounds) = End(active) + Len(pending) + (IF staging THEN 1 ELSE 0)
        /\ head = headSeq
        /\ \A n \in dir.segs : \A i \in 1 .. Len(disk[n].recs) : Reflects(disk[n].recs[i])
        /\ \A i \in 1 .. Len(pending) : Reflects(pending[i])
    BY <1>2 DEF MirrorOK
  <2>5. /\ \A n \in dir'.segs : \A i \in 1 .. Len(disk'[n].recs) : Reflects(disk[n].recs[i])'
        /\ \A i \in 1 .. Len(pending') : Reflects(pending[i])'
    BY <1>5, <2>4 DEF Reflects, Settled
  <2>. QED  BY <1>5, <2>1, <2>3, <2>4, <2>5 DEF MirrorOK
<1>11. FlushOK'
  BY <1>1, <1>2, <1>5 DEF FlushOK
<1>. QED  BY <1>6, <1>7, <1>8, <1>9, <1>10, <1>11 DEF SpoolInv
-----------------------------------------------------------------------------
(* The ends of a process.                                                  *)

(* A write that fails or is cut short may tear the newest segment.         *)
LEMMA TearStep ==
  ASSUME SpoolInv, TypeOK', NEW b \in BOOLEAN, disk' = [disk EXCEPT ![active].torn = b],
         b => Unsynced(active) \/ Visible(active),
         UNCHANGED <<setup, dir, ddir, ops, promised>>, Accounts
  PROVE  FilesOK' /\ DirsOK' /\ UnlinksOK'
<1>1. TypeOK /\ FilesOK /\ DirsOK /\ UnlinksOK /\ dir \in Directory /\ active \in Names
      /\ Len(ops) \in Nat
  BY BufferTyped DEF SpoolInv
<1>2. /\ \A n \in Names : disk'[n].recs = disk[n].recs /\ disk'[n].synced = disk[n].synced
      /\ \A n \in Names : n # active => disk'[n] = disk[n]
      /\ disk'[active].torn = b
  BY <1>1, TornFile
<1>3. FilesOK'
  BY <1>1, <1>2 DEF FilesOK, SegMax
<1>4. NewestStays
  <2>1. \A n \in dir.segs : n <= n
    BY <1>1, SegTyped
  <2>. QED  BY <2>1 DEF NewestStays, Visible
<1>5. ASSUME NEW d \in Possible, NEW n \in d.segs PROVE FileGrows(n)
  <2>1. d \in Directory
    BY <1>1, <1>5, DirIsPossible DEF DirsOK
  <2>2. n \in Names /\ Len(disk[n].recs) \in Nat /\ disk[n].synced \in Nat
    BY <1>1, <1>5, <2>1, SegTyped, FileTyped
  <2>3. Unsynced(n)' => Unsynced(n) \/ Visible(n)
    <3>1. CASE n = active
      BY <1>2, <2>2, <3>1 DEF Unsynced
    <3>2. CASE n # active
      BY <1>2, <2>2, <3>2 DEF Unsynced
    <3>. QED  BY <3>1, <3>2
  <2>. QED  BY <1>2, <2>2, <2>3 DEF FileGrows
<1>6. Possible' = Possible /\ dir' = Applied(ddir', ops', 1 .. Len(ops'))
  BY <1>1 DEF Possible, DirsOK
<1>7. DirsOK'
  BY <1>4, <1>5, <1>6, DirsPreserved
<1>8. UnlinksOK'
  <2>1. \A n \in dir.segs : n <= n
    BY <1>1, SegTyped
  <2>2. \A n \in Names \ dir.segs : disk'[n].recs = disk[n].recs
    BY <1>2
  <2>3. Len(ops) + 1 .. Len(ops) = {}
    BY <1>1
  <2>. QED  BY <1>1, <2>1, <2>2, <2>3, UnlinksPreserved
<1>. QED  BY <1>3, <1>7, <1>8

LEMMA DegradeStep ==
  ASSUME SpoolInv, setup \in Setups, Journaled, Degrade
  PROVE  SpoolInv'
<1>1. /\ pc \in {"write", "roll", "rename", "headSync"} /\ status = "up"
      /\ TypeOK /\ BufferOK /\ DownOK /\ active \in Names /\ measured \in Nat
      /\ pc = "write" => Visible(active)
  BY Flushing, BufferTyped DEF Degrade
<1>2. PICK b \in {FALSE, pc = "write" /\ pending # <<>> /\ ~RollNeeded} :
        disk' = [disk EXCEPT ![active].torn = b]
  BY DEF Degrade
<1>3. b \in BOOLEAN /\ (b => Visible(active))
  BY <1>1, <1>2
<1>4. /\ UNCHANGED <<dir, ddir, ops, status, closing, headDurable, active, head>>
      /\ UNCHANGED <<rounds, headSeq, staging, upto, hub, dropped, measured, promised>>
      /\ UNCHANGED <<setup, kills, losses>>
      /\ errors' = errors + 1 /\ degraded' = TRUE /\ pending' = <<>> /\ pc' \in {"closed", "idle"}
  BY DEF Degrade, Finished, buffer, history
<1>5. disk' \in [Names -> File]
  BY <1>1, <1>2, <1>3, TornFile
<1>6. TypeOK'
  BY <1>1, <1>4, <1>5 DEF TypeOK
<1>7. Accounts
  BY <1>1, <1>4 DEF Accounts
<1>8. FilesOK' /\ DirsOK' /\ UnlinksOK'
  BY <1>2, <1>3, <1>4, <1>6, <1>7, TearStep
<1>9. BufferOK' /\ DownOK'
  BY <1>1, <1>4 DEF BufferOK, DownOK, Settled, MutexFree
<1>10. ~Mirroring'
  BY <1>4 DEF Mirroring, Mirrored
<1>. QED  BY <1>6, <1>8, <1>9, <1>10 DEF SpoolInv, MirrorOK, FlushOK

(* Nothing of a process that has ended is left but its files.              *)
LEMMA DownStep ==
  ASSUME TypeOK, Down, setup' = setup, disk' \in [Names -> File], dir' \in Directory,
         ddir' \in Directory, ops' \in Seq(DirChange),
         kills' \in Nat, losses' \in Nat, errors' \in Nat
  PROVE  TypeOK' /\ BufferOK' /\ DownOK' /\ MirrorOK' /\ FlushOK' /\ Accounts
<1>1. measured \in Nat /\ 0 \in Names /\ Cap \in Nat
  BY BufferTyped, SpoolAssumption DEF Names
<1>2. TypeOK'
  <2>1. /\ status' = "down" /\ pc' = "idle" /\ closing' = FALSE /\ degraded' = FALSE
        /\ pending' = <<>> /\ head' = 0 /\ headDurable' = 0 /\ active' = 0
        /\ rounds' = <<>> /\ headSeq' = 0 /\ staging' = FALSE /\ upto' = -1
        /\ measured' = measured
    BY DEF Down, history
  <2>2. pending' \in Seq(Record) /\ rounds' \in Seq(Nat)
    BY <2>1
  <2>3. measured' \in 0 .. setup'.rounds
    BY <2>1 DEF TypeOK
  <2>4. /\ status' \in {"down", "opening", "up", "refused"}
        /\ pc' \in {"idle", "closed", "write", "roll", "rename", "headSync", "reclaim"}
        /\ closing' \in BOOLEAN /\ degraded' \in BOOLEAN /\ staging' \in BOOLEAN
    BY <2>1
  <2>5. /\ head' \in Nat /\ headDurable' \in Nat /\ headSeq' \in Nat
        /\ active' \in Names /\ upto' \in Int
    BY <1>1, <2>1
  <2>. QED  BY <2>2, <2>3, <2>4, <2>5 DEF TypeOK
<1>3. BufferOK'
  <2>1. Len(rounds') = 0 /\ rounds' = <<>>
    BY EmptySeq DEF Down
  <2>. QED  BY <1>1, <2>1 DEF BufferOK, Down, history
<1>4. DownOK'
  BY DEF DownOK, Down, MutexFree
<1>5. ~Mirroring'
  BY DEF Mirroring, Down
<1>6. Accounts
  BY <1>1 DEF Accounts, Down, history
<1>. QED  BY <1>2, <1>3, <1>4, <1>5, <1>6 DEF MirrorOK, FlushOK

LEMMA ExitStep ==
  ASSUME SpoolInv, setup \in Setups, Journaled, Exit
  PROVE  SpoolInv'
<1>1. TypeOK
  BY DEF SpoolInv
<1>2. Down /\ UNCHANGED <<disk, dir, ddir, ops, setup, kills, losses, errors, promised>>
  BY DEF Exit, files, faults, Down, history
<1>3. TypeOK' /\ BufferOK' /\ DownOK' /\ MirrorOK' /\ FlushOK' /\ Accounts
  BY <1>1, <1>2, DownStep DEF TypeOK
<1>4. FilesOK' /\ DirsOK' /\ UnlinksOK'
  BY <1>2, <1>3, FilesUnchanged
<1>. QED  BY <1>3, <1>4 DEF SpoolInv

LEMMA KillStep ==
  ASSUME SpoolInv, setup \in Setups, Journaled, Kill
  PROVE  SpoolInv'
<1>1. TypeOK /\ active \in Names /\ (pc = "write" => Visible(active))
  BY Flushing, BufferTyped DEF SpoolInv
<1>2. PICK t \in {FALSE, pc = "write" /\ pending # <<>> /\ ~RollNeeded} :
        disk' = [disk EXCEPT ![active].torn = t \/ disk[active].torn]
  BY DEF Kill
<1>3. PICK b \in BOOLEAN : b = (t \/ disk[active].torn)
  OBVIOUS
<1>4. b => Unsynced(active) \/ Visible(active)
  BY <1>1, <1>2, <1>3 DEF Unsynced
<1>5. disk' = [disk EXCEPT ![active].torn = b]
  BY <1>2, <1>3
<1>6. Down /\ UNCHANGED <<dir, ddir, ops, setup, losses, errors, promised>> /\ kills' = kills + 1
  BY DEF Kill, Down, history
<1>7. disk' \in [Names -> File]
  BY <1>1, <1>5, TornFile
<1>8. TypeOK' /\ BufferOK' /\ DownOK' /\ MirrorOK' /\ FlushOK' /\ Accounts
  BY <1>1, <1>6, <1>7, DownStep DEF TypeOK
<1>9. FilesOK' /\ DirsOK' /\ UnlinksOK'
  BY <1>4, <1>5, <1>6, <1>8, TearStep
<1>. QED  BY <1>8, <1>9 DEF SpoolInv
LEMMA PowerLossStep ==
  ASSUME SpoolInv, setup \in Setups, Journaled, PowerLoss
  PROVE  SpoolInv'
<1>1. /\ TypeOK /\ FilesOK /\ DirsOK /\ ops \in Seq(DirChange) /\ Len(ops) \in Nat
      /\ disk \in [Names -> File] /\ SegMax \in Nat
  BY BufferTyped, ConstantsTyped DEF SpoolInv
<1>. DEFINE surv(k, n) == IF k < disk[n].synced THEN disk[n].synced
                          ELSE IF k > Len(disk[n].recs) THEN Len(disk[n].recs) ELSE k
<1>2. PICK keep \in {1 .. k : k \in 0 .. Len(ops)}, k \in 0 .. SegMax, t \in BOOLEAN :
        /\ dir' = Applied(ddir, ops, keep)
        /\ disk' = [n \in Names |->
             IF n \notin dir'.segs THEN Empty
             ELSE [recs |-> SubSeq(disk[n].recs, 1, surv(k, n)), synced |-> surv(k, n),
                   torn |-> t /\ (surv(k, n) < Len(disk[n].recs) \/ disk[n].torn)]]
  BY DEF PowerLoss
<1>3. PICK e \in Directory : e = dir' /\ e \in Possible /\ GoodDir(e) /\ BelowVisible(e)
  <2>1. dir' \in Possible
    BY <1>2 DEF Possible
  <2>. QED  BY <1>1, <2>1, DirIsPossible DEF DirsOK
<1>4. Down /\ UNCHANGED <<setup, kills, errors, promised>> /\ losses' = losses + 1
      /\ ddir' = e /\ ops' = <<>> /\ dir' = e
  BY <1>3 DEF PowerLoss, Down, history
<1>5. ASSUME NEW n \in Names
      PROVE  /\ n \in Nat /\ disk[n].recs \in Seq(Record) /\ Len(disk[n].recs) \in Nat
             /\ disk[n].synced \in Nat /\ disk[n].torn \in BOOLEAN
             /\ surv(k, n) \in Nat /\ disk[n].synced <= surv(k, n)
             /\ surv(k, n) <= Len(disk[n].recs) /\ Len(disk[n].recs) <= SegMax
             /\ SubSeq(disk[n].recs, 1, surv(k, n)) \in Seq(Record)
             /\ Len(SubSeq(disk[n].recs, 1, surv(k, n))) = surv(k, n)
             /\ \A i \in 1 .. surv(k, n) : SubSeq(disk[n].recs, 1, surv(k, n))[i] = disk[n].recs[i]
  <2>1. /\ n \in Nat /\ disk[n].recs \in Seq(Record) /\ Len(disk[n].recs) \in Nat
        /\ disk[n].synced \in Nat /\ disk[n].torn \in BOOLEAN
        /\ disk[n].synced <= Len(disk[n].recs) /\ Len(disk[n].recs) <= SegMax
    BY <1>1, FileTyped DEF FilesOK
  <2>2. /\ surv(k, n) \in Nat /\ disk[n].synced <= surv(k, n)
        /\ surv(k, n) <= Len(disk[n].recs)
    BY <1>1, <2>1
  <2>3. PICK m \in Nat : m = surv(k, n)
    BY <2>2
  <2>4. PICK s \in Seq(Record) : s = disk[n].recs
    BY <2>1
  <2>5. /\ SubSeq(s, 1, m) \in Seq(Record) /\ Len(SubSeq(s, 1, m)) = m
        /\ \A i \in 1 .. m : SubSeq(s, 1, m)[i] = s[i]
    <3>1. m <= Len(s) /\ 1 \in Int /\ m \in Int
      BY <2>2, <2>3, <2>4
    <3>. QED  BY <3>1
  <2>. HIDE DEF surv
  <2>. QED  BY <2>1, <2>2, <2>3, <2>4, <2>5
<1>. HIDE DEF surv
<1>6. ASSUME NEW n \in Names, n \notin e.segs
      PROVE  /\ disk'[n] \in File /\ Len(disk'[n].recs) = 0 /\ disk'[n].synced = 0
  <2>1. disk'[n] = Empty
    BY <1>2, <1>3, <1>6
  <2>. QED  BY <2>1, EmptyIs
<1>7. ASSUME NEW n \in e.segs
      PROVE  /\ n \in Names /\ disk'[n] \in File
             /\ Len(disk'[n].recs) = surv(k, n) /\ disk'[n].synced = surv(k, n)
             /\ \A i \in 1 .. surv(k, n) : disk'[n].recs[i] = disk[n].recs[i]
             /\ disk'[n].torn => surv(k, n) < Len(disk[n].recs) \/ disk[n].torn
  <2>1. n \in Names
    BY SegTyped
  <2>2. disk'[n] = [recs |-> SubSeq(disk[n].recs, 1, surv(k, n)), synced |-> surv(k, n),
                    torn |-> t /\ (surv(k, n) < Len(disk[n].recs) \/ disk[n].torn)]
    BY <1>2, <1>3, <2>1
  <2>3. disk'[n] \in File
    BY <1>5, <2>1, <2>2 DEF File
  <2>. QED  BY <1>5, <2>1, <2>2, <2>3
<1>8. disk' \in [Names -> File]
  <2>1. \A n \in Names : disk'[n] \in File
    BY <1>6, <1>7
  <2>. QED  BY <1>2, <2>1
<1>9. /\ Possible' = {e} /\ dir' = Applied(ddir', ops', 1 .. Len(ops'))
      /\ ops' \in Seq(DirChange) /\ UnlinksOK'
  BY <1>4, DurableDir
<1>10. TypeOK' /\ BufferOK' /\ DownOK' /\ MirrorOK' /\ FlushOK' /\ Accounts
  <2>1. kills' \in Nat /\ losses' \in Nat /\ errors' \in Nat
    BY <1>1, <1>4 DEF TypeOK
  <2>. QED  BY <1>1, <1>4, <1>8, <1>9, <2>1, DownStep
<1>11. FilesOK'
  <2>1. ASSUME NEW n \in Names
        PROVE  /\ Len(disk'[n].recs) <= SegMax
               /\ disk'[n].synced <= Len(disk'[n].recs)
               /\ \A i \in 1 .. Len(disk'[n].recs) : disk'[n].recs[i].seq = n + i - 1
    <3>1. CASE n \notin e.segs
      BY <1>1, <1>6, <3>1
    <3>2. CASE n \in e.segs
      <4>1. /\ surv(k, n) \in Nat /\ Len(disk[n].recs) \in Nat
            /\ surv(k, n) <= Len(disk[n].recs) /\ Len(disk[n].recs) <= SegMax
        BY <1>5
      <4>2. \A i \in 1 .. surv(k, n) : disk[n].recs[i].seq = n + i - 1
        BY <1>1, <4>1 DEF FilesOK
      <4>3. /\ Len(disk'[n].recs) = surv(k, n) /\ disk'[n].synced = surv(k, n)
            /\ \A i \in 1 .. surv(k, n) : disk'[n].recs[i] = disk[n].recs[i]
        BY <1>7, <3>2
      <4>4. \A i \in 1 .. surv(k, n) : disk'[n].recs[i].seq = n + i - 1
        BY <4>2, <4>3
      <4>. QED  BY <1>1, <4>1, <4>3, <4>4
    <3>. QED  BY <3>1, <3>2
  <2>. QED  BY <1>4, <2>1 DEF FilesOK, SegMax
<1>12. ASSUME NEW n \in e.segs
       PROVE  /\ n \in Names /\ n \in Nat
              /\ disk[n].synced \in Nat /\ Len(disk[n].recs) \in Nat /\ surv(k, n) \in Nat
              /\ disk[n].synced <= surv(k, n) /\ surv(k, n) <= Len(disk[n].recs)
              /\ End(n) = n + Len(disk[n].recs) /\ End(n)' = n + surv(k, n)
  BY <1>5, <1>7 DEF End
<1>13. ASSUME NEW n \in e.segs, Visible(n) PROVE \A m \in e.segs : m <= n
  <2>1. ASSUME NEW m \in e.segs PROVE m <= n
    <3>1. PICK v \in dir.segs : m <= v
      BY <1>3 DEF BelowVisible
    <3>2. v <= n /\ v \in Nat
      BY <1>1, <1>13, SegTyped DEF Visible, TypeOK
    <3>. QED  BY <1>12, <3>1, <3>2
  <2>. QED  BY <2>1
<1>14. GoodDir(e)'
  <2>1. ASSUME NEW m \in e.segs, NEW n \in e.segs, m < n
        PROVE  m < End(m)' /\ End(m)' <= n /\ End(m)' \in e.segs
    <3>1. ~Visible(m)
      BY <1>12, <1>13, <2>1
    <3>2. ~(disk[m].synced < Len(disk[m].recs))
      BY <1>3, <3>1 DEF BelowVisible, Unsynced
    <3>3. End(m)' = End(m)
      <4>1. /\ disk[m].synced \in Nat /\ Len(disk[m].recs) \in Nat /\ surv(k, m) \in Nat
            /\ disk[m].synced <= surv(k, m) /\ surv(k, m) <= Len(disk[m].recs)
        BY <1>12
      <4>2. surv(k, m) = Len(disk[m].recs)
        BY <3>2, <4>1
      <4>3. End(m) = m + Len(disk[m].recs) /\ End(m)' = m + surv(k, m)
        BY <1>12
      <4>. QED  BY <4>2, <4>3
    <3>. QED  BY <1>3, <2>1, <3>3 DEF GoodDir, Contiguous
  <2>2. Contiguous(e)'
    BY <2>1 DEF Contiguous
  <2>3. Reaches(e)'
    <3>1. ASSUME e.segs # {}
          PROVE  (\E m \in e.segs : m <= e.head) /\ \E n \in e.segs : e.head <= n + disk'[n].synced
      <4>1. PICK n \in e.segs : e.head <= n + disk[n].synced
        BY <1>3, <3>1 DEF GoodDir, Reaches
      <4>2. e.head <= n + surv(k, n) /\ disk'[n].synced = surv(k, n)
        BY <1>7, <1>12, <4>1, DirectoryRecord
      <4>3. \E m \in e.segs : m <= e.head
        BY <1>3, <3>1 DEF GoodDir, Reaches
      <4>. QED  BY <4>2, <4>3
    <3>. QED  BY <3>1 DEF Reaches
  <2>4. Bounded(e)'
    <3>1. measured' = measured /\ measured \in Nat
      BY <1>1, <1>4, BufferTyped DEF Down, history
    <3>2. ASSUME NEW n \in e.segs PROVE End(n)' <= measured
      <4>1. End(n) <= measured
        BY <1>3 DEF GoodDir, Bounded
      <4>. QED  BY <1>12, <3>1, <4>1
    <3>. QED  BY <1>3, <3>1, <3>2 DEF GoodDir, Bounded
  <2>5. Settled' = Settled /\ promised' = promised
    BY <1>4 DEF Settled, Down, history
  <2>6. Retired(e)'
    <3>1. ASSUME NEW n \in e.segs, NEW i \in 1 .. Len(disk'[n].recs), n + i - 1 < e.head
          PROVE  disk'[n].recs[i].id \in Settled
      <4>1. i \in 1 .. surv(k, n) /\ i \in 1 .. Len(disk[n].recs)
        BY <1>7, <1>12
      <4>2. disk[n].recs[i].id \in Settled
        BY <1>3, <3>1, <4>1 DEF GoodDir, Retired
      <4>. QED  BY <1>7, <4>1, <4>2
    <3>. QED  BY <2>5, <3>1 DEF Retired
  <2>7. Keeps(e)'
    <3>1. ASSUME NEW id \in promised \ Settled
          PROVE  \E n \in e.segs : \E i \in 1 .. disk'[n].synced :
                   disk'[n].recs[i].id = id /\ e.head <= n + i - 1
      <4>1. PICK n \in e.segs : \E i \in 1 .. disk[n].synced :
              disk[n].recs[i].id = id /\ e.head <= n + i - 1
        BY <1>3, <3>1 DEF GoodDir, Keeps
      <4>2. PICK i \in 1 .. disk[n].synced : disk[n].recs[i].id = id /\ e.head <= n + i - 1
        BY <4>1
      <4>3. i \in 1 .. surv(k, n)
        BY <1>12
      <4>. QED  BY <1>7, <4>2, <4>3
    <3>. QED  BY <2>5, <3>1 DEF Keeps
  <2>. QED  BY <2>2, <2>3, <2>4, <2>6, <2>7 DEF GoodDir
<1>15. BelowVisible(e)'
  <2>1. ASSUME NEW n \in e.segs, Unsynced(n)' PROVE \A m \in e.segs : m <= n
    <3>1. disk'[n].torn
      BY <1>7, <1>12, <2>1 DEF Unsynced
    <3>2. disk[n].torn \/ disk[n].synced < Len(disk[n].recs)
      BY <1>7, <1>12, <3>1
    <3>3. Visible(n)
      BY <1>3, <3>2 DEF BelowVisible, Unsynced
    <3>. QED  BY <1>13, <3>3
  <2>2. \A n \in e.segs : n <= n
    BY <1>12
  <2>. QED  BY <1>4, <2>1, <2>2 DEF BelowVisible, Visible
<1>16. DirsOK'
  BY <1>9, <1>14, <1>15 DEF DirsOK
<1>. QED  BY <1>9, <1>10, <1>11, <1>16 DEF SpoolInv
-----------------------------------------------------------------------------
(* What recovery finds.                                                    *)

(* A directory that the invariant allows is never taken for corrupt.       *)
LEMMA IsReadable ==
  ASSUME SpoolInv
  PROVE  Readable
<1>1. /\ TypeOK /\ FilesOK /\ dir \in Directory /\ GoodDir(dir) /\ BelowVisible(dir)
      /\ dir.segs \in SUBSET Nat
  <2>1. dir \in Directory
    BY DEF SpoolInv, TypeOK
  <2>. QED  BY <2>1, DirIsPossible, SegTyped DEF SpoolInv, DirsOK
<1>2. ASSUME NEW n \in dir.segs, NEW i \in 1 .. Len(disk[n].recs) - 1
      PROVE  disk[n].recs[i + 1].seq = disk[n].recs[i].seq + 1
  <2>1. n \in Names /\ n \in Nat /\ Len(disk[n].recs) \in Nat
    BY <1>1, SegTyped, FileTyped
  <2>2. i \in 1 .. Len(disk[n].recs) /\ i + 1 \in 1 .. Len(disk[n].recs)
    BY <2>1
  <2>3. disk[n].recs[i].seq = n + i - 1 /\ disk[n].recs[i + 1].seq = n + (i + 1) - 1
    BY <1>1, <2>1, <2>2 DEF FilesOK
  <2>. QED  BY <2>1, <2>3
<1>3. ASSUME NEW m \in dir.segs, NEW n \in dir.segs, disk[m].recs # <<>>, disk[n].recs # <<>>,
             m < n, \A s \in dir.segs : m < s /\ s < n => disk[s].recs = <<>>
      PROVE  disk[n].recs[1].seq = MaxSeq(m) + 1
  <2>1. /\ m \in Names /\ n \in Names /\ n \in Nat /\ End(m) \in Nat /\ Len(disk[n].recs) \in Nat
        /\ disk[n].recs \in Seq(Record)
    BY <1>1, SegTyped, FileTyped
  <2>2. m < End(m) /\ End(m) <= n /\ End(m) \in dir.segs
    BY <1>1, <1>3 DEF GoodDir, Contiguous
  <2>3. ~(End(m) < n)
    <3>1. SUFFICES ASSUME End(m) < n PROVE FALSE
      OBVIOUS
    <3>2. PICK s \in dir.segs : s = End(m)
      BY <2>2
    <3>3. s \in Names /\ s \in Nat /\ s < End(s)
      BY <1>1, <3>1, <3>2, SegTyped DEF GoodDir, Contiguous
    <3>4. disk[s].recs = <<>>
      BY <1>3, <2>2, <3>1, <3>2
    <3>. QED  BY <1>1, <3>3, <3>4, MaxSeqIs
  <2>4. n = End(m) /\ MaxSeq(m) = End(m) - 1
    BY <1>1, <2>1, <2>2, <2>3, MaxSeqIs
  <2>5. 1 \in 1 .. Len(disk[n].recs)
    BY <1>3, <2>1, EmptySeq
  <2>6. disk[n].recs[1].seq = n + 1 - 1
    BY <1>1, <2>1, <2>5 DEF FilesOK
  <2>. QED  BY <2>1, <2>4, <2>6
<1>4. ASSUME NEW n \in dir.segs, disk[n].torn PROVE n = Newest(dir.segs)
  <2>1. Visible(n)
    BY <1>1, <1>4 DEF BelowVisible, Unsynced
  <2>. QED  BY <1>1, <2>1, NewestIs DEF Visible
<1>. QED  BY <1>2, <1>3, <1>4 DEF Readable

LEMMA StoredIs ==
  ASSUME TypeOK, FilesOK
  PROVE  /\ \A r \in Stored : \E n \in dir.segs : \E i \in 1 .. Len(disk[n].recs) :
              r = disk[n].recs[i] /\ r \in Record /\ r.seq \in Nat /\ r.id \in Nat /\ r.seq = n + i - 1
         /\ \A n \in dir.segs : \A i \in 1 .. Len(disk[n].recs) :
              /\ disk[n].recs[i] \in Stored /\ disk[n].recs[i].seq = n + i - 1
<1>1. dir \in Directory
  BY DEF TypeOK
<1>2. ASSUME NEW n \in dir.segs
      PROVE  /\ n \in Names /\ DOMAIN disk[n].recs = 1 .. Len(disk[n].recs)
             /\ \A i \in 1 .. Len(disk[n].recs) :
                  /\ disk[n].recs[i] \in Record /\ disk[n].recs[i].seq \in Nat
                  /\ disk[n].recs[i].id \in Nat /\ disk[n].recs[i].seq = n + i - 1
  <2>1. n \in Names
    BY <1>1, SegTyped
  <2>2. DOMAIN disk[n].recs = 1 .. Len(disk[n].recs)
    <3>1. disk[n].recs \in Seq(Record)
      BY <2>1, FileTyped
    <3>. QED  BY <3>1
  <2>3. \A i \in 1 .. Len(disk[n].recs) :
          /\ disk[n].recs[i] \in Record /\ disk[n].recs[i].seq \in Nat /\ disk[n].recs[i].id \in Nat
    BY <2>1, FileTyped
  <2>4. \A i \in 1 .. Len(disk[n].recs) : disk[n].recs[i].seq = n + i - 1
    BY <2>1 DEF FilesOK
  <2>. QED  BY <2>1, <2>2, <2>3, <2>4
<1>3. ASSUME NEW r \in Stored
      PROVE  \E n \in dir.segs : \E i \in 1 .. Len(disk[n].recs) :
               r = disk[n].recs[i] /\ r \in Record /\ r.seq \in Nat /\ r.id \in Nat /\ r.seq = n + i - 1
  <2>1. PICK n \in dir.segs : r \in Range(disk[n].recs)
    BY DEF Stored
  <2>2. PICK i \in 1 .. Len(disk[n].recs) : r = disk[n].recs[i]
    BY <1>2, <2>1 DEF Range
  <2>. QED  BY <1>2, <2>2
<1>4. ASSUME NEW n \in dir.segs, NEW i \in 1 .. Len(disk[n].recs)
      PROVE  disk[n].recs[i] \in Stored /\ disk[n].recs[i].seq = n + i - 1
  BY <1>2 DEF Stored, Range
<1>. QED  BY <1>3, <1>4

(* No two records have the same number, so numbers count them.             *)
LEMMA Numbered ==
  ASSUME TypeOK, FilesOK, Contiguous(dir), NEW S \in SUBSET Stored,
         NEW a \in Int, NEW b \in Int, \A r \in S : r.seq \in a .. b
  PROVE  /\ IsFiniteSet(S) /\ Cardinality(S) \in Nat
         /\ Cardinality(S) <= IF a > b THEN 0 ELSE b - a + 1
         /\ (\A s \in a .. b : \E r \in S : r.seq = s) =>
              Cardinality(S) = IF a > b THEN 0 ELSE b - a + 1
         /\ \A r, q \in S : r.seq = q.seq => r = q
<1>1. dir \in Directory
  BY DEF TypeOK
<1>2. ASSUME NEW r \in S, NEW q \in S, r.seq = q.seq PROVE r = q
  <2>1. PICK n \in dir.segs : \E i \in 1 .. Len(disk[n].recs) : r = disk[n].recs[i] /\ r.seq = n + i - 1
    BY StoredIs
  <2>2. PICK i \in 1 .. Len(disk[n].recs) : r = disk[n].recs[i] /\ r.seq = n + i - 1
    BY <2>1
  <2>3. PICK m \in dir.segs : \E j \in 1 .. Len(disk[m].recs) : q = disk[m].recs[j] /\ q.seq = m + j - 1
    BY StoredIs
  <2>4. PICK j \in 1 .. Len(disk[m].recs) : q = disk[m].recs[j] /\ q.seq = m + j - 1
    BY <2>3
  <2>5. n \in Nat /\ m \in Nat
    BY <1>1, SegTyped
  <2>6. n + i = m + j
    BY <1>2, <2>2, <2>4, <2>5
  <2>7. n = m /\ i = j
    BY <1>1, <2>6, NoOverlap
  <2>. QED  BY <2>2, <2>4, <2>7
<1>. DEFINE f == [r \in S |-> r.seq]
            T == a .. b
<1>3. f \in Injection(S, T)
  BY <1>2 DEF Injection, IsInjective
<1>4. IsFiniteSet(T) /\ Cardinality(T) = IF a > b THEN 0 ELSE b - a + 1
  BY FS_Interval
<1>5. (\A s \in T : \E r \in S : r.seq = s) => f \in Surjection(S, T)
  BY <1>3 DEF Injection, Surjection
<1>6. \A r \in S : r.seq \in T
  OBVIOUS
<1>. HIDE DEF f, T
<1>7. /\ IsFiniteSet(S) /\ Cardinality(S) <= Cardinality(T)
      /\ Cardinality(S) = Cardinality(T) <=> f \in Surjection(S, T)
  BY <1>3, <1>4, FS_Injection
<1>8. Cardinality(S) \in Nat
  BY <1>7, FS_CardinalityType
<1>. QED  BY <1>2, <1>4, <1>5, <1>7, <1>8 DEF T

(* What Open makes of the live records.                                    *)
Live   == {r \in Stored : r.seq >= dir.head}
Over   == IF Cardinality(Live) > Cap THEN Cardinality(Live) - Cap ELSE 0
Nth(i) == CHOOSE r \in Live : r.seq = Oldest({q.seq : q \in Live}) + i - 1

LEMMA LiveRecords ==
  ASSUME TypeOK, FilesOK, GoodDir(dir), NEW top \in dir.segs, \A m \in dir.segs : m <= top
  PROVE  /\ Cardinality(Live) \in Nat /\ End(top) = dir.head + Cardinality(Live)
         /\ \A i \in 1 .. Cardinality(Live) :
              Nth(i) \in Stored /\ Nth(i).seq = dir.head + i - 1 /\ Nth(i).id \in Nat
         /\ \A r \in Live : /\ r.seq - dir.head + 1 \in 1 .. Cardinality(Live)
                            /\ r = Nth(r.seq - dir.head + 1)
<1>. DEFINE h == dir.head
            b == End(top) - 1
<1>1. /\ dir \in Directory /\ h \in Nat /\ top \in Names /\ End(top) \in Nat /\ b \in Int
      /\ Contiguous(dir) /\ Reaches(dir)
  <2>1. dir \in Directory
    BY DEF TypeOK
  <2>2. h \in Nat /\ top \in Names
    BY <2>1, SegTyped, DirectoryRecord
  <2>3. End(top) \in Nat
    BY <2>2, FileTyped
  <2>. QED  BY <2>1, <2>2, <2>3 DEF GoodDir
<1>2. h <= End(top)
  BY <1>1, HeadBelowEnd
<1>3. Live \in SUBSET Stored /\ \A r \in Live : r.seq >= h /\ r.seq \in Nat /\ r.id \in Nat
  BY StoredIs DEF Live
<1>4. ASSUME NEW r \in Live PROVE r.seq \in h .. b
  <2>1. PICK n \in dir.segs : \E i \in 1 .. Len(disk[n].recs) : r = disk[n].recs[i] /\ r.seq = n + i - 1
    BY <1>3, StoredIs
  <2>2. PICK i \in 1 .. Len(disk[n].recs) : r = disk[n].recs[i] /\ r.seq = n + i - 1
    BY <2>1
  <2>3. n \in Nat /\ Len(disk[n].recs) \in Nat /\ End(n) = n + Len(disk[n].recs)
    BY <1>1, SegTyped, FileTyped DEF End
  <2>4. End(n) <= End(top)
    BY <1>1, EndBelowTop
  <2>. QED  BY <1>1, <1>3, <2>2, <2>3, <2>4
<1>5. ASSUME NEW s \in h .. b PROVE \E r \in Live : r.seq = s
  <2>1. s \in Nat /\ s < End(top) /\ s >= h
    BY <1>1
  <2>2. \E m \in dir.segs : m <= s
    <3>1. PICK m \in dir.segs : m <= h
      BY <1>1 DEF Reaches
    <3>2. m \in Nat
      BY <1>1, SegTyped
    <3>. QED  BY <1>1, <2>1, <3>1, <3>2
  <2>3. PICK n \in dir.segs : n <= s /\ s < End(n) /\ s - n + 1 \in 1 .. Len(disk[n].recs)
    BY <1>1, <2>1, <2>2, Covered
  <2>4. n \in Nat
    BY <1>1, SegTyped
  <2>5. PICK i \in 1 .. Len(disk[n].recs) : i = s - n + 1
    BY <2>3
  <2>6. disk[n].recs[i] \in Stored /\ disk[n].recs[i].seq = n + i - 1
    BY StoredIs
  <2>7. disk[n].recs[i].seq = s
    BY <2>1, <2>4, <2>5, <2>6
  <2>. QED  BY <2>1, <2>6, <2>7 DEF Live
<1>6. /\ Cardinality(Live) \in Nat /\ Cardinality(Live) = IF h > b THEN 0 ELSE b - h + 1
      /\ \A r, q \in Live : r.seq = q.seq => r = q
  <2>. HIDE DEF h, b
  <2>1. /\ Live \in SUBSET Stored /\ h \in Int /\ b \in Int
        /\ \A r \in Live : r.seq \in h .. b
        /\ \A s \in h .. b : \E r \in Live : r.seq = s
    BY <1>1, <1>3, <1>4, <1>5
  <2>2. /\ Cardinality(Live) \in Nat
        /\ (\A s \in h .. b : \E r \in Live : r.seq = s) =>
             Cardinality(Live) = IF h > b THEN 0 ELSE b - h + 1
        /\ \A r, q \in Live : r.seq = q.seq => r = q
    BY <1>1, <2>1, Numbered, ZenonT(30)
  <2>. QED  BY <2>1, <2>2
<1>7. End(top) = h + Cardinality(Live)
  BY <1>1, <1>2, <1>6
<1>8. ASSUME NEW i \in 1 .. Cardinality(Live) PROVE Nth(i) \in Live /\ Nth(i).seq = h + i - 1
  <2>1. h \in h .. b /\ h + i - 1 \in h .. b
    BY <1>1, <1>6, <1>7
  <2>2. h \in {q.seq : q \in Live}
    BY <1>5, <2>1
  <2>3. {q.seq : q \in Live} \in SUBSET Nat /\ \A y \in {q.seq : q \in Live} : h <= y
    BY <1>1, <1>3
  <2>4. Oldest({q.seq : q \in Live}) = h
    BY <2>2, <2>3, OldestIs
  <2>5. \E r \in Live : r.seq = Oldest({q.seq : q \in Live}) + i - 1
    BY <1>5, <2>1, <2>4
  <2>. QED  BY <2>4, <2>5 DEF Nth
<1>9. ASSUME NEW r \in Live
      PROVE  r.seq - h + 1 \in 1 .. Cardinality(Live) /\ r = Nth(r.seq - h + 1)
  <2>1. r.seq \in h .. b
    BY <1>4
  <2>2. r.seq - h + 1 \in 1 .. Cardinality(Live)
    BY <1>1, <1>6, <1>7, <2>1
  <2>3. Nth(r.seq - h + 1) \in Live /\ Nth(r.seq - h + 1).seq = h + (r.seq - h + 1) - 1
    BY <1>8, <2>2
  <2>4. Nth(r.seq - h + 1).seq = r.seq
    BY <1>1, <1>3, <2>3
  <2>. QED  BY <1>6, <2>2, <2>3, <2>4
<1>. QED  BY <1>3, <1>6, <1>7, <1>8, <1>9

(* An ascending list of a set names each element once, the least first.    *)
LEMMA AscendingLists ==
  ASSUME NEW S \in SUBSET Nat, IsFiniteSet(S), NEW f \in Ascending(S)
  PROVE  /\ Cardinality(S) \in Nat /\ DOMAIN f = 1 .. Cardinality(S)
         /\ \A i \in 1 .. Cardinality(S) : f[i] \in S
         /\ \A x \in S : \E i \in 1 .. Cardinality(S) : f[i] = x
         /\ \A i, j \in 1 .. Cardinality(S) : i < j <=> f[i] < f[j]
<1>. DEFINE c == Cardinality(S)
            D == 1 .. c
<1>1. c \in Nat
  BY FS_CardinalityType
<1>2. f \in [D -> S] /\ \A i, j \in D : i < j => f[i] < f[j]
  BY DEF Ascending
<1>3. \A i, j \in D : f[i] < f[j] => i < j
  <2>1. ASSUME NEW i \in D, NEW j \in D, f[i] < f[j], ~(i < j) PROVE FALSE
    <3>1. f[i] \in Nat /\ f[j] \in Nat
      BY <1>2
    <3>2. j < i \/ j = i
      BY <1>1, <2>1
    <3>. QED  BY <1>2, <2>1, <3>1, <3>2
  <2>. QED  BY <2>1
<1>4. f \in Injection(D, S)
  <2>1. ASSUME NEW i \in D, NEW j \in D, f[i] = f[j] PROVE i = j
    <3>1. f[i] \in Nat
      BY <1>2
    <3>2. ~(i < j) /\ ~(j < i)
      BY <1>2, <2>1, <3>1
    <3>. QED  BY <1>1, <3>2
  <2>. QED  BY <1>2, <2>1 DEF Injection, IsInjective
<1>5. Cardinality(D) = c
  <2>1. Cardinality(D) = IF 1 > c THEN 0 ELSE c - 1 + 1
    BY <1>1, FS_Interval
  <2>. QED  BY <1>1, <2>1
<1>. HIDE DEF c, D
<1>6. f \in Surjection(D, S)
  BY <1>4, <1>5, FS_Injection DEF c
<1>7. \A x \in S : \E i \in D : f[i] = x
  BY <1>6 DEF Surjection
<1>. QED  BY <1>1, <1>2, <1>3, <1>7 DEF c, D
-----------------------------------------------------------------------------
(* Opening the spool.                                                      *)

LEMMA OpenIs ==
  ASSUME Open
  PROVE  /\ status = "down"
         /\ rounds' = [i \in 1 .. Cardinality(Live) - Over |-> Nth(Over + i).id]
         /\ headSeq' = dir.head + Over /\ head' = dir.head + Over /\ headDurable' = dir.head
         /\ dropped' = dropped \cup {Nth(i).id : i \in 1 .. Over}
         /\ UNCHANGED <<pc, closing, degraded, pending, staging, upto, measured, hub, promised>>
         /\ UNCHANGED <<setup, kills, losses, errors>>
<1>. QED  BY DEF Open, Live, Over, Nth, faults

(* The buffer after its reload.                                            *)
LEMMA Reloaded ==
  ASSUME TypeOK, setup \in Setups, Open, Cardinality(Live) \in Nat,
         \A i \in 1 .. Cardinality(Live) : Nth(i).id \in Nat
  PROVE  /\ Over \in Nat /\ Over <= Cardinality(Live)
         /\ rounds' \in Seq(Nat) /\ Len(rounds') = Cardinality(Live) - Over /\ Len(rounds') <= Cap
         /\ \A i \in 1 .. Len(rounds') : rounds'[i] = Nth(Over + i).id
         /\ \A i \in 1 .. Over : Nth(i).id \in dropped'
<1>. DEFINE c == Cardinality(Live)
            l == c - Over
<1>1. Cap \in Nat
  BY ConstantsTyped
<1>2. Over \in Nat /\ Over <= c /\ l \in Nat /\ l <= Cap
  BY <1>1 DEF Over
<1>3. \A i \in 1 .. l : Over + i \in 1 .. c
  BY <1>2
<1>4. \A i \in 1 .. l : Nth(Over + i).id \in Nat
  BY <1>3
<1>5. rounds' = [i \in 1 .. l |-> Nth(Over + i).id]
  BY OpenIs
<1>. HIDE DEF c, l
<1>6. rounds' \in [1 .. l -> Nat] /\ \A i \in 1 .. l : rounds'[i] = Nth(Over + i).id
  BY <1>4, <1>5
<1>7. rounds' \in Seq(Nat) /\ Len(rounds') = l
  BY <1>2, <1>6
<1>8. \A i \in 1 .. Over : Nth(i).id \in dropped'
  BY OpenIs
<1>. QED  BY <1>2, <1>6, <1>7, <1>8 DEF c, l

LEMMA OpenFirstStep ==
  ASSUME SpoolInv, setup \in Setups, Journaled, Open, dir.segs = {}
  PROVE  SpoolInv'
<1>1. /\ status = "down" /\ headDurable' = dir.head /\ pc = "idle" /\ degraded = FALSE
      /\ pending = <<>> /\ staging = FALSE /\ upto = -1
      /\ UNCHANGED <<pc, closing, degraded, pending, staging, upto, measured, hub, promised>>
      /\ UNCHANGED <<setup, kills, losses, errors>>
  BY OpenIs DEF SpoolInv, DownOK
<1>2. TypeOK /\ FilesOK /\ DirsOK /\ UnlinksOK /\ BufferOK /\ GoodDir(dir) /\ dir \in Directory
  BY DirIsPossible DEF SpoolInv, DirsOK, TypeOK
<1>3. measured \in Nat /\ measured <= MaxRounds /\ dir.head \in Nat /\ Len(ops) \in Nat
  <2>1. measured \in Nat /\ measured <= setup.rounds
    BY <1>2, ConstantsTyped DEF TypeOK
  <2>. QED  BY <1>2, <2>1, BufferTyped, ConstantsTyped, DirectoryRecord
<1>4. PICK new \in Names : new = dir.head /\ new \in Nat /\ new <= measured
  <2>1. dir.head <= measured
    BY <1>2 DEF GoodDir, Bounded
  <2>. QED  BY <1>3, <2>1, ConstantsTyped
<1>5. Stored = {} /\ Live = {} /\ Cardinality(Live) = 0
  BY FS_EmptySet DEF Stored, Live
<1>6. /\ Over = 0 /\ rounds' \in Seq(Nat) /\ Len(rounds') = 0 /\ rounds' = <<>>
      /\ headSeq' = new /\ head' = new
  <2>1. Over \in Nat /\ Over <= 0 /\ rounds' \in Seq(Nat) /\ Len(rounds') = 0 - Over
    BY <1>2, <1>5, Reloaded
  <2>2. Over = 0
    BY <2>1
  <2>. QED  BY <1>4, <2>1, <2>2, OpenIs, EmptySeq
<1>7. dropped' = dropped
  <2>1. dropped' = dropped \cup {Nth(i).id : i \in 1 .. Over}
    BY OpenIs
  <2>2. 1 .. Over = {}
    BY <1>6
  <2>3. {Nth(i).id : i \in 1 .. Over} = {}
    BY <2>2
  <2>. QED  BY <2>1, <2>3
<1>. DEFINE x == [op |-> "create", arg |-> new]
            c == <<x>>
<1>8. /\ Change(c) /\ active' = new /\ status' = "opening"
      /\ disk' = [disk EXCEPT ![new] = Empty]
  BY <1>4 DEF Open
<1>9. x \in DirChange /\ x.op = "create" /\ x.arg = new
  BY DEF DirChange
<1>10. c \in Seq(DirChange) /\ Len(c) = 1 /\ c[1] = x
  BY <1>9
<1>11. Applied(dir, c, 1 .. 1).segs = dir.segs \cup {new} /\ Applied(dir, c, 1 .. 1).head = dir.head
  BY <1>2, <1>9, AppliedOne
<1>. HIDE DEF c
<1>12. /\ ops' \in Seq(DirChange) /\ dir' \in Directory /\ ddir' = ddir
       /\ Len(ops') = Len(ops) + 1
       /\ \A i \in 1 .. Len(ops) : ops'[i] = ops[i]
       /\ ops'[Len(ops) + 1] = x
       /\ dir' = Applied(ddir', ops', 1 .. Len(ops'))
       /\ dir' = Applied(dir, c, 1 .. 1)
       /\ \A d \in Possible' : d \in Possible \/ d = dir'
  <2>1. /\ ops' \in Seq(DirChange) /\ dir' \in Directory /\ ddir' = ddir
        /\ Len(ops') = Len(ops) + Len(c)
        /\ \A i \in 1 .. Len(ops) : ops'[i] = ops[i]
        /\ \A i \in 1 .. Len(c) : ops'[Len(ops) + i] = c[i]
        /\ dir' = Applied(ddir', ops', 1 .. Len(ops'))
        /\ dir' = Applied(dir, c, 1 .. Len(c))
        /\ \A d \in Possible' : d \in Possible \/ \E j \in 1 .. Len(c) : d = Applied(dir, c, 1 .. j)
    BY <1>2, <1>8, <1>10, PossibleAfterChange DEF DirsOK
  <2>. QED  BY <1>10, <2>1
<1>13. PICK e \in Directory : e = dir'
  BY <1>12
<1>14. e.segs = {new} /\ e.head = new
  BY <1>4, <1>11, <1>12, <1>13
<1>15. /\ disk' \in [Names -> File] /\ disk'[new] = Empty
       /\ \A n \in Names : n # new => disk'[n] = disk[n]
  BY <1>2, <1>8, EmptyIs DEF TypeOK
<1>16. TypeOK'
  BY <1>1, <1>2, <1>3, <1>4, <1>6, <1>7, <1>8, <1>12, <1>15 DEF TypeOK
<1>17. /\ disk'[new].recs = <<>> /\ Len(disk'[new].recs) = 0 /\ disk'[new].torn = FALSE
       /\ disk'[new].synced = 0 /\ End(new)' = new
  BY <1>4, <1>15, EmptyIs DEF End
<1>18. FilesOK'
  <2>1. ASSUME NEW n \in Names
        PROVE  /\ Len(disk'[n].recs) <= SegMax /\ disk'[n].synced <= Len(disk'[n].recs)
               /\ \A i \in 1 .. Len(disk'[n].recs) : disk'[n].recs[i].seq = n + i - 1
    <3>1. CASE n = new
      BY <1>17, <3>1, ConstantsTyped
    <3>2. CASE n # new
      BY <1>2, <1>15, <3>2 DEF FilesOK
    <3>. QED  BY <3>1, <3>2
  <2>. QED  BY <1>1, <2>1 DEF FilesOK, SegMax
<1>19. promised \subseteq Settled
  BY <1>2 DEF GoodDir, Keeps
<1>20. GoodDir(e)'
  <2>1. Contiguous(e)' /\ Reaches(e)' /\ Bounded(e)'
    BY <1>1, <1>4, <1>14, <1>17 DEF Contiguous, Reaches, Bounded
  <2>2. Retired(e)'
    BY <1>14, <1>17 DEF Retired
  <2>3. Keeps(e)'
    BY <1>1, <1>7, <1>19 DEF Keeps, Settled
  <2>. QED  BY <2>1, <2>2, <2>3 DEF GoodDir
<1>21. Visible(new)' /\ BelowVisible(e)'
  BY <1>4, <1>13, <1>14, <1>17 DEF BelowVisible, Visible
<1>22. DirsOK'
  <2>1. ASSUME NEW d \in Possible, NEW n \in d.segs PROVE FALSE
    BY <1>2, <2>1 DEF DirsOK, BelowVisible
  <2>2. \A d \in Possible' : d \in Possible \/ (GoodDir(d)' /\ BelowVisible(d)')
    BY <1>12, <1>13, <1>20, <1>21
  <2>3. NewestStays /\ Accounts
    BY <1>1, <1>3, <1>7 DEF NewestStays, Accounts
  <2>. QED  BY <1>1, <1>12, <1>16, <2>1, <2>2, <2>3, DirsPreserved
<1>23. UnlinksOK'
  <2>1. ASSUME NEW i \in Len(ops) + 1 .. Len(ops'), NEW n \in Names, ops'[i] = Unlink(n)
        PROVE  FALSE
    <3>1. i = Len(ops) + 1
      BY <1>3, <1>12
    <3>2. x = Unlink(n)
      BY <1>12, <2>1, <3>1
    <3>. QED  BY <1>9, <3>2 DEF Unlink
  <2>2. Len(ops) <= Len(ops')
    BY <1>3, <1>12
  <2>. QED  BY <1>12, <1>16, <2>1, <2>2, UnlinksPreserved
<1>24. BufferOK' /\ DownOK'
  BY <1>1, <1>3, <1>4, <1>6, <1>7, <1>8, <1>19, ConstantsTyped DEF BufferOK, DownOK, Settled, MutexFree
<1>25. MirrorOK'
  BY <1>1, <1>4, <1>6, <1>8, <1>13, <1>14, <1>17, <1>21 DEF MirrorOK
<1>26. FlushOK'
  BY <1>1, <1>4, <1>6, <1>13, <1>14 DEF FlushOK
<1>. QED  BY <1>16, <1>18, <1>22, <1>23, <1>24, <1>25, <1>26 DEF SpoolInv

LEMMA OpenFsyncDirStep ==
  ASSUME SpoolInv, setup \in Setups, Journaled, OpenFsyncDir
  PROVE  SpoolInv'
<1>1. /\ status = "opening" /\ status' = "up" /\ ddir' = dir /\ ops' = <<>> /\ dir' = dir
      /\ UNCHANGED <<disk, pc, closing, degraded, headDurable, active, pending, head>>
      /\ UNCHANGED <<rounds, headSeq, staging, upto, hub, dropped, measured, promised>>
      /\ UNCHANGED <<setup, kills, losses, errors>>
  BY DEF OpenFsyncDir, FsyncDir, flusher, staged, buffer, faults, history
<1>2. /\ TypeOK /\ FilesOK /\ DirsOK /\ UnlinksOK /\ BufferOK /\ DownOK /\ MirrorOK /\ FlushOK
      /\ dir \in Directory /\ measured \in Nat /\ dir \in Possible
      /\ promised \subseteq Settled /\ pc = "idle" /\ degraded = FALSE
  BY <1>1, DirIsPossible, BufferTyped DEF SpoolInv, DownOK, DirsOK
<1>3. /\ Possible' = {dir} /\ dir' = Applied(ddir', ops', 1 .. Len(ops'))
      /\ ops' \in Seq(DirChange) /\ UnlinksOK'
  BY <1>1, <1>2, FsyncedDir
<1>4. TypeOK'
  BY <1>1, <1>2, <1>3 DEF TypeOK
<1>5. DirsOK'
  <2>1. NewestStays
    <3>1. \A n \in dir.segs : n <= n
      BY <1>2, SegTyped
    <3>. QED  BY <1>1, <3>1 DEF NewestStays, Visible
  <2>2. Accounts
    BY <1>1, <1>2 DEF Accounts
  <2>3. ASSUME NEW d \in Possible, NEW n \in d.segs PROVE FileGrows(n)
    <3>1. d \in Directory
      BY <1>2, <2>3, DirIsPossible DEF DirsOK
    <3>2. Len(disk[n].recs) \in Nat /\ disk[n].synced \in Nat
      BY <1>2, <2>3, <3>1, SegTyped, FileTyped
    <3>. QED  BY <1>1, <3>2 DEF FileGrows, Unsynced
  <2>. QED  BY <1>1, <1>2, <1>3, <1>4, <2>1, <2>2, <2>3, DirsPreserved
<1>6. FilesOK' /\ BufferOK' /\ DownOK'
  BY <1>1, <1>2 DEF FilesOK, SegMax, BufferOK, Settled, DownOK, MutexFree
<1>7. MirrorOK' /\ FlushOK'
  BY <1>1, <1>2 DEF MirrorOK, FlushOK, Mirroring, Mirrored, Visible, End, Reflects, Settled
<1>. QED  BY <1>3, <1>4, <1>5, <1>6, <1>7 DEF SpoolInv
(* Removing the oldest segments, all below the watermark, does no harm.    *)
LEMMA ReclaimedDir ==
  ASSUME TypeOK, FilesOK, NEW d \in Directory, GoodDir(d), NEW R \in SUBSET d.segs,
         \A x \in R : End(x) <= d.head /\ \E n \in d.segs : x < n,
         \A x \in R, y \in d.segs : y < x => y \in R,
         NEW e \in Directory, e.segs = d.segs \ R, e.head = d.head
  PROVE  GoodDir(e)
<1>1. Contiguous(d) /\ Reaches(d) /\ Bounded(d) /\ Retired(d) /\ Keeps(d) /\ d.head \in Nat
  BY DirectoryRecord DEF GoodDir
<1>2. ASSUME NEW n \in d.segs
      PROVE  n \in Names /\ n \in Nat /\ n <= MaxRounds /\ End(n) \in Nat
             /\ disk[n].synced \in Nat /\ Len(disk[n].recs) \in Nat
             /\ End(n) = n + Len(disk[n].recs) /\ disk[n].synced <= Len(disk[n].recs)
  <2>1. n \in Names /\ n \in Nat
    BY SegTyped
  <2>2. n <= MaxRounds
    BY <2>1 DEF Names
  <2>3. disk[n].synced <= Len(disk[n].recs)
    BY <2>1 DEF FilesOK
  <2>. QED  BY <2>1, <2>2, <2>3, FileTyped DEF End
<1>3. ASSUME NEW x \in R
      PROVE  x \in d.segs /\ x < End(x) /\ End(x) <= d.head /\ End(x) \in d.segs
  <2>1. PICK n \in d.segs : x < n
    OBVIOUS
  <2>. QED  BY <1>1, <2>1 DEF Contiguous
<1>4. Contiguous(e)
  <2>1. ASSUME NEW m \in e.segs, NEW n \in e.segs, m < n
        PROVE  m < End(m) /\ End(m) <= n /\ End(m) \in e.segs
    <3>1. m < End(m) /\ End(m) <= n /\ End(m) \in d.segs
      BY <1>1, <2>1 DEF Contiguous
    <3>. QED  BY <3>1
  <2>. QED  BY <2>1 DEF Contiguous
<1>5. Reaches(e)
  <2>1. SUFFICES ASSUME e.segs # {}
                 PROVE  /\ \E m \in e.segs : m <= d.head
                        /\ \E n \in e.segs : d.head <= n + disk[n].synced
    BY DEF Reaches
  <2>2. \E m \in e.segs : m <= d.head
    <3>1. CASE R = {}
      BY <1>1, <2>1, <3>1 DEF Reaches
    <3>2. CASE R # {}
      <4>1. R \in SUBSET Nat /\ MaxRounds \in Nat /\ \A y \in R : y <= MaxRounds
        BY <1>2, SpoolAssumption
      <4>2. PICK x \in R : \A y \in R : y <= x
        BY <3>2, <4>1, GreatestNumber
      <4>3. End(x) \notin R
        BY <1>2, <1>3, <4>2
      <4>. QED  BY <1>3, <4>3
    <3>. QED  BY <3>1, <3>2
  <2>3. \E n \in e.segs : d.head <= n + disk[n].synced
    <3>1. PICK n \in d.segs : d.head <= n + disk[n].synced
      BY <1>1, <2>1 DEF Reaches
    <3>2. CASE n \notin R
      BY <3>1, <3>2
    <3>3. CASE n \in R
      <4>1. d.head = End(n) /\ End(n) \in d.segs
        BY <1>1, <1>2, <1>3, <3>1, <3>3
      <4>2. PICK m \in d.segs : m = End(n)
        BY <4>1
      <4>3. m \notin R
        BY <1>2, <1>3, <4>1, <4>2
      <4>4. d.head <= m + disk[m].synced
        BY <1>2, <4>1, <4>2
      <4>. QED  BY <4>3, <4>4
    <3>. QED  BY <3>2, <3>3
  <2>. QED  BY <2>2, <2>3
<1>6. Bounded(e) /\ Retired(e)
  BY <1>1 DEF Bounded, Retired
<1>7. Keeps(e)
  <2>1. ASSUME NEW id \in promised \ Settled
        PROVE  \E n \in e.segs : \E i \in 1 .. disk[n].synced :
                 disk[n].recs[i].id = id /\ d.head <= n + i - 1
    <3>1. PICK n \in d.segs : \E i \in 1 .. disk[n].synced :
            disk[n].recs[i].id = id /\ d.head <= n + i - 1
      BY <1>1, <2>1 DEF Keeps
    <3>2. PICK i \in 1 .. disk[n].synced : disk[n].recs[i].id = id /\ d.head <= n + i - 1
      BY <3>1
    <3>3. n \notin R
      <4>1. SUFFICES ASSUME n \in R PROVE FALSE
        OBVIOUS
      <4>2. n + Len(disk[n].recs) <= d.head /\ i <= Len(disk[n].recs)
        BY <1>2, <1>3, <3>2, <4>1
      <4>. QED  BY <1>1, <1>2, <3>2, <4>2
    <3>. QED  BY <3>2, <3>3
  <2>. QED  BY <2>1 DEF Keeps
<1>. QED  BY <1>4, <1>5, <1>6, <1>7 DEF GoodDir

(* Where a record that is still live goes when the spool is opened.        *)
LEMMA LiveIsReloaded ==
  ASSUME TypeOK, FilesOK, GoodDir(dir), setup \in Setups, Open,
         NEW top \in dir.segs, \A m \in dir.segs : m <= top
  PROVE  /\ rounds' \in Seq(Nat) /\ Len(rounds') \in Nat /\ Len(rounds') <= Cap
         /\ Over \in Nat /\ headSeq' = dir.head + Over /\ headSeq' + Len(rounds') = End(top)
         /\ \A r \in Live :
              IF r.seq < headSeq' THEN r.id \in dropped'
              ELSE /\ r.seq - headSeq' + 1 \in 1 .. Len(rounds')
                   /\ r.id = rounds'[r.seq - headSeq' + 1]
<1>. DEFINE c == Cardinality(Live)
<1>1. /\ c \in Nat /\ End(top) = dir.head + c
      /\ \A i \in 1 .. c : Nth(i) \in Stored /\ Nth(i).seq = dir.head + i - 1 /\ Nth(i).id \in Nat
      /\ \A r \in Live : r.seq - dir.head + 1 \in 1 .. c /\ r = Nth(r.seq - dir.head + 1)
  BY LiveRecords
<1>2. /\ Over \in Nat /\ Over <= c
      /\ rounds' \in Seq(Nat) /\ Len(rounds') = c - Over /\ Len(rounds') <= Cap
      /\ \A i \in 1 .. Len(rounds') : rounds'[i] = Nth(Over + i).id
      /\ \A i \in 1 .. Over : Nth(i).id \in dropped'
  BY <1>1, Reloaded
<1>3. headSeq' = dir.head + Over /\ dir.head \in Nat
  BY OpenIs, DirectoryRecord DEF TypeOK
<1>. HIDE DEF c
<1>4. ASSUME NEW r \in Live
      PROVE  IF r.seq < headSeq' THEN r.id \in dropped'
             ELSE /\ r.seq - headSeq' + 1 \in 1 .. Len(rounds')
                  /\ r.id = rounds'[r.seq - headSeq' + 1]
  <2>1. PICK k \in 1 .. c : k = r.seq - dir.head + 1 /\ r = Nth(k)
    BY <1>1
  <2>2. r.seq = dir.head + k - 1
    BY <1>1, <2>1
  <2>. DEFINE o == Over
              h == dir.head
              l == Len(rounds')
  <2>5. /\ k \in Nat /\ 1 <= k /\ k <= c /\ c \in Nat /\ h \in Nat /\ o \in Nat /\ l = c - o
        /\ headSeq' = h + o /\ r.seq = h + k - 1
    BY <1>1, <1>2, <1>3, <2>2
  <2>. HIDE DEF o, h, l
  <2>6. /\ k <= o => k \in 1 .. o /\ h + k - 1 < h + o
        /\ k > o => /\ ~(h + k - 1 < h + o) /\ h + k - 1 - (h + o) + 1 = k - o
                    /\ k - o \in 1 .. l /\ o + (k - o) = k
    BY <2>5
  <2>. USE DEF o, h, l
  <2>3. CASE k <= Over
    <3>1. k \in 1 .. Over /\ r.seq < headSeq'
      BY <2>3, <2>5, <2>6
    <3>2. Nth(k).id \in dropped'
      BY <1>2, <3>1
    <3>. QED  BY <2>1, <3>1, <3>2
  <2>4. CASE k > Over
    <3>1. ~(r.seq < headSeq') /\ r.seq - headSeq' + 1 = k - Over /\ k - Over \in 1 .. Len(rounds')
          /\ Over + (k - Over) = k
      BY <2>4, <2>5, <2>6
    <3>2. rounds'[k - Over] = Nth(Over + (k - Over)).id
      BY <1>2, <3>1
    <3>. QED  BY <2>1, <3>1, <3>2
  <2>. QED  BY <2>5, <2>3, <2>4
<1>. QED  BY <1>1, <1>2, <1>3, <1>4
(* The dead segments are the oldest ones.                                  *)
LEMMA DeadAreOldest ==
  ASSUME TypeOK, FilesOK, GoodDir(dir), NEW top \in dir.segs, \A m \in dir.segs : m <= top,
         NEW D, D = DeadSegments(dir.head)
  PROVE  /\ D \in SUBSET dir.segs /\ D \in SUBSET Nat /\ IsFiniteSet(D)
         /\ \A x \in D : /\ x \in Names /\ x < top
                         /\ MaxSeq(x) < dir.head /\ End(x) <= dir.head
         /\ \A x \in D, y \in dir.segs : y < x => y \in D
         /\ \A m, n \in dir.segs : m < n /\ m \notin D => dir.head <= n
<1>1. /\ dir \in Directory /\ dir.head \in Nat /\ MaxRounds \in Nat
      /\ \A m, n \in dir.segs : m < n => m < End(m) /\ End(m) <= n /\ End(m) \in dir.segs
  <2>1. dir \in Directory
    BY DEF TypeOK
  <2>. QED  BY <2>1, DirectoryRecord, SpoolAssumption DEF GoodDir, Contiguous
<1>2. ASSUME NEW n \in dir.segs
      PROVE  n \in Names /\ n \in Nat /\ End(n) \in Nat /\ n \in 0 .. MaxRounds
  BY <1>1, SegTyped, FileTyped DEF Names
<1>3. Newest(dir.segs) = top
  <2>1. dir.segs \in SUBSET Nat
    BY <1>2
  <2>. QED  BY <2>1, NewestIs
<1>4. \A n \in dir.segs : n # top => n < top
  BY <1>2
<1>5. ASSUME NEW n \in dir.segs, n # top
      PROVE  /\ n < End(n) /\ MaxSeq(n) = End(n) - 1
             /\ n \in D <=> End(n) <= dir.head
  <2>1. n < End(n) /\ MaxSeq(n) = End(n) - 1
    BY <1>1, <1>2, <1>4, <1>5, MaxSeqIs
  <2>2. n \in D <=> MaxSeq(n) < dir.head
    BY <1>3, <1>5 DEF DeadSegments
  <2>. QED  BY <1>1, <1>2, <2>1, <2>2
<1>6. D \in SUBSET dir.segs /\ \A x \in D : x # top /\ MaxSeq(x) < dir.head
  BY <1>3 DEF DeadSegments
<1>7. IsFiniteSet(D)
  <2>1. IsFiniteSet(0 .. MaxRounds) /\ D \subseteq 0 .. MaxRounds
    BY <1>1, <1>2, <1>6, FS_Interval
  <2>. QED  BY <2>1, FS_Subset
<1>8. ASSUME NEW x \in D, NEW y \in dir.segs, y < x PROVE y \in D
  <2>1. x \in dir.segs /\ x # top /\ x < top /\ x \in Nat /\ y \in Nat /\ top \in Nat
    BY <1>2, <1>4, <1>6
  <2>2. y # top /\ End(y) <= x /\ x < End(x) /\ End(x) <= dir.head
    BY <1>1, <1>5, <1>8, <2>1
  <2>3. End(y) <= dir.head
    BY <1>1, <1>2, <2>1, <2>2
  <2>. QED  BY <1>5, <2>2, <2>3
<1>9. ASSUME NEW m \in dir.segs, NEW n \in dir.segs, m < n, m \notin D PROVE dir.head <= n
  <2>1. m # top /\ End(m) <= n
    BY <1>1, <1>2, <1>9
  <2>2. ~(End(m) <= dir.head)
    BY <1>5, <1>9, <2>1
  <2>. QED  BY <1>1, <1>2, <2>1, <2>2
<1>. QED  BY <1>2, <1>4, <1>5, <1>6, <1>7, <1>8, <1>9

LEMMA OpenAgainStep ==
  ASSUME SpoolInv, setup \in Setups, Journaled, Open, dir.segs # {}
  PROVE  SpoolInv'
<1>1. /\ status = "down" /\ headDurable' = dir.head /\ head' = headSeq' /\ pc = "idle"
      /\ degraded = FALSE /\ pending = <<>> /\ staging = FALSE /\ upto = -1
      /\ dropped \subseteq dropped'
      /\ UNCHANGED <<pc, closing, degraded, pending, staging, upto, measured, hub, promised>>
      /\ UNCHANGED <<setup, kills, losses, errors>>
  BY OpenIs DEF SpoolInv, DownOK
<1>2. /\ TypeOK /\ FilesOK /\ DirsOK /\ UnlinksOK /\ BufferOK
      /\ GoodDir(dir) /\ BelowVisible(dir) /\ dir \in Directory /\ dir \in Possible
  BY DirIsPossible DEF SpoolInv, DirsOK, TypeOK
<1>3. /\ measured \in Nat /\ dir.head \in Nat /\ Len(ops) \in Nat /\ ops \in Seq(DirChange)
      /\ MaxRounds \in Nat /\ Cap \in Nat
  BY <1>2, BufferTyped, ConstantsTyped, DirectoryRecord
<1>4. ASSUME NEW n \in dir.segs
      PROVE  /\ n \in Names /\ n \in Nat /\ End(n) \in Nat /\ End(n) = n + Len(disk[n].recs)
             /\ Len(disk[n].recs) \in Nat /\ disk[n].synced \in Nat
             /\ disk[n].synced <= Len(disk[n].recs)
  <2>1. n \in Names /\ n \in Nat
    BY <1>2, SegTyped
  <2>2. disk[n].synced <= Len(disk[n].recs)
    BY <1>2, <2>1 DEF FilesOK
  <2>. QED  BY <1>2, <2>1, <2>2, FileTyped DEF End
<1>5. PICK top \in dir.segs : top = Newest(dir.segs) /\ \A m \in dir.segs : m <= top
  <2>1. dir.segs \in SUBSET Nat /\ \A m \in dir.segs : m <= MaxRounds
    BY <1>3, <1>4 DEF Names
  <2>. QED  BY <1>3, <2>1, NewestExists
<1>6. /\ rounds' \in Seq(Nat) /\ Len(rounds') \in Nat /\ Len(rounds') <= Cap
      /\ headSeq' = dir.head + Over /\ headSeq' \in Nat /\ dir.head <= headSeq'
      /\ headSeq' + Len(rounds') = End(top)
      /\ \A r \in Live :
           IF r.seq < headSeq' THEN r.id \in dropped'
           ELSE /\ r.seq - headSeq' + 1 \in 1 .. Len(rounds')
                /\ r.id = rounds'[r.seq - headSeq' + 1]
  <2>1. /\ rounds' \in Seq(Nat) /\ Len(rounds') \in Nat /\ Len(rounds') <= Cap
        /\ Over \in Nat /\ headSeq' = dir.head + Over /\ headSeq' + Len(rounds') = End(top)
        /\ \A r \in Live :
             IF r.seq < headSeq' THEN r.id \in dropped'
             ELSE /\ r.seq - headSeq' + 1 \in 1 .. Len(rounds')
                  /\ r.id = rounds'[r.seq - headSeq' + 1]
    BY <1>2, <1>5, LiveIsReloaded
  <2>. QED  BY <1>3, <2>1
<1>7. PICK D : D = DeadSegments(dir.head)
  OBVIOUS
<1>8. /\ D \in SUBSET dir.segs /\ D \in SUBSET Nat /\ IsFiniteSet(D)
      /\ \A x \in D : x \in Names /\ x < top /\ MaxSeq(x) < dir.head /\ End(x) <= dir.head
      /\ \A x \in D, y \in dir.segs : y < x => y \in D
      /\ \A m, n \in dir.segs : m < n /\ m \notin D => dir.head <= n
  BY <1>2, <1>5, <1>7, DeadAreOldest
<1>9. PICK order \in Ascending(D) : Change([i \in DOMAIN order |-> Unlink(order[i])])
  BY <1>7 DEF Open
<1>10. active' = top /\ disk' = [disk EXCEPT ![top].torn = FALSE] /\ status' = "up"
  BY <1>5 DEF Open
<1>11. /\ disk' \in [Names -> File]
       /\ \A n \in Names : disk'[n].recs = disk[n].recs /\ disk'[n].synced = disk[n].synced
       /\ \A n \in Names : n # top => disk'[n] = disk[n]
       /\ disk'[top].torn = FALSE
  BY <1>2, <1>4, <1>10, TornFile
<1>. DEFINE l == Cardinality(D)
<1>12. /\ l \in Nat /\ DOMAIN order = 1 .. l
       /\ \A i \in 1 .. l : order[i] \in D
       /\ \A x \in D : \E i \in 1 .. l : order[i] = x
       /\ \A i, j \in 1 .. l : i < j <=> order[i] < order[j]
  BY <1>8, <1>9, AscendingLists
<1>. HIDE DEF l
<1>. DEFINE c == [i \in 1 .. l |-> Unlink(order[i])]
<1>13. /\ c \in Seq(DirChange) /\ Len(c) = l /\ Change(c)
       /\ \A i \in 1 .. l : c[i] = Unlink(order[i]) /\ c[i].op = "unlink" /\ c[i].arg = order[i]
  <2>1. \A i \in 1 .. l : Unlink(order[i]) \in DirChange
    BY <1>8, <1>12 DEF Unlink, DirChange
  <2>2. c \in Seq(DirChange) /\ Len(c) = l
    BY <1>12, <2>1
  <2>3. Change(c)
    BY <1>9, <1>12
  <2>. QED  BY <2>2, <2>3 DEF Unlink
<1>. HIDE DEF c
<1>14. /\ ops' \in Seq(DirChange) /\ dir' \in Directory /\ ddir' = ddir
       /\ Len(ops') = Len(ops) + l
       /\ \A i \in 1 .. Len(ops) : ops'[i] = ops[i]
       /\ \A i \in 1 .. l : ops'[Len(ops) + i] = Unlink(order[i])
       /\ \A j \in 0 .. l : Applied(ddir', ops', 1 .. Len(ops) + j) = Applied(dir, c, 1 .. j)
       /\ dir' = Applied(ddir', ops', 1 .. Len(ops'))
       /\ dir' = Applied(dir, c, 1 .. l)
       /\ \A d \in Possible' : d \in Possible \/ \E j \in 1 .. l : d = Applied(dir, c, 1 .. j)
  <2>1. /\ ops' \in Seq(DirChange) /\ dir' \in Directory /\ ddir' = ddir
        /\ Len(ops') = Len(ops) + Len(c)
        /\ \A i \in 1 .. Len(ops) : ops'[i] = ops[i]
        /\ \A i \in 1 .. Len(c) : ops'[Len(ops) + i] = c[i]
        /\ \A j \in 0 .. Len(c) : Applied(ddir', ops', 1 .. Len(ops) + j) = Applied(dir, c, 1 .. j)
        /\ dir' = Applied(ddir', ops', 1 .. Len(ops'))
        /\ dir' = Applied(dir, c, 1 .. Len(c))
        /\ \A d \in Possible' : d \in Possible \/ \E j \in 1 .. Len(c) : d = Applied(dir, c, 1 .. j)
    BY <1>2, <1>13, PossibleAfterChange DEF DirsOK
  <2>. QED  BY <1>13, <2>1
<1>. DEFINE R(j) == {order[i] : i \in 1 .. j}
<1>15. ASSUME NEW j \in 0 .. l
       PROVE  /\ Applied(dir, c, 1 .. j) \in Directory
              /\ Applied(dir, c, 1 .. j).segs = dir.segs \ R(j)
              /\ Applied(dir, c, 1 .. j).head = dir.head
              /\ R(j) \in SUBSET D
              /\ \A x \in R(j), y \in dir.segs : y < x => y \in R(j)
  <2>1. 1 .. j \subseteq 1 .. l /\ j \in Nat
    BY <1>12
  <2>2. \A i \in 1 .. j : c[i] \in DirChange /\ c[i].arg = order[i]
    BY <1>13, <2>1
  <2>3. Applied(dir, c, 1 .. j) \in Directory
    BY <1>2, <2>1, <2>2, AppliedTyped
  <2>4. /\ Applied(dir, c, 1 .. j).segs = dir.segs \ {c[i].arg : i \in 1 .. j}
        /\ Applied(dir, c, 1 .. j).head = dir.head
    BY <1>2, <1>13, AppliedUnlinks
  <2>5. {c[i].arg : i \in 1 .. j} = R(j)
    BY <2>2
  <2>6. R(j) \in SUBSET D
    BY <1>12, <2>1
  <2>7. ASSUME NEW x \in R(j), NEW y \in dir.segs, y < x PROVE y \in R(j)
    <3>1. PICK i \in 1 .. j : order[i] = x
      OBVIOUS
    <3>2. y \in D
      BY <1>8, <2>6, <2>7
    <3>3. PICK k \in 1 .. l : order[k] = y
      BY <1>12, <3>2
    <3>4. k < i
      BY <1>12, <2>1, <2>7, <3>1, <3>3
    <3>5. k \in 1 .. j
      BY <1>12, <3>4
    <3>. QED  BY <3>3, <3>5
  <2>. QED  BY <2>3, <2>4, <2>5, <2>6, <2>7
<1>16. R(l) = D
  BY <1>12
<1>17. PICK e \in Directory : e = dir' /\ e.segs = dir.segs \ D /\ e.head = dir.head
  BY <1>12, <1>14, <1>15, <1>16
<1>18. top \in e.segs /\ \A n \in e.segs : n \in dir.segs /\ n <= top
  BY <1>4, <1>5, <1>8, <1>17
<1>. HIDE DEF R
<1>19. TypeOK'
  <2>1. head' \in Nat /\ headDurable' \in Nat /\ top \in Names
    BY <1>1, <1>3, <1>4, <1>6
  <2>. QED  BY <1>1, <1>2, <1>6, <1>10, <1>11, <1>14, <2>1 DEF TypeOK
<1>20. /\ FilesOK' /\ \A n \in dir.segs : End(n)' = End(n) /\ MaxSeq(n)' = MaxSeq(n)
  BY <1>1, <1>2, <1>4, <1>11 DEF FilesOK, SegMax, End, MaxSeq
<1>21. Accounts
  BY <1>1, <1>3 DEF Accounts
<1>22. Visible(top)'
  BY <1>17, <1>18 DEF Visible
<1>23. NewestStays
  <2>1. ASSUME NEW n \in dir.segs, Visible(n) PROVE n = top
    BY <1>4, <1>5, <2>1 DEF Visible
  <2>. QED  BY <1>5, <1>17, <1>18, <1>22, <2>1 DEF NewestStays, Visible
<1>24. \A n \in dir.segs : Unsynced(n) => n = top
  BY <1>2, <1>4, <1>5 DEF BelowVisible, Visible
<1>25. ASSUME NEW d \in Directory, d.head = dir.head, NEW j \in 1 .. l, d.segs = dir.segs \ R(j)
       PROVE  GoodDir(d)' /\ BelowVisible(d)'
  <2>1. j \in 0 .. l
    BY <1>12
  <2>2. R(j) \in SUBSET D /\ \A x \in R(j), y \in dir.segs : y < x => y \in R(j)
    BY <1>15, <2>1
  <2>3. R(j) \in SUBSET dir.segs /\ \A x \in R(j) : End(x) <= dir.head /\ \E n \in dir.segs : x < n
    BY <1>8, <2>2
  <2>4. GoodDir(d)
    BY <1>2, <1>25, <2>2, <2>3, ReclaimedDir
  <2>5. ASSUME NEW n \in d.segs PROVE Grows(d, n)
    BY <1>4, <1>11, <1>25 DEF Grows
  <2>6. GoodDir(d)'
    BY <1>1, <1>2, <1>19, <1>21, <2>4, <2>5, GoodDirKept DEF Accounts, GoodDir
  <2>7. ASSUME NEW n \in d.segs
        PROVE  (\E m \in dir'.segs : n <= m) /\ (Unsynced(n)' => Visible(n)')
    <3>1. n <= top /\ top \in dir'.segs /\ n \in Names
      BY <1>4, <1>5, <1>17, <1>18, <1>25
    <3>2. n # top => ~Unsynced(n)'
      BY <1>11, <1>24, <1>25, <3>1 DEF Unsynced
    <3>. QED  BY <1>22, <3>1, <3>2
  <2>8. BelowVisible(d)'
    BY <2>7 DEF BelowVisible
  <2>. QED  BY <2>6, <2>8
<1>26. DirsOK'
  <2>1. ASSUME NEW d \in Possible, NEW n \in d.segs PROVE FileGrows(n)
    <3>1. d \in Directory /\ BelowVisible(d)
      BY <1>2, <2>1, DirIsPossible DEF DirsOK
    <3>2. n \in Names /\ Len(disk[n].recs) \in Nat /\ disk[n].synced \in Nat
      BY <1>2, <2>1, <3>1, SegTyped, FileTyped
    <3>3. Unsynced(n)' => Unsynced(n)
      BY <1>11, <3>2 DEF Unsynced
    <3>. QED  BY <1>11, <3>2, <3>3 DEF FileGrows
  <2>2. ASSUME NEW d \in Possible' PROVE d \in Possible \/ (GoodDir(d)' /\ BelowVisible(d)')
    <3>1. SUFFICES ASSUME d \notin Possible PROVE GoodDir(d)' /\ BelowVisible(d)'
      OBVIOUS
    <3>2. PICK j \in 1 .. l : d = Applied(dir, c, 1 .. j)
      BY <1>14, <3>1
    <3>3. j \in 0 .. l
      BY <1>12
    <3>4. d \in Directory /\ d.segs = dir.segs \ R(j) /\ d.head = dir.head
      BY <1>15, <3>2, <3>3
    <3>. QED  BY <1>25, <3>4
  <2>. QED  BY <1>1, <1>14, <1>19, <1>21, <1>23, <2>1, <2>2, DirsPreserved
<1>27. UnlinksOK'
  <2>1. ASSUME NEW i \in Len(ops) + 1 .. Len(ops'), NEW n \in Names, ops'[i] = Unlink(n)
        PROVE  /\ n \notin dir'.segs /\ \E m \in dir'.segs : n < m
               /\ MaxSeq(n)' < Applied(ddir', ops', 1 .. i).head
    <3>. DEFINE k == Len(ops)
    <3>1. PICK j \in 1 .. l : i = Len(ops) + j /\ j \in 0 .. l
      <4>1. k \in Nat /\ l \in Nat /\ i \in k + 1 .. k + l
        BY <1>3, <1>12, <1>14
      <4>. HIDE DEF k
      <4>2. i - k \in 1 .. l /\ i - k \in 0 .. l /\ i = k + (i - k)
        BY <4>1
      <4>. QED  BY <4>2 DEF k
    <3>2. Unlink(n) = Unlink(order[j])
      BY <1>14, <2>1, <3>1
    <3>3. n = order[j]
      BY <3>2 DEF Unlink
    <3>4. n \in D
      BY <1>12, <3>3
    <3>5. Applied(ddir', ops', 1 .. i).head = dir.head
      BY <1>14, <1>15, <3>1
    <3>6. MaxSeq(n)' = MaxSeq(n) /\ MaxSeq(n) < dir.head /\ n < top
      BY <1>8, <1>20, <3>4
    <3>. QED  BY <1>17, <1>18, <3>4, <3>5, <3>6
  <2>2. \A n \in dir.segs : \E m \in dir'.segs : n <= m
    BY <1>23 DEF NewestStays
  <2>3. Len(ops) <= Len(ops') /\ dir'.segs \subseteq dir.segs
    BY <1>3, <1>12, <1>14, <1>17
  <2>. QED  BY <1>11, <1>14, <1>19, <2>1, <2>2, <2>3, UnlinksPreserved
<1>. DEFINE Placed(r) ==
       IF r.seq < headSeq' THEN r.id \in hub \cup dropped'
       ELSE r.seq - headSeq' + 1 \in 1 .. Len(rounds') /\ r.id = rounds'[r.seq - headSeq' + 1]
<1>28. ASSUME NEW n \in dir.segs, NEW i \in 1 .. Len(disk[n].recs) PROVE Placed(disk[n].recs[i])
  <2>1. disk[n].recs[i] \in Stored /\ disk[n].recs[i].seq = n + i - 1
    BY <1>2, StoredIs
  <2>2. i \in Nat /\ n + i - 1 \in Int
    BY <1>4
  <2>3. CASE n + i - 1 < dir.head
    <3>1. disk[n].recs[i].id \in Settled
      BY <1>2, <2>3 DEF GoodDir, Retired
    <3>2. n + i - 1 < headSeq'
      BY <1>3, <1>6, <2>2, <2>3
    <3>. QED  BY <1>1, <2>1, <3>1, <3>2 DEF Settled
  <2>4. CASE ~(n + i - 1 < dir.head)
    <3>1. disk[n].recs[i] \in Live
      BY <1>3, <2>1, <2>2, <2>4 DEF Live
    <3>. QED  BY <1>6, <3>1
  <2>. QED  BY <2>3, <2>4
<1>29. BufferOK'
  <2>1. End(top) <= measured
    BY <1>2 DEF GoodDir, Bounded
  <2>2. ASSUME NEW id \in promised PROVE id \in hub \cup dropped' \cup Range(rounds')
    <3>1. CASE id \in Settled
      BY <1>1, <3>1 DEF Settled
    <3>2. CASE id \notin Settled
      <4>1. PICK n \in dir.segs : \E i \in 1 .. disk[n].synced : disk[n].recs[i].id = id
        BY <1>2, <3>2 DEF GoodDir, Keeps
      <4>2. PICK i \in 1 .. disk[n].synced : disk[n].recs[i].id = id
        BY <4>1
      <4>3. i \in 1 .. Len(disk[n].recs)
        BY <1>4
      <4>4. Placed(disk[n].recs[i])
        BY <1>28, <4>3
      <4>5. \A k \in 1 .. Len(rounds') : rounds'[k] \in Range(rounds')
        BY <1>6 DEF Range
      <4>. QED  BY <4>2, <4>4, <4>5
    <3>. QED  BY <3>1, <3>2
  <2>3. /\ headSeq' + Len(rounds') <= measured' /\ -1 < headSeq' + Len(rounds')
        /\ \A i \in 1 .. Len(rounds') : ~(headSeq' + i - 1 <= -1)
    BY <1>1, <1>3, <1>6, <2>1
  <2>. QED  BY <1>1, <1>6, <2>2, <2>3 DEF BufferOK, Settled
<1>30. DownOK'
  BY <1>1, <1>10 DEF DownOK, MutexFree
<1>31. MirrorOK'
  <2>1. ASSUME NEW n \in e.segs PROVE ~disk'[n].torn
    BY <1>4, <1>11, <1>18, <1>24, <2>1 DEF Unsynced
  <2>2. headSeq' + Len(rounds') = End(top)' /\ End(top)' \in Nat
    BY <1>4, <1>6, <1>20
  <2>3. ASSUME NEW n \in e.segs, NEW i \in 1 .. Len(disk'[n].recs)
        PROVE  Reflects(disk[n].recs[i])'
    <3>1. n \in dir.segs /\ disk'[n].recs = disk[n].recs
      BY <1>4, <1>11, <1>18
    <3>2. Placed(disk[n].recs[i])
      BY <1>28, <3>1
    <3>. QED  BY <1>1, <3>1, <3>2 DEF Reflects, Settled
  <2>4. Len(pending') = 0
    BY <1>1
  <2>5. \A n \in e.segs : \A i \in 1 .. Len(disk'[n].recs) : Reflects(disk[n].recs[i])'
    BY <2>3
  <2>6. End(active)' = End(top)' /\ Visible(active)'
    BY <1>10, <1>22 DEF End, Visible
  <2>7. headSeq' + Len(rounds') = End(active)' + Len(pending') + (IF staging' THEN 1 ELSE 0)
    BY <1>1, <2>2, <2>4, <2>6
  <2>8. pc' # "roll" /\ active' \in dir'.segs /\ head' = headSeq' /\ 1 .. Len(pending') = {}
    BY <1>1, <1>10, <1>17, <1>18, <2>4
  <2>9. /\ \A n \in dir'.segs : ~disk'[n].torn
        /\ \A n \in dir'.segs : \A i \in 1 .. Len(disk'[n].recs) : Reflects(disk[n].recs[i])'
    BY <1>17, <2>1, <2>5
  <2>. QED  BY <2>6, <2>7, <2>8, <2>9 DEF MirrorOK
<1>32. FlushOK'
  <2>1. \A m, n \in e.segs : m < n => dir.head <= n
    BY <1>8, <1>17
  <2>. QED  BY <1>1, <1>6, <1>17, <2>1 DEF FlushOK
<1>. QED  BY <1>19, <1>20, <1>26, <1>27, <1>29, <1>30, <1>31, <1>32 DEF SpoolInv
-----------------------------------------------------------------------------
(* The invariant holds.                                                    *)

LEMMA InitInv == Init => IInv
<1>. SUFFICES ASSUME Init PROVE IInv
  OBVIOUS
<1>1. setup \in Setups /\ MaxRounds \in Nat /\ 0 \in Names /\ setup.rounds \in Nat
  <2>1. setup \in Setups
    BY DEF Init
  <2>. QED  BY <2>1, ConstantsTyped, SpoolAssumption DEF Names
<1>. SUFFICES ASSUME Journaled PROVE SpoolInv
  BY <1>1 DEF IInv
<1>2. /\ dir = [segs |-> {}, head |-> 0] /\ dir \in Directory /\ dir.segs = {} /\ dir.head = 0
      /\ ddir = dir /\ ops = <<>> /\ Len(ops) = 0
  BY DEF Init, Directory
<1>3. \A n \in Names : disk[n] = Empty
  BY DEF Init
<1>4. TypeOK
  <2>1. disk \in [Names -> File]
    BY EmptyIs DEF Init
  <2>2. measured \in 0 .. setup.rounds /\ active \in Names
    BY <1>1 DEF Init
  <2>3. ops \in Seq(DirChange) /\ pending \in Seq(Record) /\ rounds \in Seq(Nat)
    BY <1>2 DEF Init
  <2>4. /\ head \in Nat /\ headDurable \in Nat /\ headSeq \in Nat /\ upto \in Int
        /\ kills \in Nat /\ losses \in Nat /\ errors \in Nat
    BY DEF Init
  <2>5. /\ closing = FALSE /\ degraded = FALSE /\ staging = FALSE
        /\ status = "down" /\ pc = "idle"
    BY Zenon DEF Init
  <2>. QED  BY <1>2, <2>1, <2>2, <2>3, <2>4, <2>5 DEF TypeOK
<1>5. FilesOK
  BY <1>1, <1>3, EmptyIs, ConstantsTyped DEF FilesOK
<1>6. Possible = {dir} /\ dir = Applied(ddir, ops, 1 .. Len(ops))
  <2>1. Applied(dir, ops, 1 .. 0) = dir
    BY <1>2, AppliedNone
  <2>2. 0 .. Len(ops) = {0}
    BY <1>2
  <2>3. Possible = {Applied(ddir, ops, 1 .. k) : k \in {0}}
    BY <2>2 DEF Possible
  <2>4. {Applied(ddir, ops, 1 .. k) : k \in {0}} = {Applied(ddir, ops, 1 .. 0)}
    OBVIOUS
  <2>5. Applied(ddir, ops, 1 .. 0) = dir /\ Applied(ddir, ops, 1 .. Len(ops)) = dir
    BY <1>2, <2>1
  <2>. QED  BY <2>3, <2>4, <2>5
<1>7. DirsOK
  <2>1. GoodDir(dir)
    BY <1>2 DEF Init, GoodDir, Contiguous, Reaches, Bounded, Retired, Keeps
  <2>2. BelowVisible(dir)
    BY <1>2 DEF BelowVisible
  <2>. QED  BY <1>6, <2>1, <2>2 DEF DirsOK
<1>8. UnlinksOK
  BY <1>2 DEF UnlinksOK
<1>9. BufferOK /\ DownOK /\ MirrorOK /\ FlushOK
  BY ConstantsTyped, <1>1 DEF Init, BufferOK, DownOK, MirrorOK, FlushOK, Mirroring, MutexFree
<1>. QED  BY <1>4, <1>5, <1>7, <1>8, <1>9 DEF SpoolInv

LEMMA SetupKept == ASSUME [Next]_vars PROVE setup' = setup
<1>. QED  BY DEF Next, Flusher, Open, OpenRefused, OpenFsyncDir, AddRound, StageRound, Push,
                 CommitBatch, StartFlush, WriteRecord, RollCreate, RollFsyncDir, SyncActive,
                 RenameHead, HeadFsyncDir, Reclaim, Degrade, Exit, Kill, PowerLoss, faults, vars

LEMMA StutterStep ==
  ASSUME SpoolInv, UNCHANGED vars
  PROVE  SpoolInv'
<1>1. /\ UNCHANGED <<setup, disk, dir, ddir, ops, status, pc, closing, degraded>>
      /\ UNCHANGED <<pending, head, headDurable, active, rounds, headSeq, staging, upto>>
      /\ UNCHANGED <<measured, hub, dropped, promised, kills, losses, errors>>
  BY DEF vars, files, flusher, staged, buffer, history, faults
<1>2. TypeOK /\ TypeOK' /\ measured \in Nat
  BY <1>1, BufferTyped DEF SpoolInv, TypeOK
<1>3. FilesOK' /\ DirsOK' /\ UnlinksOK'
  BY <1>1, <1>2, FilesUnchanged DEF Accounts
<1>4. BufferOK' /\ DownOK' /\ FlushOK'
  BY <1>1 DEF SpoolInv, BufferOK, DownOK, FlushOK, Mirroring, Mirrored, MutexFree, Settled
<1>5. MirrorOK'
  BY <1>1 DEF SpoolInv, MirrorOK, Mirroring, Mirrored, Visible, End, Reflects, Settled
<1>. QED  BY <1>2, <1>3, <1>4, <1>5 DEF SpoolInv

LEMMA SpoolStep ==
  ASSUME SpoolInv, setup \in Setups, Journaled, [Next]_vars
  PROVE  SpoolInv'
<1>1. CASE Open
  BY <1>1, OpenFirstStep, OpenAgainStep
<1>2. CASE OpenRefused
  BY <1>2, IsReadable DEF OpenRefused
<1>3. CASE OpenFsyncDir
  BY <1>3, OpenFsyncDirStep
<1>4. CASE AddRound
  BY <1>4, AddRoundStep
<1>5. CASE StageRound
  BY <1>5, StageStep
<1>6. CASE \E n \in 1 .. Cap : Push(n)
  BY <1>6, PushStep
<1>7. CASE CommitBatch
  BY <1>7, CommitStep
<1>8. CASE StartFlush(TRUE) \/ StartFlush(FALSE)
  BY <1>8, StartFlushStep
<1>9. CASE WriteRecord
  BY <1>9, WriteRecordStep
<1>10. CASE RollCreate
  BY <1>10, RollCreateStep
<1>11. CASE RollFsyncDir
  BY <1>11, RollFsyncDirStep
<1>12. CASE SyncActive
  BY <1>12, SyncActiveStep
<1>13. CASE RenameHead
  BY <1>13, RenameHeadStep
<1>14. CASE HeadFsyncDir
  BY <1>14, HeadFsyncDirStep
<1>15. CASE Reclaim
  BY <1>15, ReclaimStep
<1>16. CASE Degrade
  BY <1>16, DegradeStep
<1>17. CASE Exit
  BY <1>17, ExitStep
<1>18. CASE Kill
  BY <1>18, KillStep
<1>19. CASE PowerLoss
  BY <1>19, PowerLossStep
<1>20. CASE UNCHANGED vars
  BY <1>20, StutterStep
<1>. QED  BY <1>1, <1>2, <1>3, <1>4, <1>5, <1>6, <1>7, <1>8, <1>9, <1>10, <1>11, <1>12, <1>13,
             <1>14, <1>15, <1>16, <1>17, <1>18, <1>19, <1>20 DEF Next, Flusher

LEMMA NextInv == IInv /\ [Next]_vars => IInv'
<1>. SUFFICES ASSUME IInv, [Next]_vars PROVE IInv'
  OBVIOUS
<1>1. setup' = setup
  BY SetupKept
<1>2. CASE Journaled
  BY <1>1, <1>2, SpoolStep DEF IInv
<1>3. CASE ~Journaled
  BY <1>1, <1>3 DEF IInv, Journaled
<1>. QED  BY <1>2, <1>3

(* The inductive invariant: on a journaled file system every directory     *)
(* that recovery may find is contiguous, reaches its watermark and keeps   *)
(* what a flush has promised, and buffer and files mirror each other.      *)
THEOREM SpoolInvariant == Spec => []IInv
<1>. QED  BY InitInv, NextInv, PTL DEF Spec

-----------------------------------------------------------------------------
(* What follows from it.                                                   *)

(* openSpool never takes the files that a kill, a power failure or a       *)
(* failing operation has left for corrupt.                                 *)
THEOREM RecoveryIsNeverRefused == Spec => []NeverRefuses
<1>1. IInv => NeverRefuses
  BY DEF IInv, SpoolInv, DownOK, NeverRefuses
<1>. QED  BY <1>1, SpoolInvariant, PTL

(* A round that a flush has covered is in the buffer of a running agent,   *)
(* unless it was delivered or evicted on overflow.                         *)
THEOREM FlushedRoundsAreKept == Spec => [](Journaled => FlushedRoundsSurvive)
<1>1. IInv => (Journaled => FlushedRoundsSurvive)
  BY DEF IInv, SpoolInv, BufferOK, Settled, FlushedRoundsSurvive
<1>. QED  BY <1>1, SpoolInvariant, PTL

(* A removal of a segment persists only behind a watermark that has passed *)
(* all of the segment's records (reclaimLocked after writeHead).           *)
THEOREM RemovedSegmentsAreDead == Spec => [](Journaled => UnlinksAreDurablyDead)
<1>1. ASSUME IInv, Journaled PROVE UnlinksAreDurablyDead
  <2>1. TypeOK /\ UnlinksOK /\ ops \in Seq(DirChange)
    BY <1>1 DEF IInv, SpoolInv, TypeOK
  <2>2. DOMAIN ops = 1 .. Len(ops) /\ Len(ops) \in Nat
    BY <2>1
  <2>3. ASSUME NEW i \in 1 .. Len(ops), ops[i].op = "unlink"
        PROVE  \/ MaxSeq(ops[i].arg) < ddir.head
               \/ \E j \in 1 .. i : ops[j].op = "head" /\ MaxSeq(ops[i].arg) < ops[j].arg
    <3>1. MaxSeq(ops[i].arg) < Applied(ddir, ops, 1 .. i).head
      BY <2>1, <2>3 DEF UnlinksOK
    <3>2. CASE Heads(ops, 1 .. i) = {}
      <4>1. Applied(ddir, ops, 1 .. i).head = ddir.head
        BY <3>2, AppliedIs
      <4>. QED  BY <3>1, <4>1
    <3>3. CASE Heads(ops, 1 .. i) # {}
      <4>1. i \in Nat /\ Heads(ops, 1 .. i) \in SUBSET (1 .. i)
        BY <2>2 DEF Heads
      <4>2. PICK j \in 1 .. i : j = Newest(Heads(ops, 1 .. i)) /\ j \in Heads(ops, 1 .. i)
        BY <3>3, <4>1, NewestChange
      <4>3. Applied(ddir, ops, 1 .. i).head = ops[j].arg /\ ops[j].op = "head"
        BY <3>3, <4>2, AppliedIs DEF Heads
      <4>. QED  BY <3>1, <4>3
    <3>. QED  BY <3>2, <3>3
  <2>. QED  BY <1>1, <2>2, <2>3 DEF UnlinksAreDurablyDead
<1>. QED  BY <1>1, SpoolInvariant, PTL
(* A record is what its two fields say.                                    *)
LEMMA RecordIs ==
  ASSUME NEW r \in Record
  PROVE  r = [seq |-> r.seq, id |-> r.id]
<1>. QED  BY DEF Record

(* Buffer and spool number the rounds alike: each buffered round is on     *)
(* disk or staged under the buffer's number (buffer.add, spool.append).    *)
THEOREM BufferIsMirrored == Spec => [](Journaled => SpoolMirrorsBuffer)
<1>1. ASSUME IInv, Journaled, status = "up", Mirrored, NEW i \in 1 .. Len(rounds)
      PROVE  \/ [seq |-> headSeq + i - 1, id |-> rounds[i]] \in Stored \cup Range(pending)
             \/ staging /\ i = Len(rounds)
  <2>1. SpoolInv /\ Mirroring /\ TypeOK /\ FilesOK /\ GoodDir(dir) /\ MirrorOK /\ FlushOK
    BY <1>1, DirIsPossible DEF IInv, SpoolInv, DirsOK, Mirroring
  <2>2. /\ headSeq \in Nat /\ head \in Nat /\ headDurable \in Nat /\ Len(rounds) \in Nat
        /\ Len(pending) \in Nat /\ End(active) \in Nat /\ dir \in Directory /\ dir.head \in Nat
        /\ DOMAIN pending = 1 .. Len(pending) /\ staging \in BOOLEAN
    BY <2>1, BufferTyped, DirectoryRecord
  <2>3. /\ headSeq + Len(rounds) = End(active) + Len(pending) + (IF staging THEN 1 ELSE 0)
        /\ dir.head <= headSeq /\ active \in dir.segs
    BY <2>1, <2>2 DEF MirrorOK, FlushOK
  <2>4. PICK s \in Nat : s = headSeq + i - 1
    BY <2>2
  <2>5. s - headSeq + 1 = i /\ s >= headSeq /\ i <= Len(rounds) /\ i \in Nat
    BY <2>2, <2>4
  <2>6. ASSUME NEW r \in Record, r.seq = s, Reflects(r)
        PROVE  r = [seq |-> s, id |-> rounds[i]]
    <3>1. ~(r.seq < headSeq)
      BY <2>2, <2>5, <2>6
    <3>2. r.id = rounds[i]
      BY <2>5, <2>6, <3>1 DEF Reflects
    <3>. QED  BY <2>6, <3>2, RecordIs
  <2>7. CASE s < End(active)
    <3>1. PICK top \in dir.segs : Visible(top) /\ End(top) = End(active)
      BY <2>1, StoredBelow
    <3>2. \E m \in dir.segs : m <= s
      <4>1. PICK m \in dir.segs : m <= dir.head
        BY <2>1, <2>3 DEF GoodDir, Reaches
      <4>2. m \in Nat
        BY <2>2, SegTyped
      <4>. QED  BY <2>2, <2>3, <2>5, <4>1, <4>2
    <3>3. PICK n \in dir.segs : s - n + 1 \in 1 .. Len(disk[n].recs)
      BY <2>1, <2>2, <2>7, <3>1, <3>2, Covered DEF GoodDir, Visible
    <3>4. PICK k \in 1 .. Len(disk[n].recs) : k = s - n + 1
      BY <3>3
    <3>5. disk[n].recs[k] \in Record /\ disk[n].recs[k].seq = n + k - 1 /\ Reflects(disk[n].recs[k])
      BY <2>1, StoredRecord
    <3>6. n + k - 1 = s
      BY <2>2, <3>4, SegTyped
    <3>7. disk[n].recs[k] \in Stored
      BY <2>1, StoredIs
    <3>. QED  BY <2>4, <2>6, <3>5, <3>6, <3>7
  <2>8. CASE s >= End(active) /\ s < End(active) + Len(pending)
    <3>1. PICK k \in 1 .. Len(pending) : k = s - End(active) + 1
      BY <2>2, <2>8
    <3>2. pending[k] \in Record /\ pending[k].seq = End(active) + k - 1 /\ Reflects(pending[k])
      BY <2>1, StagedRecord
    <3>3. End(active) + k - 1 = s
      BY <2>2, <3>1
    <3>4. pending[k] \in Range(pending)
      BY <2>2 DEF Range
    <3>. QED  BY <2>4, <2>6, <3>2, <3>3, <3>4
  <2>9. CASE s >= End(active) + Len(pending)
    <3>1. staging /\ i = Len(rounds)
      BY <2>2, <2>3, <2>4, <2>5, <2>9
    <3>. QED  BY <3>1
  <2>. QED  BY <2>2, <2>7, <2>8, <2>9
<1>2. ASSUME IInv, Journaled PROVE SpoolMirrorsBuffer
  <2>1. DOMAIN rounds = 1 .. Len(rounds)
    BY <1>2, BufferTyped DEF IInv, SpoolInv
  <2>. QED  BY <1>1, <1>2, <2>1 DEF SpoolMirrorsBuffer
<1>. QED  BY <1>2, SpoolInvariant, PTL

(* Reclamation (reclaimLocked) keeps the records on disk within a segment  *)
(* of the buffer's capacity.                                               *)
THEOREM DiskIsBounded == Spec => [](Journaled => DiskBounded)
<1>1. ASSUME IInv, Journaled, status = "up", pc = "idle", ~degraded, head = headDurable
      PROVE  Cardinality(Stored) <= Cap + SegMax
  <2>1. /\ SpoolInv /\ Mirroring /\ TypeOK /\ FilesOK /\ GoodDir(dir) /\ MirrorOK /\ FlushOK
        /\ BufferOK /\ setup \in Setups
    BY <1>1, DirIsPossible DEF IInv, SpoolInv, DirsOK, Mirroring, Mirrored
  <2>2. /\ headSeq \in Nat /\ Len(rounds) \in Nat /\ Len(pending) \in Nat /\ End(active) \in Nat
        /\ dir \in Directory /\ dir.head \in Nat /\ Cap \in Nat /\ SegMax \in Nat
    BY <2>1, BufferTyped, DirectoryRecord, ConstantsTyped
  <2>3. /\ headSeq + Len(rounds) = End(active) + Len(pending) + (IF staging THEN 1 ELSE 0)
        /\ dir.head = headSeq /\ active \in dir.segs /\ Visible(active) /\ Len(rounds) <= Cap
        /\ \A m, n \in dir.segs : m < n => dir.head <= n
    BY <1>1, <2>1 DEF MirrorOK, FlushOK, BufferOK
  <2>4. End(active) <= dir.head + Cap
    BY <2>2, <2>3
  <2>5. PICK m \in dir.segs : \A n \in dir.segs : m <= n
    <3>1. dir.segs \in SUBSET Nat
      BY <2>2, SegTyped
    <3>. QED  BY <2>3, <3>1, LeastNumber
  <2>6. m \in Names /\ m \in Nat /\ End(m) = m + Len(disk[m].recs) /\ Len(disk[m].recs) \in Nat
        /\ End(m) \in Nat /\ Len(disk[m].recs) <= SegMax
    <3>1. m \in Names
      BY <2>2, SegTyped
    <3>. QED  BY <2>1, <3>1, FileTyped DEF FilesOK, End
  <2>7. dir.head <= End(m)
    <3>1. CASE m = active
      BY <2>1, <2>2, <2>3, <3>1, HeadBelowEnd DEF GoodDir, Visible
    <3>2. CASE m # active
      <4>1. m < active
        BY <2>1, <2>3, <2>5, <2>6, <3>2, BufferTyped
      <4>2. m < End(m) /\ End(m) \in dir.segs
        BY <2>1, <2>3, <4>1 DEF GoodDir, Contiguous
      <4>. QED  BY <2>3, <4>2
    <3>. QED  BY <3>1, <3>2
  <2>. DEFINE b == End(active) - 1
  <2>8. ASSUME NEW r \in Stored PROVE r.seq \in m .. b
    <3>1. PICK n \in dir.segs : \E i \in 1 .. Len(disk[n].recs) : r = disk[n].recs[i]
      BY <2>1, StoredIs
    <3>2. PICK i \in 1 .. Len(disk[n].recs) : r = disk[n].recs[i]
      BY <3>1
    <3>3. r.seq \in Nat /\ r.seq = n + i - 1 /\ r.seq < End(active)
      BY <2>1, <3>2, StoredRecord
    <3>4. n \in Nat /\ m <= n /\ i >= 1 /\ i \in Nat
      BY <2>2, <2>5, SegTyped
    <3>. QED  BY <2>2, <2>6, <3>3, <3>4
  <2>9. b \in Int /\ m \in Int
    BY <2>2, <2>6
  <2>10. Cardinality(Stored) \in Nat /\ Cardinality(Stored) <= IF m > b THEN 0 ELSE b - m + 1
    <3>1. Contiguous(dir) /\ Stored \in SUBSET Stored
      BY <2>1 DEF GoodDir
    <3>. HIDE DEF b
    <3>. QED  BY <2>1, <2>8, <2>9, <3>1, Numbered
  <2>11. (IF m > b THEN 0 ELSE b - m + 1) <= Cap + SegMax
    <3>1. dir.head <= m + SegMax
      BY <2>2, <2>6, <2>7
    <3>2. End(active) <= m + SegMax + Cap
      BY <2>2, <2>4, <2>6, <3>1
    <3>3. b - m + 1 <= Cap + SegMax
      BY <2>2, <2>6, <3>2
    <3>4. 0 <= Cap + SegMax
      BY <2>2
    <3>. HIDE DEF b
    <3>. QED  BY <3>3, <3>4
  <2>. HIDE DEF b
  <2>. QED  BY <2>2, <2>6, <2>9, <2>10, <2>11
<1>2. ASSUME IInv, Journaled PROVE DiskBounded
  BY <1>1, <1>2 DEF DiskBounded
<1>. QED  BY <1>2, SpoolInvariant, PTL
=============================================================================
