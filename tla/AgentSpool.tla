----------------------------- MODULE AgentSpool -----------------------------
(***************************************************************************)
(* The agent's durable spool (internal/agent/spool.go) behind the buffer   *)
(* (internal/agent/buffer.go): segment files of records, a head watermark, *)
(* a periodic flush, and recovery after the process is killed or the power *)
(* fails at any step.                                                      *)
(*                                                                         *)
(* The file system is the external part.  A file's records are durable up  *)
(* to its last fsync.  A change of the directory (a created or removed     *)
(* segment, the rename that replaces the head file) is visible at once and *)
(* durable at the next fsync of the directory; a power failure keeps some  *)
(* of the changes made since.  Journaled says which ones: with a journal,  *)
(* the changes persist in their order and any fsync commits them; without, *)
(* any subset of them may persist.                                         *)
(*                                                                         *)
(* A record is its sequence number and the identity of its round.  Frames  *)
(* have unit size, so that Cap stands for the buffer's two budgets and     *)
(* SegMax for the bytes of a segment.                                      *)
(***************************************************************************)
EXTENDS Integers, Sequences, FiniteSets, Functions

CONSTANTS
  MaxRounds,      \* bound: the largest setup.rounds
  MaxPowerLosses, \* bound: how often the power fails
  Cap,            \* capacity of the buffer
  Setups          \* where the agent may run: [journaled: the file system's metadata is
                  \* ordered by a journal, segMax: capacity of a segment, and bounds:
                  \* rounds measured, kills of the process, failing operations of a flush]

ASSUME SpoolAssumption ==
  /\ MaxRounds \in Nat /\ MaxPowerLosses \in Nat /\ Cap \in Nat \ {0}
  /\ Setups \subseteq [journaled : BOOLEAN, segMax : Nat \ {0}, rounds : 0 .. MaxRounds,
                        kills : Nat, errors : Nat]

VARIABLES
  setup,
  disk,        \* contents of the segment files, by the seq in the file's name
  dir, ddir,   \* the directory as programs see it, and as it is on stable storage
  ops,         \* the changes between the two, oldest first
  status,      \* the agent: "down", "opening" (in openSpool), "up", "refused"
  pc,          \* the spool's mutex: "idle", "closed", or the step of a flush
  closing,     \* close() has begun
  degraded,    \* an error has made the spool memory-only
  pending,     \* staged records
  head, headDurable, \* latest staged and latest fsynced watermark
  active,      \* the active segment
  rounds, headSeq,   \* the buffer: round identities, seq of the first one
  staging,     \* add() holds the buffer's mutex, its round not staged yet
  upto,        \* last seq of a push under way, or -1
  measured, hub, dropped,  \* history: rounds measured, delivered, evicted
  promised,    \* history: rounds an fsync of the spool has covered
  kills, losses, errors

files   == <<disk, dir, ddir, ops>>
flusher == <<pc, closing, degraded, headDurable, active>>
staged  == <<pending, head>>
buffer  == <<rounds, headSeq, staging, upto>>
history == <<measured, hub, dropped, promised>>
faults  == <<setup, kills, losses, errors>>
vars == <<files, status, flusher, staged, buffer, history, faults>>

Journaled == setup.journaled
SegMax    == setup.segMax

Names == 0 .. MaxRounds
Empty == [recs |-> <<>>, synced |-> 0, torn |-> FALSE]
After(s, k) == SubSeq(s, k + 1, Len(s))
Last(s) == s[Len(s)]
MaxSeq(n) == IF disk[n].recs = <<>> THEN -1 ELSE Last(disk[n].recs).seq
Newest(S) == CHOOSE n \in S : \A m \in S : m <= n
Oldest(S) == CHOOSE n \in S : \A m \in S : n <= m
Closed == dir.segs \ {active}

\* the records in the files of the directory
Stored == UNION {Range(disk[n].recs) : n \in dir.segs}
Ids(S) == {r.id : r \in S}

Init ==
  /\ setup \in Setups
  /\ disk = [n \in Names |-> Empty]
  /\ dir = [segs |-> {}, head |-> 0] /\ ddir = dir /\ ops = <<>>
  /\ status = "down" /\ pc = "idle" /\ closing = FALSE /\ degraded = FALSE
  /\ pending = <<>> /\ head = 0 /\ headDurable = 0 /\ active = 0
  /\ rounds = <<>> /\ headSeq = 0 /\ staging = FALSE /\ upto = -1
  /\ measured = 0 /\ hub = {} /\ dropped = {} /\ promised = {}
  /\ kills = 0 /\ losses = 0 /\ errors = 0

-----------------------------------------------------------------------------
(* The file system.                                                        *)

(* The directory d after those of the changes whose numbers are in keep.   *)
Applied(d, changes, keep) ==
  LET about(n) == {i \in keep : changes[i].op # "head" /\ changes[i].arg = n}
      heads == {i \in keep : changes[i].op = "head"}
  IN [segs |-> {n \in Names : IF about(n) = {} THEN n \in d.segs
                              ELSE changes[Newest(about(n))].op = "create"},
      head |-> IF heads = {} THEN d.head ELSE changes[Newest(heads)].arg]

(* A sequence of directory changes, visible at once.                       *)
Change(changes) ==
  /\ ops' = ops \o changes
  /\ dir' = Applied(dir, changes, DOMAIN changes)
  /\ UNCHANGED ddir

FsyncDir == ddir' = dir /\ ops' = <<>> /\ UNCHANGED dir

SyncedFile(n) == [disk[n] EXCEPT !.synced = Len(disk[n].recs)]

-----------------------------------------------------------------------------
(* openSpool and reload.                                                   *)

(* Records must form one contiguous run, and only the last segment may end *)
(* in a torn frame.                                                        *)
Readable ==
  /\ \A n \in dir.segs : \A i \in 1 .. Len(disk[n].recs) - 1 :
       disk[n].recs[i + 1].seq = disk[n].recs[i].seq + 1
  /\ \A m, n \in {s \in dir.segs : disk[s].recs # <<>>} :
       m < n /\ (\A s \in dir.segs : m < s /\ s < n => disk[s].recs = <<>>)
       => disk[n].recs[1].seq = MaxSeq(m) + 1
  /\ \A n \in dir.segs : disk[n].torn => n = Newest(dir.segs)

DeadSegments(w) == {n \in dir.segs \ {Newest(dir.segs)} : MaxSeq(n) < w}

Unlink(n) == [op |-> "unlink", arg |-> n]

(* The sequences that list S once, in ascending order: there is one.       *)
Ascending(S) ==
  {f \in [1 .. Cardinality(S) -> S] : \A i, j \in DOMAIN f : i < j => f[i] < f[j]}

(* openSpool up to the active segment, with the buffer's reload: the live  *)
(* records within the buffer's capacity become the buffer, the dead closed *)
(* segments are removed, a torn tail is cut, and the last segment becomes  *)
(* the active one, or a first one is created.                              *)
Open ==
  LET live == {r \in Stored : r.seq >= dir.head}
      seqs == {r.seq : r \in live}
      over == IF Cardinality(live) > Cap THEN Cardinality(live) - Cap ELSE 0
      nth(i) == CHOOSE r \in live : r.seq = Oldest(seqs) + i - 1
  IN
  /\ status = "down" /\ Readable
  /\ rounds' = [i \in 1 .. Cardinality(live) - over |-> nth(over + i).id]
  /\ headSeq' = dir.head + over
  /\ head' = dir.head + over
  /\ headDurable' = dir.head
  /\ dropped' = dropped \cup {nth(i).id : i \in 1 .. over}
  /\ IF dir.segs # {}
     THEN /\ active' = Newest(dir.segs)
          /\ disk' = [disk EXCEPT ![active'].torn = FALSE]
          /\ \E order \in Ascending(DeadSegments(dir.head)) :
               Change([i \in DOMAIN order |-> Unlink(order[i])])
          /\ status' = "up"
     ELSE /\ active' = dir.head
          /\ disk' = [disk EXCEPT ![active'] = Empty]
          /\ Change(<<[op |-> "create", arg |-> dir.head]>>)
          /\ status' = "opening"
  /\ UNCHANGED <<pc, closing, degraded, pending, staging, upto, measured, hub,
                 promised, faults>>

OpenRefused ==
  /\ status = "down" /\ ~Readable
  /\ status' = "refused"
  /\ UNCHANGED <<files, flusher, staged, buffer, history, faults>>

(* The directory entry of a first segment is fsynced before it is used.    *)
OpenFsyncDir ==
  /\ status = "opening"
  /\ FsyncDir
  /\ status' = "up"
  /\ UNCHANGED <<disk, flusher, staged, buffer, history, faults>>

-----------------------------------------------------------------------------
(* The buffer, mirrored by the spool.  append and advanceHead take the     *)
(* spool's mutex, which a flush holds from its first step to its last.     *)

MutexFree == pc \in {"idle", "closed"}
Mirrored  == ~degraded /\ pc # "closed"

AdvanceHead(h) == head' = IF Mirrored /\ h > head THEN h ELSE head

(* add, up to and including its call of advanceHead.                       *)
AddRound ==
  /\ status = "up" /\ ~staging
  /\ measured < setup.rounds
  /\ IF Len(rounds) < Cap
     THEN /\ rounds' = Append(rounds, measured)
          /\ UNCHANGED <<headSeq, head, dropped>>
     ELSE /\ MutexFree
          /\ rounds' = Append(Tail(rounds), measured)
          /\ headSeq' = headSeq + 1
          /\ AdvanceHead(headSeq')
          /\ dropped' = dropped \cup {rounds[1]}
  /\ measured' = measured + 1
  /\ staging' = TRUE
  /\ UNCHANGED <<files, status, flusher, pending, upto, hub, promised, faults>>

(* Seeded fault: the staged sequence number counts from one.               *)
StageRoundOffByOne ==
  /\ staging /\ MutexFree
  /\ pending' = IF Mirrored
                THEN Append(pending, [seq |-> headSeq + Len(rounds), id |-> Last(rounds)])
                ELSE pending
  /\ staging' = FALSE
  /\ UNCHANGED <<files, status, flusher, head, rounds, headSeq, upto, history, faults>>

(* add's call of append; a flush may come between the two.                 *)
StageRound ==
  /\ staging /\ MutexFree
  /\ pending' = IF Mirrored
                THEN Append(pending, [seq |-> headSeq + Len(rounds) - 1, id |-> Last(rounds)])
                ELSE pending
  /\ staging' = FALSE
  /\ UNCHANGED <<files, status, flusher, head, rounds, headSeq, upto, history, faults>>

(* A batch is peeked and pushed, and the hub takes it.                     *)
Push(n) ==
  /\ status = "up" /\ ~staging /\ upto = -1
  /\ n \in 1 .. Len(rounds)
  /\ upto' = headSeq + n - 1
  /\ hub' = hub \cup {rounds[i] : i \in 1 .. n}
  /\ UNCHANGED <<files, status, flusher, staged, rounds, headSeq, staging, measured,
                 dropped, promised, faults>>

CommitBatch ==
  LET n == upto - headSeq + 1
      remove == IF n <= 0 THEN 0 ELSE IF n > Len(rounds) THEN Len(rounds) ELSE n
  IN
  /\ upto # -1 /\ ~staging /\ MutexFree
  /\ rounds' = After(rounds, remove)
  /\ headSeq' = headSeq + remove
  /\ IF remove > 0 THEN AdvanceHead(headSeq') ELSE UNCHANGED head
  /\ upto' = -1
  /\ UNCHANGED <<files, status, flusher, pending, staging, history, faults>>

-----------------------------------------------------------------------------
(* The flush: flushLocked and what it calls.                               *)

(* Seeded fault: a tick without a new watermark is skipped.                *)
StartFlushIfAdvanced(last) ==
  /\ status = "up" /\ pc = "idle"
  /\ closing' = last
  /\ pc' = IF ~degraded /\ (last \/ head > headDurable) THEN "write"
           ELSE IF last THEN "closed" ELSE "idle"
  /\ UNCHANGED <<files, status, degraded, headDurable, active, staged, buffer,
                 history, faults>>

(* The ticker's flush, or the last one, by close().                        *)
StartFlush(last) ==
  /\ status = "up" /\ pc = "idle"
  /\ closing' = last
  /\ pc' = IF ~degraded THEN "write" ELSE IF last THEN "closed" ELSE "idle"
  /\ UNCHANGED <<files, status, degraded, headDurable, active, staged, buffer,
                 history, faults>>

Finished == IF closing THEN "closed" ELSE "idle"

RollNeeded == LET size == Len(disk[active].recs)
              IN size > 0 /\ size + 1 > SegMax

WriteRecord ==
  /\ pc = "write" /\ pending # <<>> /\ ~RollNeeded
  /\ disk' = [disk EXCEPT ![active].recs = Append(@, Head(pending))]
  /\ pending' = Tail(pending)
  /\ UNCHANGED <<dir, ddir, ops, status, flusher, head, buffer, history, faults>>

(* Seeded fault: the segment is closed without an fsync.                   *)
RollCreateUnsynced ==
  /\ pc = "write" /\ pending # <<>> /\ RollNeeded
  /\ LET new == Head(pending).seq
         create == [op |-> "create", arg |-> new]
     IN /\ disk' = [disk EXCEPT ![new] = Empty]
        /\ Change(<<create>>)
  /\ pc' = "roll"
  /\ UNCHANGED <<status, closing, degraded, headDurable, active, staged, buffer,
                 history, faults>>

(* rollLocked: fsync and close the active segment, create its successor.   *)
RollCreate ==
  /\ pc = "write" /\ pending # <<>> /\ RollNeeded
  /\ LET new == Head(pending).seq
         create == [op |-> "create", arg |-> new]
     IN /\ disk' = [disk EXCEPT ![active] = SyncedFile(active), ![new] = Empty]
        /\ IF Journaled
           THEN /\ ddir' = dir /\ ops' = <<create>>
                /\ dir' = Applied(dir, <<create>>, {1})
           ELSE Change(<<create>>)
  /\ pc' = "roll"
  /\ UNCHANGED <<status, closing, degraded, headDurable, active, staged, buffer,
                 history, faults>>

(* Seeded fault: the new segment's directory entry is not fsynced.         *)
RollWithoutFsyncDir ==
  /\ pc = "roll"
  /\ active' = Head(pending).seq
  /\ pc' = "write"
  /\ UNCHANGED <<files, status, closing, degraded, headDurable, staged, buffer,
                 history, faults>>

(* rollLocked: make the new segment's directory entry durable, switch.     *)
RollFsyncDir ==
  /\ pc = "roll"
  /\ FsyncDir
  /\ active' = Head(pending).seq
  /\ pc' = "write"
  /\ UNCHANGED <<disk, status, closing, degraded, headDurable, staged, buffer,
                 history, faults>>

(* All pending records are written: fsync the active segment.              *)
SyncActive ==
  /\ pc = "write" /\ pending = <<>>
  /\ disk' = [disk EXCEPT ![active] = SyncedFile(active)]
  /\ IF Journaled THEN FsyncDir ELSE UNCHANGED <<dir, ddir, ops>>
  /\ promised' = promised \cup Ids(Stored)
  /\ pc' = IF head > headDurable THEN "rename" ELSE Finished
  /\ UNCHANGED <<status, closing, degraded, headDurable, active, staged, buffer,
                 measured, hub, dropped, faults>>

(* writeHead: the rename of a synced temporary file over the head file.    *)
RenameHead ==
  /\ pc = "rename"
  /\ Change(<<[op |-> "head", arg |-> head]>>)
  /\ pc' = "headSync"
  /\ UNCHANGED <<disk, status, closing, degraded, headDurable, active, staged, buffer,
                 history, faults>>

(* Seeded fault: the rename is not followed by an fsync of the directory.  *)
HeadWithoutFsyncDir ==
  /\ pc = "headSync"
  /\ headDurable' = head
  /\ pc' = "reclaim"
  /\ UNCHANGED <<files, status, closing, degraded, active, staged, buffer, measured,
                 hub, dropped, promised, faults>>

(* Seeded fault: an advanced watermark reclaims nothing.                   *)
HeadWithoutReclaim ==
  /\ pc = "headSync"
  /\ FsyncDir
  /\ headDurable' = head
  /\ pc' = Finished
  /\ UNCHANGED <<disk, status, closing, degraded, active, staged, buffer, measured,
                 hub, dropped, promised, faults>>

(* writeHead's last step: only now may the flush act on the watermark.     *)
HeadFsyncDir ==
  /\ pc = "headSync"
  /\ FsyncDir
  /\ headDurable' = head
  /\ pc' = "reclaim"
  /\ UNCHANGED <<disk, status, closing, degraded, active, staged, buffer, measured,
                 hub, dropped, promised, faults>>

(* reclaimLocked, one dead closed segment at a time.                       *)
Dead == {n \in Closed : MaxSeq(n) < headDurable}

Reclaim ==
  /\ pc = "reclaim"
  /\ IF Dead # {}
     THEN Change(<<Unlink(Oldest(Dead))>>) /\ UNCHANGED pc
     ELSE pc' = Finished /\ UNCHANGED <<dir, ddir, ops>>
  /\ UNCHANGED <<disk, status, closing, degraded, headDurable, active, staged, buffer,
                 history, faults>>

(* degradeLocked, after any of a flush's operations has failed; a failed   *)
(* write may have written part of a frame.                                 *)
Degrade ==
  /\ pc \in {"write", "roll", "rename", "headSync"}
  /\ errors < setup.errors
  /\ errors' = errors + 1
  /\ \E torn \in {FALSE, pc = "write" /\ pending # <<>> /\ ~RollNeeded} :
       disk' = [disk EXCEPT ![active].torn = torn]
  /\ degraded' = TRUE
  /\ pending' = <<>>
  /\ pc' = Finished
  /\ UNCHANGED <<dir, ddir, ops, status, closing, headDurable, active, head, buffer,
                 history, setup, kills, losses>>

-----------------------------------------------------------------------------
(* The ends of a process.                                                  *)

Down ==
  /\ status' = "down" /\ pc' = "idle" /\ closing' = FALSE /\ degraded' = FALSE
  /\ pending' = <<>> /\ head' = 0 /\ headDurable' = 0 /\ active' = 0
  /\ rounds' = <<>> /\ headSeq' = 0 /\ staging' = FALSE /\ upto' = -1
  /\ UNCHANGED history

(* The process exits after close().                                        *)
Exit ==
  /\ pc = "closed" /\ ~staging
  /\ Down
  /\ UNCHANGED <<files, faults>>

(* kill -9 at any step, also in the middle of a write: what programs can   *)
(* see of the files survives.                                              *)
Kill ==
  /\ status \in {"opening", "up"}
  /\ kills < setup.kills
  /\ kills' = kills + 1
  /\ \E torn \in {FALSE, pc = "write" /\ pending # <<>> /\ ~RollNeeded} :
       disk' = [disk EXCEPT ![active].torn = torn \/ disk[active].torn]
  /\ Down
  /\ UNCHANGED <<setup, dir, ddir, ops, losses, errors>>

(* A power failure keeps what is durable, some of the directory's pending  *)
(* changes, and a prefix of what was written to the active segment (the    *)
(* only file with unsynced records), which may end inside a frame.         *)
PowerLoss ==
  /\ status # "refused"
  /\ losses < MaxPowerLosses
  /\ losses' = losses + 1
  /\ \E keep \in IF Journaled THEN {1 .. k : k \in 0 .. Len(ops)} ELSE SUBSET DOMAIN ops,
        k \in 0 .. SegMax, torn \in BOOLEAN :
       LET survives(n) == IF k < disk[n].synced THEN disk[n].synced
                          ELSE IF k > Len(disk[n].recs) THEN Len(disk[n].recs) ELSE k
       IN /\ dir' = Applied(ddir, ops, keep)
          /\ disk' = [n \in Names |->
               IF n \notin dir'.segs THEN Empty
               ELSE [recs |-> SubSeq(disk[n].recs, 1, survives(n)),
                     synced |-> survives(n),
                     torn |-> torn /\ (survives(n) < Len(disk[n].recs) \/ disk[n].torn)]]
  /\ ddir' = dir' /\ ops' = <<>>
  /\ Down
  /\ UNCHANGED <<setup, kills, errors>>

Flusher ==
  \/ StartFlush(FALSE)
  \/ WriteRecord \/ RollCreate \/ RollFsyncDir \/ SyncActive
  \/ RenameHead \/ HeadFsyncDir \/ Reclaim

Next ==
  \/ Open \/ OpenRefused \/ OpenFsyncDir
  \/ AddRound \/ StageRound
  \/ \E n \in 1 .. Cap : Push(n)
  \/ CommitBatch
  \/ StartFlush(TRUE)
  \/ Flusher
  \/ Degrade \/ Exit \/ Kill \/ PowerLoss

(* The flusher's ticker keeps firing, and its system calls return.         *)
Spec == Init /\ [][Next]_vars /\ WF_vars(Flusher)
-----------------------------------------------------------------------------
(* The guarantee of docs/federation.md: a round that a flush has made      *)
(* durable is still in the buffer of a running agent, unless it was        *)
(* delivered, or evicted on overflow -- whatever kills, power failures and *)
(* restarts came between.                                                  *)
FlushedRoundsSurvive ==
  status = "up" => promised \subseteq hub \cup dropped \cup Range(rounds)

(* A restart is never refused on a file system with a journal: no kill,    *)
(* power failure or write error leaves files openSpool takes for corrupt.  *)
(* (Without one, removals of dead segments that persist out of order do.)  *)
NeverRefuses == Journaled => status # "refused"

(* The buffer and the spool number the rounds alike: each buffered round   *)
(* is on disk, or staged to be, under the sequence number the buffer gives *)
(* it (else a watermark would retire the wrong rounds).                    *)
SpoolMirrorsBuffer ==
  status = "up" /\ Mirrored =>
    \A i \in DOMAIN rounds :
      \/ [seq |-> headSeq + i - 1, id |-> rounds[i]] \in Stored \cup Range(pending)
      \/ staging /\ i = Len(rounds)

(* Segments are removed on the strength of a DURABLE watermark only, or of *)
(* one that a journal makes durable before their removal.                  *)
UnlinksAreDurablyDead ==
  \A i \in DOMAIN ops : ops[i].op = "unlink" =>
    \/ MaxSeq(ops[i].arg) < ddir.head
    \/ Journaled /\ \E j \in 1 .. i : ops[j].op = "head" /\ MaxSeq(ops[i].arg) < ops[j].arg

(* Reclamation keeps the disk within a segment of the buffer's capacity    *)
(* whenever the watermark is durable: dead records fill at most the rest   *)
(* of the oldest live segment, or the one segment that was active when the *)
(* watermark passed it and that the next advance will remove.              *)
DiskBounded ==
  status = "up" /\ pc = "idle" /\ ~degraded /\ head = headDurable =>
    Cardinality(Stored) <= Cap + SegMax

(* Staged rounds become durable, unless the spool degrades or the agent    *)
(* goes down: the flusher never skips or starves them.                     *)
Volatile == Ids(Range(pending)) \cup (Ids(Stored) \ promised)

StagedBecomesDurable ==
  (Volatile # {}) ~> (Volatile = {} \/ degraded \/ status # "up")
=============================================================================
