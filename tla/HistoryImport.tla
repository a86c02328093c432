--------------------------- MODULE HistoryImport ---------------------------
(***************************************************************************)
(* The history of a SmokePing target, read from its RRD                    *)
(* (internal/importer/smokeping/rrd.go): three archives, each coarser and  *)
(* reaching further back than the one before, are stitched finest first.   *)
(*                                                                         *)
(* An RRD is [last: its last update, oldest: how far before it the archive *)
(* of the longest coverage reaches, known: the instants of its base step   *)
(* that were measured].  A row of step s at ts, a multiple of s, stands    *)
(* for the instants in (ts - s, ts] and is known if one of them is.        *)
(***************************************************************************)
EXTENDS Integers, Sequences, FiniteSetsExt

(* Steps and lookbacks: as in the code, a lookback is a multiple of the    *)
(* next tier's step.                                                       *)
rrdTiers == << [step |-> 1, lookback |-> 4], [step |-> 2, lookback |-> 8],
               [step |-> 4, lookback |-> 12] >>
coarsest == Len(rrdTiers)

(* What `rrdtool fetch -r step -s start -e end' answers: the known rows    *)
(* after start, and one more than end asks for.  The last archive is the   *)
(* one whose coverage is the RRD's.                                        *)
fetchTier(rrd, k, start, end) ==
  LET step == rrdTiers[k].step
      reach == IF k = coarsest THEN rrd.oldest ELSE rrdTiers[k].lookback IN
    {ts \in (start + 1) .. (end - (end % step) + step) :
       /\ ts % step = 0 /\ ts + reach > rrd.last
       /\ \E u \in rrd.known : ts - step < u /\ u <= ts}

(* One tier after the finer ones: `end' is where they begin, out what they *)
(* gave.  The last tier reaches down to first whatever its lookback.       *)
StitchTier(rrd, first, last, acc, k) ==
  LET start == IF k = coarsest THEN first ELSE Max({first, last - rrdTiers[k].lookback})
      fetchStart == IF start = first THEN first - 1 ELSE start
      seen == {s.ts : s \in acc.out} IN
    IF start >= acc.end THEN acc
    ELSE [end |-> start,
          out |-> acc.out \cup {[ts |-> ts, step |-> rrdTiers[k].step] :
                                  ts \in fetchTier(rrd, k, fetchStart, acc.end) \ seen}]

ExtractRRD(rrd, now) ==
  LET last == Min({rrd.last, now})
      first == last - rrd.oldest
      Stitch(acc, k) == StitchTier(rrd, first, last, acc, k)
  IN  Stitch(Stitch(Stitch([end |-> last, out |-> {}], 1), 2), 3).out
=============================================================================
