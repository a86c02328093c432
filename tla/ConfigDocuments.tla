-------------------------- MODULE ConfigDocuments --------------------------
(***************************************************************************)
(* What the operations on config documents (ConfigTree) and on imported    *)
(* histories (HistoryImport) promise of every document they are given.  A  *)
(* behaviour examines one input: an edit of a tree, the summary of a       *)
(* session that began with one and has come to another, an import of one   *)
(* into another, or the reading of an RRD.                                 *)
(***************************************************************************)
EXTENDS Integers, ConfigTree, HistoryImport

CONSTANTS
  Keys,      \* what paths are made of
  Inputs,    \* [kind, t, u]: two trees to examine, or an RRD and how old the clock is
  Refs,      \* how an edit may name its target
  ToGroups,  \* where it may move it to
  NewNames,  \* and what it may call it
  Settings,  \* the own settings it may give it
  File,      \* the file config's tree
  Root       \* and its tree-wide defaults

Newcomer == [EmptyNode EXCEPT !.host = "h"]

IsNode(n) == n = [f \in DOMAIN EmptyNode |-> n[f]]

IsTree(t) ==
  /\ t = [p \in DOMAIN t |-> t[p]] /\ IsFiniteSet(DOMAIN t)
  /\ \A p \in DOMAIN t :
       p \in Seq(Keys) /\ p # <<>> /\ Chain(p) \subseteq DOMAIN t /\ IsNode(t[p])

(* Every target has an id of its own.                                      *)
Identified(t) ==
  \A p, q \in Hosts(t) : t[p].id # NoId /\ (t[p].id = t[q].id => p = q)

(* A UUID is a fresh one.                                                  *)
NeverMinted(t, p) == \A q \in Hosts(t) : storageID(t[q], q) # UUID(p)

IsReuse(t, u) ==
  /\ Identified(t) /\ Valid(Joined(File, t), Root) /\ Valid(u, Root)
  /\ \A p \in Hosts(u) : NeverMinted(Joined(File, t), p)

IsRRD(rrd, age) ==
  /\ rrd.last \in Nat /\ rrd.oldest \in Nat /\ rrd.known \subseteq 1 .. rrd.last
  /\ age \in 0 .. 1

ASSUME DocumentAssumption ==
  /\ IsTree(File) /\ ToGroups \subseteq Seq(Keys) /\ NewNames \subseteq Keys
  /\ \A own \in Settings : "id" \notin DOMAIN own /\ ("host" \in DOMAIN own => own.host # "")
  /\ \A i \in Inputs :
       /\ i.kind \in {"edit", "diff", "import", "reuse"} => IsTree(i.t) /\ IsTree(i.u)
       /\ i.kind \in {"import", "reuse"} => i.u = WithoutIDs(i.u)
       /\ i.kind = "reuse" => IsReuse(i.t, i.u)
       /\ i.kind = "history" => IsRRD(i.t, i.u)

VARIABLE input

InitDocuments == input \in Inputs
SpecDocuments == InitDocuments /\ [][FALSE]_input

-----------------------------------------------------------------------------
IdsOf(t) == {t[p].id : p \in Hosts(t)}

(* No edit loses, adds or re-keys a target, whatever it renames or moves:  *)
(* not onto another one, nor below itself, nor out of a group that is then *)
(* pruned (stageEditTarget's two guards; the id is the history's key).     *)
(* Adding one disturbs no other, and removing one none but those below it. *)
EditsKeepTargets ==
  input.kind = "edit" =>
    /\ \A ref \in Refs, own \in Settings,
          group \in {{}} \cup {{g} : g \in ToGroups}, name \in {{}} \cup {{k} : k \in NewNames} :
         \A t \in stageEditTarget(input.t, ref, own, group, name) :
           /\ IdsOf(t) = IdsOf(input.t)
           /\ Cardinality(Hosts(t)) = Cardinality(Hosts(input.t))
           /\ \A p \in DOMAIN t : Chain(p) \subseteq DOMAIN t
    /\ \A group \in ToGroups, name \in NewNames :
         \A t \in stageAddTarget(input.t, group, name, Newcomer) :
           /\ Hosts(t) = Hosts(input.t) \cup {Append(group, name)}
           /\ \A p \in DOMAIN input.t : t[p] = input.t[p]
    /\ \A ref \in Refs : \A t \in stageRemoveTarget(input.t, ref) :
         \E p \in findNode(input.t, ref) : Hosts(t) = Hosts(input.t) \ Under(input.t, p)

(* The summary of a session lists every target whose effective settings    *)
(* it changes, those it changes through a group too, and says nothing only *)
(* if nothing changed (changeSet's and inheritedSettings's comments).      *)
DiffTellsAll ==
  input.kind = "diff" =>
    LET cs == diffDocs(input.t, input.u)
        b == Monitors(input.t, Root)
        w == Monitors(input.u, Root) IN
      /\ \A p \in DOMAIN b \cap DOMAIN w : b[p] # w[p] => p \in cs.Changed
      /\ SaysNothing(cs) <=> input.t = input.u

(* An import that was accepted and stored is accepted again, unchanged,    *)
(* although ids have been minted meanwhile, and it neither loses nor       *)
(* alters a target of either side (nodesEqual's comment).                  *)
ImportIsRepeatable ==
  input.kind = "import" =>
    \A merged \in AppendImport(MintNewIDs(input.t), input.u) :
      LET stored == MintNewIDs(merged) IN
        /\ AppendImport(stored, input.u) = {stored}
        /\ \A p \in DOMAIN input.t : stored[p] = MintNewIDs(input.t)[p]
        /\ \A p \in DOMAIN input.u : WithoutIDs(stored)[p] = input.u[p]

(* A path that a target was born at and has left is free again: importing  *)
(* a target there gives one with a key of its own, not the history of the  *)
(* one that left (MintNewIDs; Monitors rejects two targets with one key).  *)
OldNamesAreFree ==
  input.kind = "reuse" =>
    \A merged \in AppendImport(input.t, input.u) :
      \A whole \in AppendDBFragment(File, MintNewIDs(merged)) : Valid(whole, Root)

(* History is stored under the key by which the composed config reads it,  *)
(* whichever config defines the target (resolve's comment).  An import     *)
(* that is not given the file config stores it there or nowhere; but when  *)
(* the database has no targets either it goes by paths, and misses the     *)
(* targets that have an id of another name (as the import's note says).    *)
HistoryIsShown ==
  input.kind = "reuse" =>
    LET frag == MintNewIDs(input.u) IN
      \A file \in {input.t, File} : \A whole \in AppendDBFragment(file, frag) :
        \A p \in Hosts(whole) :
          LET key == Monitors(whole, Root)[p].id IN
            /\ resolve(<<file>>, frag, p) = {key}
            /\ \/ resolve(<<>>, frag, p) \subseteq {key}
               \/ Hosts(frag) = {} /\ whole[p].id \notin {NoId, p}

(* The step of the tier that owns an instant.                              *)
StepAt(last, u) ==
  LET tier == CHOOSE k \in 1 .. coarsest :
                /\ k = coarsest \/ u + rrdTiers[k].lookback > last
                /\ \A j \in 1 .. (k - 1) : u + rrdTiers[j].lookback <= last
  IN  rrdTiers[tier].step

(* The instants a sample stands for.                                       *)
Tells(s, u) == s.ts - s.step < u /\ u <= s.ts

(* The row of a tier that reaches over the border to the finer one.        *)
BorderRow(last, k) ==
  LET border == last - rrdTiers[k - 1].lookback
      step == rrdTiers[k].step
  IN  [ts |-> border - (border % step) + step, step |-> step]

(* It gives way to a finer sample of its timestamp.                        *)
GivesWay(out, row) == \E s \in out : s.ts = row.ts /\ s.step < row.step

(* Stitching the archives of an RRD, however far the oldest reaches, loses *)
(* no measured instant that an archive still has and tells none twice, but *)
(* at the borders of the tiers: one row of each coarser tier reaches over  *)
(* its border, and tells its instants a second time, or gives way to the   *)
(* finer sample of its timestamp and takes its other instants with it      *)
(* (ExtractRRD's seen).                                                    *)
HistoryStitches ==
  input.kind = "history" =>
    LET rrd == input.t
        now == rrd.last - input.u
        out == ExtractRRD(rrd, now)
        atBorders == {BorderRow(now, k) : k \in 2 .. coarsest} IN
      /\ \A s, z \in out : s.ts = z.ts => s = z
      /\ \A s, z \in out \ atBorders : \A u \in rrd.known :
           Tells(s, u) /\ Tells(z, u) => s = z
      /\ \A u \in rrd.known :
           u <= now /\ u + rrd.oldest - StepAt(now, u) > rrd.last =>
             \/ \E s \in out : Tells(s, u)
             \/ \E row \in atBorders : Tells(row, u) /\ GivesWay(out, row)

(* Imports, once or again, keep what is there, and its history's keys, and *)
(* bring the history they find.                                            *)
ImportsKeepTargets ==
  ImportIsRepeatable /\ OldNamesAreFree /\ HistoryIsShown /\ HistoryStitches
=============================================================================
