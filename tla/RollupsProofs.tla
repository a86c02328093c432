--------------------------- MODULE RollupsProofs ---------------------------
(***************************************************************************)
(* Theorems about Rollups, for every length of the tiers' spans and any    *)
(* targets, histories and bounds.                                          *)
(*                                                                         *)
(* OnlyCurrentViewsServed: a hub that serves downsampled history serves it *)
(* from views of the shape its queries expect, with their policies in      *)
(* place, wherever earlier starts stopped and whatever an operator put in  *)
(* a view's place.  A mark alone does not say that a view is current, nor  *)
(* does a start fix a view at once: it does so by the statements it has    *)
(* still to execute.  The invariant (Inv) therefore reads the rest of the  *)
(* list.  Every view is current, or will be created after it has been      *)
(* dropped; no mark is set before that; a policy comes after the last      *)
(* change of its view.                                                     *)
(*                                                                         *)
(* LongViewsShowWhatTheyPromise: every round that a view owes shows, or    *)
(* will by the next run of a job.  A view that is in use has each of them  *)
(* in its buckets, unless an import under way will bring it or its day is  *)
(* one the policy looks after (Kept); then its raw row is there, and its   *)
(* bucket is to be refreshed if it lacks it (DataInv).  A round can leave  *)
(* the policy's span only with the day, and the jobs have run by then.     *)
(* While a start has still to drop, create or fill a view, what the view   *)
(* lacks is in the list again (KeepInv).                                   *)
(***************************************************************************)
EXTENDS Rollups, WellFoundedInduction, TLAPS

Shapes == {"none", "old", "current"}
Ops == {"drop", "clear", "create", "policy", "retain", "mark", "backfill"}
Stmts == [op : Ops, tier : Tiers]

(* The next statement but i - 1 of the start is op on tier t.              *)
At(i, op, t) == i \in 1..Len(todo) /\ todo[i] = Stmt(op, t)

(* View t is current once the statements before the k-th are executed.     *)
Heals(t, k) ==
  \/ view[t].shape = "current"
  \/ \E j \in 1..(k - 1) :
       /\ At(j, "create", t)
       /\ view[t].shape = "none" \/ \E i \in 1..(j - 1) : At(i, "drop", t)

(* A view that is dropped is created again before it is marked.            *)
Recreated(t, i) ==
  \E j \in (i + 1)..Len(todo) :
    At(j, "create", t) /\ \A m \in 1..Len(todo) : At(m, "mark", t) => j < m

(* The policy is there, or is added when nothing happens to the view any   *)
(* more.                                                                   *)
Policied(t) ==
  \/ /\ view[t].policy /\ view[t].shape = "current"
     /\ \A i \in 1..Len(todo) : ~At(i, "drop", t)
  \/ \E j \in 1..Len(todo) :
       /\ At(j, "policy", t)
       /\ \A i \in 1..Len(todo) : At(i, "drop", t) \/ At(i, "create", t) => i < j

BootInv ==
  \A t \in Tiers :
    /\ Heals(t, Len(todo) + 1)
    /\ \A i \in 1..Len(todo) : At(i, "mark", t) => Heals(t, i)
    /\ \A i \in 1..Len(todo) : At(i, "drop", t) => Recreated(t, i)
    /\ Policied(t)

(* A view that bears its mark is current: a new relation has a new OID.    *)
MarksInv ==
  /\ oids \in Nat /\ marks \in [Tiers -> Nat]
  /\ \A t \in Tiers : marks[t] <= oids /\ view[t].oid <= oids
  /\ \A t \in Tiers : versioned(t) => view[t].shape = "current"

ViewOK(v) ==
  /\ v = [shape |-> v.shape, oid |-> v.oid, rows |-> v.rows, dirty |-> v.dirty,
          mark |-> v.mark, policy |-> v.policy]
  /\ v.shape \in Shapes /\ v.oid \in Nat /\ v.policy \in BOOLEAN
ViewsOK == view = [t \in Tiers |-> view[t]] /\ \A t \in Tiers : ViewOK(view[t])

Serves(t) == view[t].shape = "current" /\ view[t].policy

Inv ==
  /\ hub \in {"down", "boot", "up"} /\ todo \in Seq(Stmts)
  /\ ViewsOK /\ MarksInv
  /\ hub = "boot" => BootInv
  /\ enabled => hub = "up" /\ \A t \in Tiers : Serves(t)

LEMMA InitInv == Init => Inv
<1>. SUFFICES ASSUME Init PROVE Inv
  OBVIOUS
<1>1. PICK older \in BOOLEAN :
        view = [t \in Tiers |->
          IF ~older THEN NoView
          ELSE [NewView("old", IF t = "hourly" THEN 1 ELSE 2) EXCEPT !.policy = TRUE]]
  BY DEF Init
<1>2. \A t \in Tiers : /\ ViewOK(view[t]) /\ view[t].shape \in {"none", "old"}
                       /\ view[t].oid <= 2
  <2>. SUFFICES ASSUME NEW t \in Tiers
                PROVE  /\ ViewOK(view[t]) /\ view[t].shape \in {"none", "old"}
                       /\ view[t].oid <= 2
    OBVIOUS
  <2>1. CASE ~older
    <3>1. view[t] = NoView
      BY <1>1, <2>1
    <3>2. view[t] = [shape |-> "none", oid |-> 0, rows |-> {}, dirty |-> {}, mark |-> 0,
                     policy |-> FALSE]
      BY <3>1 DEF NoView
    <3>. QED  BY <3>2 DEF ViewOK, Shapes
  <2>2. CASE older
    <3>1. PICK o \in {1, 2} :
            view[t] = [[NoView EXCEPT !.shape = "old", !.oid = o,
                                      !.dirty = {r.day : r \in raw}] EXCEPT !.policy = TRUE]
      BY <1>1, <2>2 DEF NewView
    <3>2. view[t] = [shape |-> "old", oid |-> o, rows |-> {}, dirty |-> {r.day : r \in raw},
                     mark |-> 0, policy |-> TRUE]
      BY <3>1 DEF NoView
    <3>. QED  BY <3>2 DEF ViewOK, Shapes
  <2>. QED  BY <2>1, <2>2
<1>3. view = [t \in Tiers |-> view[t]]
  BY <1>1
<1>4. oids = 2 /\ \A t \in Tiers : marks[t] = 0
  BY DEF Init
<1>5. marks \in [Tiers -> Nat]
  BY DEF Init
<1>6. MarksInv
  BY <1>2, <1>4, <1>5 DEF MarksInv, versioned
<1>. QED  BY <1>2, <1>3, <1>6 DEF Init, Inv, ViewsOK

-----------------------------------------------------------------------------
(* What leaves shapes, identities and policies alone disturbs nothing.     *)
Same(v, w) == w.shape = v.shape /\ w.oid = v.oid /\ w.policy = v.policy
SameViews == \A t \in Tiers : Same(view[t], view'[t])

LEMMA RefreshedSame ==
  ASSUME NEW v, ViewOK(v), NEW days
  PROVE  ViewOK(Refreshed(v, days)) /\ Same(v, Refreshed(v, days))
<1>1. PICK rows, dirty, mark :
        Refreshed(v, days) = [v EXCEPT !.rows = rows, !.dirty = dirty, !.mark = mark]
  BY DEF Refreshed
<1>2. Refreshed(v, days) = [shape |-> v.shape, oid |-> v.oid, rows |-> rows, dirty |-> dirty,
                            mark |-> mark, policy |-> v.policy]
  BY <1>1 DEF ViewOK
<1>. QED  BY <1>2 DEF ViewOK, Same

LEMMA RefreshSame ==
  ASSUME ViewsOK, NEW t \in Tiers, NEW days,
         view' = [view EXCEPT ![t] = Refreshed(view[t], days)]
  PROVE  ViewsOK' /\ SameViews
<1>1. \A u \in Tiers : view'[u] = IF u = t THEN Refreshed(view[t], days) ELSE view[u]
  BY DEF ViewsOK
<1>2. view' = [u \in Tiers |-> view'[u]]
  BY DEF ViewsOK
<1>. QED  BY <1>1, <1>2, RefreshedSame DEF ViewsOK, SameViews, Same

LEMMA TouchSame ==
  ASSUME ViewsOK, NEW rounds, view' = Touch(rounds)
  PROVE  ViewsOK' /\ SameViews
<1>1. \A t \in Tiers : \/ view'[t] = view[t]
                       \/ \E dirty : view'[t] = [view[t] EXCEPT !.dirty = dirty]
  BY DEF Touch
<1>2. ASSUME NEW t \in Tiers PROVE ViewOK(view'[t]) /\ Same(view[t], view'[t])
  <2>1. CASE view'[t] = view[t]
    BY <2>1 DEF ViewsOK, Same
  <2>2. ASSUME NEW dirty, view'[t] = [view[t] EXCEPT !.dirty = dirty]
        PROVE ViewOK(view'[t]) /\ Same(view[t], view'[t])
    <3>1. view'[t] = [shape |-> view[t].shape, oid |-> view[t].oid, rows |-> view[t].rows,
                      dirty |-> dirty, mark |-> view[t].mark, policy |-> view[t].policy]
      BY <2>2 DEF ViewsOK, ViewOK
    <3>. QED  BY <3>1 DEF ViewsOK, ViewOK, Same
  <2>. QED  BY <1>1, <2>1, <2>2
<1>3. view' = [t \in Tiers |-> view'[t]]
  BY DEF Touch
<1>. QED  BY <1>2, <1>3 DEF ViewsOK, SameViews

LEMMA MarksSame ==
  ASSUME MarksInv, SameViews, UNCHANGED <<marks, oids>>
  PROVE  MarksInv'
BY DEF MarksInv, SameViews, Same, versioned

LEMMA QuietInv ==
  ASSUME Inv, ViewsOK', SameViews, UNCHANGED <<marks, oids, todo, hub, enabled>>
  PROVE  Inv'
<1>1. MarksInv'
  BY MarksSame DEF Inv
<1>2. BootInv => BootInv'
  BY DEF BootInv, Heals, Recreated, Policied, At, SameViews, Same
<1>. QED  BY <1>1, <1>2 DEF Inv, Serves, SameViews, Same

-----------------------------------------------------------------------------
(* A start's list: what migrateAggregates sends, then the fixed statements.*)
LEMMA Laid ==
  ASSUME NEW S, NEW p \in Seq(S), NEW q \in Seq(S), NEW r \in Seq(S), NEW s \in Seq(S),
         NEW l, l = p \o q \o r \o s
  PROVE  /\ l \in Seq(S) /\ Len(l) = Len(p) + Len(q) + Len(r) + Len(s)
         /\ \A i \in 1..Len(p) : l[i] = p[i]
         /\ \A i \in 1..Len(q) : l[Len(p) + i] = q[i]
         /\ \A i \in 1..Len(r) : l[Len(p) + Len(q) + i] = r[i]
         /\ \A i \in 1..Len(s) : l[Len(p) + Len(q) + Len(r) + i] = s[i]
<1>1. p \o q \in Seq(S) /\ Len(p \o q) = Len(p) + Len(q)
  OBVIOUS
<1>2. p \o q \o r \in Seq(S) /\ Len(p \o q \o r) = Len(p) + Len(q) + Len(r)
  BY <1>1
<1>. QED  BY <1>1, <1>2

LEMMA StmtIsStmt ==
  ASSUME NEW op \in Ops, NEW t \in Tiers
  PROVE  Stmt(op, t) \in Stmts /\ Stmt(op, t).op = op /\ Stmt(op, t).tier = t
BY DEF Stmt, Stmts

LEMMA StmtsDiffer ==
  ASSUME NEW op, NEW t, NEW op2, NEW t2, Stmt(op, t) = Stmt(op2, t2)
  PROVE  op = op2 /\ t = t2
<1>1. Stmt(op, t).op = op /\ Stmt(op, t).tier = t
  BY DEF Stmt
<1>2. Stmt(op2, t2).op = op2 /\ Stmt(op2, t2).tier = t2
  BY DEF Stmt
<1>. QED  BY <1>1, <1>2

(* The fixed statements, n the number of those before them.                *)
Fixed(n) ==
  /\ At(n + 1, "create", "hourly") /\ At(n + 2, "policy", "hourly")
  /\ At(n + 3, "create", "daily") /\ At(n + 4, "policy", "daily")
  /\ At(n + 5, "retain", "daily")
  /\ At(n + 6, "mark", "hourly") /\ At(n + 7, "mark", "daily")
  /\ \A i \in n + 8..Len(todo) : todo[i].op = "backfill"

LEMMA StartList ==
  ASSUME todo' = EnableDownsampling
  PROVE  \E n \in Nat :
           /\ todo' \in Seq(Stmts) /\ Fixed(n)'
           /\ n = Len(migrateAggregates)
           /\ \A i \in 1..n : todo'[i] = migrateAggregates[i]
           /\ ~aggregateExists \/ stale =>
                At(n + 8, "backfill", "hourly")' /\ At(n + 9, "backfill", "daily")'
<1>. DEFINE p == migrateAggregates
            s == IF ~aggregateExists \/ stale THEN backfillAggregates ELSE <<>>
<1>1. p \in Seq(Stmts)
  <2>1. CASE stale
    BY <2>1, StmtIsStmt DEF migrateAggregates, Tiers, Ops
  <2>2. CASE ~stale
    <3>. DEFINE mark(t) == IF Exists(t) /\ ~versioned(t) THEN <<Stmt("mark", t)>> ELSE <<>>
    <3>1. mark("hourly") \in Seq(Stmts) /\ mark("daily") \in Seq(Stmts)
      BY StmtIsStmt DEF Tiers, Ops
    <3>. QED  BY <2>2, <3>1 DEF migrateAggregates
  <2>. QED  BY <2>1, <2>2
<1>2. downsampleStmts \in Seq(Stmts) /\ markAggregateVersions \in Seq(Stmts)
  BY StmtIsStmt DEF downsampleStmts, markAggregateVersions, Tiers, Ops
<1>3. s \in Seq(Stmts) /\ \A i \in 1..Len(s) : s[i].op = "backfill"
  BY StmtIsStmt DEF backfillAggregates, Tiers, Ops
<1>0. ~aggregateExists \/ stale =>
        Len(s) = 2 /\ s[1] = Stmt("backfill", "hourly") /\ s[2] = Stmt("backfill", "daily")
  BY DEF backfillAggregates
<1>4. todo' = p \o downsampleStmts \o markAggregateVersions \o s
  BY DEF EnableDownsampling
<1>5. Len(downsampleStmts) = 5 /\ Len(markAggregateVersions) = 2
  BY DEF downsampleStmts, markAggregateVersions
<1>. HIDE DEF p, s
<1>6. PICK l : l = p \o downsampleStmts \o markAggregateVersions \o s
  OBVIOUS
<1>7. /\ l \in Seq(Stmts)
      /\ Len(l) = Len(p) + Len(downsampleStmts) + Len(markAggregateVersions) + Len(s)
      /\ \A i \in 1..Len(p) : l[i] = p[i]
      /\ \A i \in 1..Len(downsampleStmts) : l[Len(p) + i] = downsampleStmts[i]
      /\ \A i \in 1..Len(markAggregateVersions) :
           l[Len(p) + Len(downsampleStmts) + i] = markAggregateVersions[i]
      /\ \A i \in 1..Len(s) :
           l[Len(p) + Len(downsampleStmts) + Len(markAggregateVersions) + i] = s[i]
  BY <1>1, <1>2, <1>3, <1>6, Laid
<1>8. PICK n \in Nat : n = Len(p)
  BY <1>1
<1>9. /\ todo' \in Seq(Stmts) /\ Len(todo') = n + 7 + Len(s) /\ Len(s) \in Nat
      /\ \A i \in 1..n : todo'[i] = p[i]
      /\ \A i \in 1..5 : todo'[n + i] = downsampleStmts[i]
      /\ \A i \in 1..2 : todo'[n + 5 + i] = markAggregateVersions[i]
      /\ \A i \in 1..Len(s) : todo'[n + 7 + i] = s[i]
  <2>1. todo' = l
    BY <1>4, <1>6
  <2>2. Len(s) \in Nat /\ n + 5 + 2 = n + 7
    BY <1>3, <1>8
  <2>. QED  BY <1>5, <1>7, <1>8, <2>1, <2>2
<1>10. /\ todo'[n + 1] = Stmt("create", "hourly")
       /\ todo'[n + 2] = Stmt("policy", "hourly")
       /\ todo'[n + 3] = Stmt("create", "daily")
       /\ todo'[n + 4] = Stmt("policy", "daily")
       /\ todo'[n + 5] = Stmt("retain", "daily")
  BY <1>9 DEF downsampleStmts
<1>11. /\ todo'[n + 6] = Stmt("mark", "hourly")
       /\ todo'[n + 7] = Stmt("mark", "daily")
  <2>1. todo'[n + 5 + 1] = Stmt("mark", "hourly") /\ todo'[n + 5 + 2] = Stmt("mark", "daily")
    BY <1>9 DEF markAggregateVersions
  <2>. QED  BY <2>1, <1>8
<1>12. \A i \in n + 8..Len(todo') : todo'[i].op = "backfill"
  <2>. SUFFICES ASSUME NEW i \in n + 8..Len(todo') PROVE todo'[i].op = "backfill"
    OBVIOUS
  <2>1. i - n - 7 \in 1..Len(s) /\ n + 7 + (i - n - 7) = i
    BY <1>8, <1>9
  <2>. QED  BY <2>1, <1>3, <1>9
<1>13. Fixed(n)'
  <2>1. \A i \in 1..7 : n + i \in 1..Len(todo')
    BY <1>9, <1>8
  <2>2. /\ At(n + 1, "create", "hourly")' /\ At(n + 2, "policy", "hourly")'
        /\ At(n + 3, "create", "daily")' /\ At(n + 4, "policy", "daily")'
        /\ At(n + 5, "retain", "daily")'
        /\ At(n + 6, "mark", "hourly")' /\ At(n + 7, "mark", "daily")'
    BY <2>1, <1>10, <1>11 DEF At, Stmt
  <2>. QED  BY <2>2, <1>12 DEF Fixed
<1>14. ASSUME ~aggregateExists \/ stale
       PROVE  At(n + 8, "backfill", "hourly")' /\ At(n + 9, "backfill", "daily")'
  <2>1. /\ Len(todo') = n + 9
        /\ todo'[n + 7 + 1] = Stmt("backfill", "hourly") /\ todo'[n + 7 + 2] = Stmt("backfill", "daily")
    <3>1. Len(s) = 2 /\ s[1] = Stmt("backfill", "hourly") /\ s[2] = Stmt("backfill", "daily")
      BY <1>0, <1>14
    <3>2. Len(todo') = n + 7 + Len(s) /\ \A i \in 1..Len(s) : todo'[n + 7 + i] = s[i]
      BY <1>9
    <3>3. 1 \in 1..Len(s) /\ 2 \in 1..Len(s)
      BY <3>1
    <3>4. todo'[n + 7 + 1] = s[1] /\ todo'[n + 7 + 2] = s[2]
      BY <3>2, <3>3
    <3>5. n + 7 + 2 = n + 9
      BY <1>8
    <3>. QED  BY <3>1, <3>2, <3>4, <3>5
  <2>2. n + 7 + 1 = n + 8 /\ n + 7 + 2 = n + 9 /\ n + 8 \in 1..(n + 9) /\ n + 9 \in 1..(n + 9)
    BY <1>8
  <2>. QED  BY <2>1, <2>2 DEF At, Stmt
<1>. QED  BY <1>9, <1>8, <1>13, <1>14 DEF p

LEMMA Positions ==
  ASSUME NEW n \in Nat, Fixed(n)', todo' \in Seq(Stmts), NEW i \in Nat, NEW t
  PROVE  /\ At(i, "drop", t)' => i <= n
         /\ At(i, "create", t)' /\ i > n =>
              (i = n + 1 /\ t = "hourly") \/ (i = n + 3 /\ t = "daily")
         /\ At(i, "mark", t)' /\ i > n => i >= n + 6
<1>1. /\ todo'[n + 1] = Stmt("create", "hourly") /\ todo'[n + 2] = Stmt("policy", "hourly")
      /\ todo'[n + 3] = Stmt("create", "daily") /\ todo'[n + 4] = Stmt("policy", "daily")
      /\ todo'[n + 5] = Stmt("retain", "daily")
      /\ todo'[n + 6] = Stmt("mark", "hourly") /\ todo'[n + 7] = Stmt("mark", "daily")
  BY DEF Fixed, At
<1>2. i >= n + 8 /\ i \in 1..Len(todo') => todo'[i].op = "backfill"
  BY DEF Fixed
<1>3. \A op : At(i, op, t)' =>
        /\ i \in 1..Len(todo') /\ todo'[i].op = op /\ todo'[i].tier = t
  BY DEF At, Stmt
<1>4. /\ todo'[n + 1].op = "create" /\ todo'[n + 1].tier = "hourly"
      /\ todo'[n + 2].op = "policy" /\ todo'[n + 3].op = "create"
      /\ todo'[n + 3].tier = "daily" /\ todo'[n + 4].op = "policy"
      /\ todo'[n + 5].op = "retain" /\ todo'[n + 6].op = "mark" /\ todo'[n + 7].op = "mark"
  BY <1>1 DEF Stmt
<1>5. i <= n \/ i = n + 1 \/ i = n + 2 \/ i = n + 3 \/ i = n + 4 \/ i = n + 5
        \/ i = n + 6 \/ i = n + 7 \/ i >= n + 8
  OBVIOUS
<1>6. At(i, "drop", t)' => i <= n
  <2>1. At(i, "drop", t)' => i \in 1..Len(todo') /\ todo'[i].op = "drop"
    BY <1>3
  <2>. QED  BY <2>1, <1>2, <1>4, <1>5
<1>7. ASSUME At(i, "create", t)', i > n
      PROVE  (i = n + 1 /\ t = "hourly") \/ (i = n + 3 /\ t = "daily")
  <2>1. i \in 1..Len(todo') /\ todo'[i].op = "create" /\ todo'[i].tier = t
    BY <1>3, <1>7
  <2>. QED  BY <2>1, <1>2, <1>4, <1>5, <1>7
<1>8. ASSUME At(i, "mark", t)', i > n PROVE i >= n + 6
  <2>1. i \in 1..Len(todo') /\ todo'[i].op = "mark"
    BY <1>3, <1>8
  <2>2. i # n + 1 /\ i # n + 2 /\ i # n + 3 /\ i # n + 4 /\ i # n + 5
    BY <2>1, <1>4
  <2>. QED  BY <2>2, <1>5, <1>8
<1>. QED  BY <1>6, <1>7, <1>8

(* What a start sends before the fixed statements.                         *)
LEMMA MigrateDrops ==
  ASSUME stale
  PROVE  /\ Len(migrateAggregates) = 3
         /\ migrateAggregates[1] = Stmt("drop", "daily")
         /\ migrateAggregates[2] = Stmt("drop", "hourly")
         /\ migrateAggregates[3] = Stmt("clear", "daily")
BY DEF migrateAggregates

LEMMA MigrateMarks ==
  ASSUME ~stale
  PROVE  \A i \in 1..Len(migrateAggregates) :
           \E t \in Tiers : Exists(t) /\ migrateAggregates[i] = Stmt("mark", t)
<1>. DEFINE mark(t) == IF Exists(t) /\ ~versioned(t) THEN <<Stmt("mark", t)>> ELSE <<>>
<1>1. migrateAggregates = mark("hourly") \o mark("daily")
  BY DEF migrateAggregates
<1>2. \A t \in Tiers : \A i \in 1..Len(mark(t)) : Exists(t) /\ mark(t)[i] = Stmt("mark", t)
  OBVIOUS
<1>3. \A t \in Tiers : mark(t) \in Seq(Stmts)
  BY StmtIsStmt DEF Ops
<1>4. "hourly" \in Tiers /\ "daily" \in Tiers
  BY DEF Tiers
<1>. HIDE DEF mark
<1>5. PICK p \in Seq(Stmts), q \in Seq(Stmts) : p = mark("hourly") /\ q = mark("daily")
  BY <1>3, <1>4
<1>6. Len(migrateAggregates) = Len(p) + Len(q) /\ migrateAggregates = p \o q
  BY <1>1, <1>5
<1>. SUFFICES ASSUME NEW i \in 1..Len(migrateAggregates)
              PROVE  \E t \in Tiers : Exists(t) /\ migrateAggregates[i] = Stmt("mark", t)
  OBVIOUS
<1>7. CASE i <= Len(p)
  <2>1. i \in 1..Len(p) /\ migrateAggregates[i] = p[i]
    BY <1>6, <1>7
  <2>. QED  BY <2>1, <1>2, <1>4, <1>5
<1>8. CASE i > Len(p)
  <2>1. i - Len(p) \in 1..Len(q) /\ migrateAggregates[i] = q[i - Len(p)]
    BY <1>6, <1>8
  <2>. QED  BY <2>1, <1>2, <1>4, <1>5
<1>. QED  BY <1>7, <1>8, <1>6, <1>5

LEMMA StartBoots ==
  ASSUME Inv, todo' = EnableDownsampling, UNCHANGED <<view, marks>>
  PROVE  BootInv'
<1>1. PICK n \in Nat :
        /\ todo' \in Seq(Stmts) /\ Fixed(n)'
        /\ n = Len(migrateAggregates)
        /\ \A i \in 1..n : todo'[i] = migrateAggregates[i]
  BY StartList
<1>2. \A t \in Tiers : view[t].shape \in Shapes
  BY DEF Inv, ViewsOK, ViewOK
<1>3. ASSUME NEW t \in Tiers
      PROVE  \E c \in {n + 1, n + 3} :
               /\ At(c, "create", t)' /\ At(c + 1, "policy", t)'
               /\ \A i \in Nat : At(i, "create", t)' /\ i > n => i = c
  BY <1>1, Positions DEF Fixed, Tiers
<1>4. Len(todo') \in Nat /\ Len(todo') >= n + 7
  BY <1>1 DEF Fixed, At
<1>5. CASE stale
  <2>1. n = 3 /\ \A i \in 1..3 : todo'[i] = << Stmt("drop", "daily"), Stmt("drop", "hourly"),
                                              Stmt("clear", "daily") >>[i]
    BY <1>1, <1>5 DEF migrateAggregates
  <2>2. /\ todo'[1] = Stmt("drop", "daily") /\ todo'[2] = Stmt("drop", "hourly")
        /\ todo'[3] = Stmt("clear", "daily")
    BY <2>1
  <2>3. \A i \in 1..3 : todo'[i].op \in {"drop", "clear"}
    BY <2>2 DEF Stmt
  <2>4. \A i \in Nat, t \in Tiers : (At(i, "create", t)' \/ At(i, "mark", t)') => i > n
    BY <2>1, <2>3 DEF At, Stmt
  <2>5. \A t \in Tiers : \E i \in 1..2 : At(i, "drop", t)'
    BY <2>2, <1>4, <2>1 DEF At, Tiers
  <2>6. ASSUME NEW t \in Tiers
        PROVE  /\ Heals(t, Len(todo) + 1)'
               /\ \A i \in 1..Len(todo') : At(i, "mark", t)' => Heals(t, i)'
               /\ \A i \in 1..Len(todo') : At(i, "drop", t)' => Recreated(t, i)'
               /\ Policied(t)'
    <3>1. PICK c \in {n + 1, n + 3} : /\ At(c, "create", t)' /\ At(c + 1, "policy", t)'
                                      /\ \A i \in Nat : At(i, "create", t)' /\ i > n => i = c
      BY <1>3
    <3>2. PICK d \in 1..2 : At(d, "drop", t)'
      BY <2>5
    <3>3. \A k \in Nat : k > c => Heals(t, k)'
      BY <3>1, <3>2, <2>1 DEF Heals
    <3>4. \A i \in 1..Len(todo') : At(i, "mark", t)' => i > c
      BY <1>1, <1>4, <2>4, Positions
    <3>5. \A i \in 1..Len(todo') : At(i, "drop", t)' => i < c /\ c <= Len(todo')
      BY <1>1, <1>4, Positions
    <3>6. \A i \in 1..Len(todo') : At(i, "drop", t)' => Recreated(t, i)'
      BY <3>1, <3>4, <3>5, <1>4 DEF Recreated
    <3>7. Policied(t)'
      BY <3>1, <3>5, <2>4, <1>4 DEF Policied
    <3>8. Len(todo') + 1 \in Nat /\ Len(todo') + 1 > c
      BY <1>4
    <3>9. Heals(t, Len(todo) + 1)'
      BY <3>3, <3>8
    <3>. QED  BY <3>3, <3>4, <3>6, <3>7, <3>9
  <2>. QED  BY <2>6 DEF BootInv
<1>6. CASE ~stale
  <2>1. \A t \in Tiers : view[t].shape = "none" \/ view[t].shape = "current"
    BY <1>2, <1>6 DEF stale, Exists, aggregateCurrent, Inv, MarksInv, Shapes
  <2>2. \A i \in 1..n : \E t \in Tiers : Exists(t) /\ todo'[i] = Stmt("mark", t)
    BY <1>1, <1>6, MigrateMarks
  <2>3. \A i \in 1..n : todo'[i].op = "mark"
    <3>1. \A t : Stmt("mark", t).op = "mark"
      BY DEF Stmt
    <3>. QED  BY <2>2, <3>1
  <2>4. ASSUME NEW i \in Nat, NEW t \in Tiers
        PROVE  ~At(i, "drop", t)' /\ (At(i, "create", t)' => i > n)
    <3>1. At(i, "drop", t)' => i \in 1..Len(todo') /\ todo'[i].op = "drop"
      BY DEF At, Stmt
    <3>2. At(i, "create", t)' => i \in 1..Len(todo') /\ todo'[i].op = "create"
      BY DEF At, Stmt
    <3>3. At(i, "drop", t)' => i <= n
      BY <1>1, Positions
    <3>. QED  BY <1>1, <2>3, <3>1, <3>2, <3>3, <1>4
  <2>5. ASSUME NEW t \in Tiers
        PROVE  /\ Heals(t, Len(todo) + 1)'
               /\ \A i \in 1..Len(todo') : At(i, "mark", t)' => Heals(t, i)'
               /\ Policied(t)'
    <3>1. PICK c \in {n + 1, n + 3} : /\ At(c, "create", t)' /\ At(c + 1, "policy", t)'
                                      /\ \A i \in Nat : At(i, "create", t)' /\ i > n => i = c
      BY <1>3
    <3>2. \A k \in Nat : k > c => Heals(t, k)'
      BY <3>1, <2>1 DEF Heals
    <3>3. ASSUME NEW i \in 1..Len(todo'), At(i, "mark", t)' PROVE Heals(t, i)'
      <4>1. CASE i > n
        BY <4>1, <1>1, <3>2, <3>3, Positions
      <4>2. CASE i <= n
        <5>1. PICK u \in Tiers : Exists(u) /\ todo'[i] = Stmt("mark", u)
          BY <4>2, <2>2
        <5>2. u = t
          BY <3>3, <5>1, StmtsDiffer DEF At
        <5>. QED  BY <5>1, <5>2, <2>1 DEF Exists, Heals
      <4>. QED  BY <4>1, <4>2
    <3>4. Policied(t)'
      BY <3>1, <2>4, <1>4 DEF Policied
    <3>5. Len(todo') + 1 \in Nat /\ Len(todo') + 1 > c
      BY <1>4
    <3>6. Heals(t, Len(todo) + 1)'
      BY <3>2, <3>5
    <3>. QED  BY <3>3, <3>4, <3>6
  <2>. QED  BY <2>4, <2>5 DEF BootInv
<1>. QED  BY <1>5, <1>6

-----------------------------------------------------------------------------
(* A start goes on by one statement.                                       *)
LEMMA NextStatement ==
  ASSUME todo \in Seq(Stmts), todo # <<>>, todo' = Tail(todo)
  PROVE  /\ todo' \in Seq(Stmts) /\ Len(todo) \in Nat /\ Len(todo') = Len(todo) - 1
         /\ \A i \in Nat \ {0} : \A op, t : At(i, op, t)' <=> At(i + 1, op, t)
<1>1. /\ todo' \in Seq(Stmts) /\ Len(todo) \in Nat /\ Len(todo') = Len(todo) - 1
      /\ \A i \in 1..Len(todo') : todo'[i] = todo[i + 1]
  OBVIOUS
<1>. QED  BY <1>1 DEF At

(* What is changed of view t by the first statement, on that tier.         *)
Effect(op, t) ==
  /\ At(1, op, t)
  /\ \A u \in Tiers \ {t} : Same(view[u], view'[u])
  /\ op = "drop" => view'[t].shape = "none"
  /\ op = "create" =>
       /\ view'[t].shape = IF Exists(t) THEN view[t].shape ELSE "current"
       /\ Exists(t) => view'[t].policy = view[t].policy
  /\ op = "policy" => view'[t].policy /\ view'[t].shape = view[t].shape
  /\ op \notin {"drop", "create", "policy"} => Same(view[t], view'[t])

LEMMA BootGoesOn ==
  ASSUME ViewsOK, BootInv, todo \in Seq(Stmts), todo # <<>>, todo' = Tail(todo),
         NEW op \in Ops, NEW t \in Tiers, Effect(op, t)
  PROVE  BootInv'
<1>. DEFINE L == Len(todo)
<1>1. /\ L \in Nat /\ Len(todo') = L - 1 /\ L >= 1
      /\ \A i \in Nat \ {0} : \A o, u : At(i, o, u)' <=> At(i + 1, o, u)
      /\ \A i, o, u : At(i, o, u) => i \in 1..L
  BY NextStatement DEF At, Effect
<1>2. ASSUME NEW o, NEW u, At(1, o, u) PROVE o = op /\ u = t
  <2>1. Stmt(o, u) = Stmt(op, t)
    BY <1>2 DEF At, Effect
  <2>. QED  BY <2>1, StmtsDiffer
<1>. HIDE DEF L
<1>3. ASSUME NEW u \in Tiers, NEW k \in 2..(L + 1), Heals(u, k),
             At(1, "drop", u) => \E j \in 2..(k - 1) : At(j, "create", u)
      PROVE  Heals(u, k - 1)'
  <2>1. /\ u # t => view'[u].shape = view[u].shape
        /\ u = t /\ op \notin {"drop", "create"} => view'[u].shape = view[u].shape
    BY <1>3 DEF Effect, Same
  <2>2. CASE u = t /\ op = "drop"
    <3>1. PICK j \in 2..(k - 1) : At(j, "create", u)
      BY <1>3, <2>2 DEF Effect
    <3>2. At(j - 1, "create", u)' /\ j - 1 \in 1..(k - 2)
      BY <3>1, <1>1
    <3>. QED  BY <3>2, <2>2 DEF Effect, Heals
  <2>3. CASE u = t /\ op = "create" /\ view[u].shape \in {"none", "current"}
    BY <2>3 DEF Effect, Heals, Exists
  <2>4. CASE \/ u # t \/ op \notin {"drop", "create"}
             \/ op = "create" /\ view[u].shape \notin {"none", "current"}
    <3>1. view'[u].shape = view[u].shape
      BY <2>1, <2>4 DEF Effect, Exists
    <3>2. CASE view[u].shape = "current"
      BY <3>1, <3>2 DEF Heals
    <3>3. CASE view[u].shape # "current"
      <4>1. PICK j \in 1..(k - 1) :
              /\ At(j, "create", u)
              /\ view[u].shape = "none" \/ \E i \in 1..(j - 1) : At(i, "drop", u)
        BY <1>3, <3>3 DEF Heals
      <4>2. CASE view[u].shape = "none"
        <5>1. j # 1
          BY <1>2, <2>4, <4>1, <4>2
        <5>2. At(j - 1, "create", u)' /\ j - 1 \in 1..(k - 2)
          BY <1>1, <4>1, <5>1
        <5>. QED  BY <5>2, <3>1, <4>2 DEF Heals
      <4>3. CASE view[u].shape # "none"
        <5>1. PICK i \in 1..(j - 1) : At(i, "drop", u)
          BY <4>1, <4>3
        <5>2. i # 1
          BY <1>2, <2>4, <5>1
        <5>3. /\ At(j - 1, "create", u)' /\ j - 1 \in 1..(k - 2)
              /\ At(i - 1, "drop", u)' /\ i - 1 \in 1..(j - 2)
          BY <1>1, <4>1, <5>1, <5>2
        <5>. QED  BY <5>3 DEF Heals
      <4>. QED  BY <4>2, <4>3
    <3>. QED  BY <3>2, <3>3
  <2>. QED  BY <2>2, <2>3, <2>4
<1>4. SUFFICES ASSUME NEW u \in Tiers
               PROVE  /\ Heals(u, Len(todo) + 1)'
                      /\ \A i \in 1..Len(todo') : At(i, "mark", u)' => Heals(u, i)'
                      /\ \A i \in 1..Len(todo') : At(i, "drop", u)' => Recreated(u, i)'
                      /\ Policied(u)'
  BY DEF BootInv
<1>5. /\ Heals(u, L + 1)
      /\ \A i \in 1..L : At(i, "mark", u) => Heals(u, i)
      /\ \A i \in 1..L : At(i, "drop", u) => Recreated(u, i)
      /\ Policied(u)
  BY DEF BootInv, L
<1>6. At(1, "drop", u) => \E j \in 2..L :
         At(j, "create", u) /\ \A m \in 1..L : At(m, "mark", u) => j < m
  BY <1>1, <1>5 DEF Recreated, L
<1>7. Heals(u, Len(todo) + 1)'
  <2>1. PICK k \in 2..(L + 1) : k = L + 1
    BY <1>1
  <2>2. At(1, "drop", u) => \E j \in 2..(k - 1) : At(j, "create", u)
    BY <1>1, <1>6, <2>1
  <2>3. Heals(u, k - 1)'
    BY <1>3, <1>5, <2>1, <2>2
  <2>4. k - 1 = Len(todo') + 1
    BY <1>1, <2>1
  <2>. QED  BY <2>3, <2>4
<1>8. ASSUME NEW i \in 1..Len(todo'), At(i, "mark", u)' PROVE Heals(u, i)'
  <2>1. At(i + 1, "mark", u) /\ i + 1 \in 2..(L + 1) /\ i + 1 \in 1..L
    BY <1>1, <1>8
  <2>2. Heals(u, i + 1)
    BY <1>5, <2>1
  <2>3. At(1, "drop", u) => \E j \in 2..((i + 1) - 1) : At(j, "create", u)
    BY <1>1, <1>6, <2>1
  <2>4. PICK k \in 2..(L + 1) : k = i + 1
    BY <2>1
  <2>5. Heals(u, k - 1)'
    BY <1>3, <2>2, <2>3, <2>4
  <2>6. k - 1 = i
    BY <2>4
  <2>. QED  BY <2>5, <2>6
<1>9. ASSUME NEW i \in 1..Len(todo'), At(i, "drop", u)' PROVE Recreated(u, i)'
  <2>1. At(i + 1, "drop", u) /\ i + 1 \in 1..L
    BY <1>1, <1>9
  <2>2. PICK j \in (i + 2)..L :
          At(j, "create", u) /\ \A m \in 1..L : At(m, "mark", u) => j < m
    BY <1>1, <1>5, <2>1 DEF Recreated, L
  <2>3. j - 1 \in (i + 1)..Len(todo') /\ At(j - 1, "create", u)'
    BY <1>1, <2>2
  <2>4. \A m \in 1..Len(todo') : At(m, "mark", u)' => j - 1 < m
    BY <1>1, <2>2
  <2>. QED  BY <2>3, <2>4 DEF Recreated
<1>10. Policied(u)'
  <2>1. CASE /\ view[u].policy /\ view[u].shape = "current"
             /\ \A i \in 1..L : ~At(i, "drop", u)
    <3>1. ~(u = t /\ op = "drop")
      BY <1>1, <2>1 DEF Effect
    <3>2. view'[u].policy /\ view'[u].shape = "current"
      BY <2>1, <3>1 DEF Effect, Same, Exists
    <3>3. \A i \in 1..Len(todo') : ~At(i, "drop", u)'
      BY <1>1, <2>1
    <3>. QED  BY <3>2, <3>3 DEF Policied
  <2>2. ASSUME NEW j \in 1..L, At(j, "policy", u),
               \A i \in 1..L : At(i, "drop", u) \/ At(i, "create", u) => i < j
        PROVE  Policied(u)'
    <3>1. CASE j = 1
      <4>1. u = t /\ op = "policy"
        BY <1>2, <2>2, <3>1
      <4>2. view[u].shape = "current"
        BY <1>1, <1>5, <2>2, <3>1 DEF Heals
      <4>3. \A i \in 1..Len(todo') : ~At(i, "drop", u)'
        BY <1>1, <2>2, <3>1
      <4>. QED  BY <4>1, <4>2, <4>3 DEF Effect, Policied
    <3>2. CASE j # 1
      <4>1. j - 1 \in 1..Len(todo') /\ At(j - 1, "policy", u)'
        BY <1>1, <2>2, <3>2
      <4>2. \A i \in 1..Len(todo') : At(i, "drop", u)' \/ At(i, "create", u)' => i < j - 1
        BY <1>1, <2>2
      <4>. QED  BY <4>1, <4>2 DEF Policied
    <3>. QED  BY <3>1, <3>2
  <2>. QED  BY <1>5, <2>1, <2>2 DEF Policied, L
<1>. QED  BY <1>7, <1>8, <1>9, <1>10

LEMMA StepViews ==
  ASSUME ViewsOK, NEW op \in Ops, NEW t \in Tiers, At(1, op, t), Exec(Stmt(op, t)), oids \in Nat
  PROVE  /\ ViewsOK' /\ Effect(op, t)
         /\ op \notin {"drop", "create"} =>
              \A u \in Tiers : view'[u].shape = view[u].shape /\ view'[u].oid = view[u].oid
<1>1. Stmt(op, t).op = op /\ Stmt(op, t).tier = t
  BY DEF Stmt
<1>2. CASE op = "drop"
  <2>1. view' = [view EXCEPT ![t] = NoView]
    BY <1>1, <1>2 DEF Exec, Drop
  <2>2. \A u \in Tiers : view'[u] = IF u = t THEN NoView ELSE view[u]
    BY <2>1 DEF ViewsOK
  <2>3. ViewOK(NoView)
    BY DEF ViewOK, NoView, Shapes
  <2>4. NoView.shape = "none"
    BY DEF NoView
  <2>5. view' = [u \in Tiers |-> view'[u]]
    BY <2>1 DEF ViewsOK
  <2>. QED  BY <1>2, <2>2, <2>3, <2>4, <2>5 DEF ViewsOK, Effect, Same
<1>3. CASE op = "create" /\ Exists(t)
  <2>1. view' = view
    BY <1>1, <1>3 DEF Exec, Create
  <2>. QED  BY <1>3, <2>1 DEF ViewsOK, Effect, Same
<1>4. CASE op = "create" /\ ~Exists(t)
  <2>1. view' = [view EXCEPT ![t] = NewView("current", oids + 1)]
    BY <1>1, <1>4 DEF Exec, Create
  <2>2. \A u \in Tiers : view'[u] = IF u = t THEN NewView("current", oids + 1) ELSE view[u]
    BY <2>1 DEF ViewsOK
  <2>3. PICK dirty : NewView("current", oids + 1) =
          [NoView EXCEPT !.shape = "current", !.oid = oids + 1, !.dirty = dirty]
    BY DEF NewView
  <2>4. PICK v : v = [shape |-> "current", oid |-> oids + 1, rows |-> {}, dirty |-> dirty,
                      mark |-> 0, policy |-> FALSE]
    OBVIOUS
  <2>6. NewView("current", oids + 1) = v
    BY <2>3, <2>4 DEF NoView
  <2>7. ViewOK(v) /\ v.shape = "current"
    BY <2>4 DEF ViewOK, Shapes
  <2>5. view' = [u \in Tiers |-> view'[u]]
    BY <2>1 DEF ViewsOK
  <2>. QED  BY <1>4, <2>2, <2>6, <2>7, <2>5 DEF ViewsOK, Effect, Same
<1>5. CASE op = "policy"
  <2>1. view' = [view EXCEPT ![t] = [view[t] EXCEPT !.policy = TRUE]]
    BY <1>1, <1>5 DEF Exec
  <2>2. PICK v : v = [view[t] EXCEPT !.policy = TRUE]
    OBVIOUS
  <2>3. v = [shape |-> view[t].shape, oid |-> view[t].oid, rows |-> view[t].rows,
             dirty |-> view[t].dirty, mark |-> view[t].mark, policy |-> TRUE]
    <3>1. PICK w : w = view[t]
      OBVIOUS
    <3>2. ViewOK(w) /\ v = [w EXCEPT !.policy = TRUE]
      BY <2>2, <3>1 DEF ViewsOK
    <3>3. v = [shape |-> w.shape, oid |-> w.oid, rows |-> w.rows, dirty |-> w.dirty,
               mark |-> w.mark, policy |-> TRUE]
      BY <3>2 DEF ViewOK
    <3>. QED  BY <3>1, <3>3
  <2>4. view' = [view EXCEPT ![t] = v]
    BY <2>1, <2>2
  <2>5. view' = [u \in Tiers |-> view'[u]]
    BY <2>4 DEF ViewsOK
  <2>6. \A u \in Tiers : view'[u] = IF u = t THEN v ELSE view[u]
    BY <2>4 DEF ViewsOK
  <2>7. ViewOK(v) /\ v.shape = view[t].shape /\ v.oid = view[t].oid /\ v.policy
    BY <2>3 DEF ViewsOK, ViewOK
  <2>. QED  BY <1>5, <2>5, <2>6, <2>7 DEF ViewsOK, Effect, Same
<1>6. CASE op = "backfill"
  <2>1. PICK days : view' = [view EXCEPT ![t] = Refreshed(view[t], days)]
    BY <1>1, <1>6 DEF Exec
  <2>2. ViewsOK' /\ SameViews
    BY <2>1, RefreshSame
  <2>. QED  BY <1>6, <2>2 DEF Effect, SameViews, Same
<1>7. CASE op \in {"clear", "retain", "mark"}
  <2>1. view' = view
    BY <1>1, <1>7 DEF Exec
  <2>. QED  BY <1>7, <2>1 DEF ViewsOK, Effect, Same
<1>. QED  BY <1>2, <1>3, <1>4, <1>5, <1>6, <1>7 DEF Ops

LEMMA NewMarks ==
  ASSUME MarksInv, ViewsOK, oids' = oids + 1, UNCHANGED marks, NEW t \in Tiers,
         view'[t].oid = oids', \A u \in Tiers \ {t} : view'[u] = view[u]
  PROVE  MarksInv'
<1>1. marks[t] <= oids /\ marks[t] \in Nat /\ oids \in Nat
  BY DEF MarksInv
<1>2. ~versioned(t)'
  BY <1>1 DEF versioned
<1>3. \A u \in Tiers : marks'[u] <= oids' /\ view'[u].oid <= oids'
  <2>. SUFFICES ASSUME NEW u \in Tiers PROVE marks'[u] <= oids' /\ view'[u].oid <= oids'
    OBVIOUS
  <2>1. marks[u] \in Nat /\ marks[u] <= oids /\ (u # t => view'[u].oid = view[u].oid)
    BY DEF MarksInv
  <2>2. view[u].oid <= oids /\ view[u].oid \in Nat
    BY DEF MarksInv, ViewsOK, ViewOK
  <2>. QED  BY <1>1, <2>1, <2>2
<1>. QED  BY <1>1, <1>2, <1>3 DEF MarksInv, versioned

LEMMA GoneMarks ==
  ASSUME MarksInv, ViewsOK, UNCHANGED <<marks, oids>>, NEW t \in Tiers,
         view' = [view EXCEPT ![t] = NoView]
  PROVE  MarksInv'
<1>1. NoView.oid = 0
  BY DEF NoView
<1>2. \A u \in Tiers : view'[u] = IF u = t THEN NoView ELSE view[u]
  BY DEF ViewsOK
<1>. QED  BY <1>1, <1>2 DEF MarksInv, versioned

LEMMA StepMarks ==
  ASSUME MarksInv, ViewsOK, NEW op \in Ops, NEW t \in Tiers, Exec(Stmt(op, t)),
         op = "mark" => view[t].shape = "current",
         op \notin {"drop", "create"} =>
           \A u \in Tiers : view'[u].shape = view[u].shape /\ view'[u].oid = view[u].oid
  PROVE  MarksInv'
<1>1. Stmt(op, t).op = op /\ Stmt(op, t).tier = t
  BY DEF Stmt
<1>2. CASE op = "drop"
  BY <1>1, <1>2, GoneMarks DEF Exec, Drop
<1>3. CASE op = "create" /\ Exists(t)
  BY <1>1, <1>3 DEF Exec, Create, MarksInv, versioned
<1>4. CASE op = "create" /\ ~Exists(t)
  <2>1. /\ oids' = oids + 1 /\ marks' = marks
        /\ view' = [view EXCEPT ![t] = NewView("current", oids + 1)]
    BY <1>1, <1>4 DEF Exec, Create
  <2>2. \A u \in Tiers : view'[u] = IF u = t THEN NewView("current", oids + 1) ELSE view[u]
    BY <2>1 DEF ViewsOK
  <2>3. NewView("current", oids + 1).oid = oids + 1
    BY DEF NewView, NoView
  <2>. QED  BY <2>1, <2>2, <2>3, NewMarks
<1>5. CASE op \in {"policy", "retain", "backfill"}
  <2>1. UNCHANGED <<marks, oids>>
    BY <1>1, <1>5 DEF Exec
  <2>. QED  BY <1>5, <2>1 DEF MarksInv, versioned
<1>6. CASE op = "clear"
  <2>1. marks' = [u \in Tiers |-> 0] /\ oids' = oids
    BY <1>1, <1>6 DEF Exec
  <2>2. \A u \in Tiers : view'[u].oid = view[u].oid
    BY <1>6
  <2>. QED  BY <2>1, <2>2 DEF MarksInv, versioned
<1>7. CASE op = "mark"
  <2>1. marks' = [marks EXCEPT ![t] = view[t].oid] /\ oids' = oids
    BY <1>1, <1>7 DEF Exec
  <2>2. view[t].oid \in Nat
    BY DEF ViewsOK, ViewOK
  <2>. QED  BY <1>7, <2>1, <2>2 DEF MarksInv, versioned
<1>. QED  BY <1>2, <1>3, <1>4, <1>5, <1>6, <1>7 DEF Ops

-----------------------------------------------------------------------------
LEMMA StartStepInv ==
  ASSUME Inv, StartStep
  PROVE  Inv'
<1>1. /\ hub = "boot" /\ todo # <<>> /\ Exec(Head(todo)) /\ todo' = Tail(todo)
      /\ UNCHANGED <<hub, enabled>> /\ todo \in Seq(Stmts) /\ BootInv
  BY DEF Inv, StartStep
<1>2. PICK op \in Ops, t \in Tiers : Head(todo) = Stmt(op, t)
  <2>1. Head(todo) \in Stmts
    BY <1>1
  <2>. QED  BY <2>1 DEF Stmts, Stmt
<1>3. At(1, op, t)
  BY <1>1, <1>2 DEF At
<1>4. /\ ViewsOK' /\ Effect(op, t)
      /\ op \notin {"drop", "create"} =>
           \A u \in Tiers : view'[u].shape = view[u].shape /\ view'[u].oid = view[u].oid
  BY <1>1, <1>2, <1>3, StepViews DEF Inv, MarksInv
<1>5. BootInv' /\ todo' \in Seq(Stmts)
  BY <1>1, <1>4, BootGoesOn, NextStatement DEF Inv
<1>6. op = "mark" => view[t].shape = "current"
  BY <1>1, <1>3 DEF BootInv, Heals, At
<1>7. MarksInv'
  BY <1>1, <1>2, <1>4, <1>6, StepMarks DEF Inv
<1>. QED  BY <1>1, <1>4, <1>5, <1>7 DEF Inv

LEMMA TamperInv ==
  ASSUME Inv, Tamper
  PROVE  Inv'
<1>1. /\ hub # "boot" /\ enabled' = FALSE /\ UNCHANGED <<hub, todo, marks>>
  BY DEF Tamper
<1>2. PICK t \in Tiers :
        \/ view' = [view EXCEPT ![t] = NoView] /\ oids' = oids
        \/ oids' = oids + 1 /\ view' = [view EXCEPT ![t] = NewView("old", oids + 1)]
  BY DEF Tamper, Drop
<1>3. CASE view' = [view EXCEPT ![t] = NoView] /\ oids' = oids
  <2>1. MarksInv'
    BY <1>1, <1>3, GoneMarks DEF Inv
  <2>2. ViewOK(NoView)
    BY DEF ViewOK, NoView, Shapes
  <2>3. \A u \in Tiers : view'[u] = IF u = t THEN NoView ELSE view[u]
    BY <1>3 DEF Inv, ViewsOK
  <2>4. view' = [u \in Tiers |-> view'[u]]
    BY <1>3 DEF Inv, ViewsOK
  <2>. QED  BY <1>1, <2>1, <2>2, <2>3, <2>4 DEF Inv, ViewsOK
<1>4. CASE oids' = oids + 1 /\ view' = [view EXCEPT ![t] = NewView("old", oids + 1)]
  <2>1. PICK dirty : NewView("old", oids + 1) =
          [NoView EXCEPT !.shape = "old", !.oid = oids + 1, !.dirty = dirty]
    BY DEF NewView
  <2>2. PICK v : v = [shape |-> "old", oid |-> oids + 1, rows |-> {}, dirty |-> dirty,
                      mark |-> 0, policy |-> FALSE]
    OBVIOUS
  <2>3. NewView("old", oids + 1) = v
    BY <2>1, <2>2 DEF NoView
  <2>4. ViewOK(v) /\ v.oid = oids + 1
    BY <2>2 DEF ViewOK, Shapes, Inv, MarksInv
  <2>5. \A u \in Tiers : view'[u] = IF u = t THEN v ELSE view[u]
    BY <1>4, <2>3 DEF Inv, ViewsOK
  <2>6. view' = [u \in Tiers |-> view'[u]]
    BY <1>4 DEF Inv, ViewsOK
  <2>7. MarksInv'
    BY <1>1, <1>4, <2>4, <2>5, NewMarks DEF Inv
  <2>. QED  BY <1>1, <2>4, <2>5, <2>6, <2>7 DEF Inv, ViewsOK
<1>. QED  BY <1>2, <1>3, <1>4

LEMMA NextInv == Inv /\ [Next]_vars => Inv'
<1>. SUFFICES ASSUME Inv, [Next]_vars PROVE Inv'
  OBVIOUS
<1>1. ASSUME Start PROVE Inv'
  <2>1. UNCHANGED <<view, marks, oids, enabled>> /\ hub = "down" /\ hub' \in {"up", "boot"}
    BY <1>1 DEF Start, db
  <2>2. ViewsOK' /\ MarksInv' /\ ~enabled'
    BY <2>1 DEF Inv, ViewsOK, MarksInv, versioned
  <2>3. CASE hub' = "up"
    <3>1. todo' = todo
      BY <1>1, <2>3 DEF Start
    <3>. QED  BY <2>1, <2>2, <2>3, <3>1 DEF Inv
  <2>4. CASE hub' = "boot"
    <3>1. todo' = EnableDownsampling
      BY <1>1, <2>4 DEF Start
    <3>2. BootInv' /\ todo' \in Seq(Stmts)
      BY <2>1, <3>1, StartBoots, StartList
    <3>. QED  BY <2>1, <2>2, <2>4, <3>2 DEF Inv
  <2>. QED  BY <2>1, <2>3, <2>4
<1>2. ASSUME StartStep PROVE Inv'
  BY <1>2, StartStepInv
<1>3. ASSUME Started PROVE Inv'
  <2>1. /\ hub = "boot" /\ todo = <<>> /\ hub' = "up" /\ enabled'
        /\ UNCHANGED <<view, marks, oids, todo>>
    BY <1>3 DEF Started, db
  <2>2. ViewsOK' /\ MarksInv'
    BY <2>1 DEF Inv, ViewsOK, MarksInv, versioned
  <2>3. \A t \in Tiers : Serves(t)
    BY <2>1 DEF Inv, BootInv, Heals, Policied, Serves
  <2>4. \A t \in Tiers : Serves(t)'
    BY <2>1, <2>3 DEF Serves
  <2>. QED  BY <2>1, <2>2, <2>4 DEF Inv
<1>4. ASSUME Stop PROVE Inv'
  <2>1. hub' = "down" /\ todo' = <<>> /\ ~enabled' /\ UNCHANGED <<view, marks, oids>>
    BY <1>4 DEF Stop, db
  <2>2. ViewsOK' /\ MarksInv'
    BY <2>1 DEF Inv, ViewsOK, MarksInv, versioned
  <2>. QED  BY <2>1, <2>2 DEF Inv
<1>5. ASSUME AddResults \/ ImportSamples \/ RetentionJob PROVE Inv'
  <2>1. (\E rounds : view' = Touch(rounds)) /\ UNCHANGED <<marks, oids, todo, hub, enabled>>
    BY <1>5 DEF AddResults, ImportSamples, RetentionJob
  <2>. QED  BY <2>1, TouchSame, QuietInv DEF Inv
<1>6. ASSUME RefreshAggregates \/ PolicyJob PROVE Inv'
  <2>1. /\ \E t \in Tiers : \E days : view' = [view EXCEPT ![t] = Refreshed(view[t], days)]
        /\ UNCHANGED <<marks, oids, todo, hub, enabled>>
    BY <1>6 DEF RefreshAggregates, PolicyJob
  <2>. QED  BY <2>1, RefreshSame, QuietInv DEF Inv
<1>7. ASSUME StartImport \/ ImportFails \/ NextDay \/ UNCHANGED vars PROVE Inv'
  <2>1. UNCHANGED <<view, marks, oids, todo, hub, enabled>>
    BY <1>7 DEF StartImport, ImportFails, NextDay, vars, db
  <2>2. SameViews /\ ViewsOK'
    BY <2>1 DEF SameViews, Same, Inv, ViewsOK
  <2>. QED  BY <2>1, <2>2, QuietInv
<1>8. ASSUME Tamper PROVE Inv'
  BY <1>8, TamperInv
<1>. QED  BY <1>1, <1>2, <1>3, <1>4, <1>5, <1>6, <1>7, <1>8 DEF Next

(* A served view has the shape this hub's queries expect, and its policy,  *)
(* however many starts died before they came to its statements and         *)
(* whatever view was put in its place (migrateAggregates, its marks).      *)
THEOREM OnlyCurrentViewsServed == Spec => []ServedViewsAreCurrent
<1>1. Inv => ServedViewsAreCurrent
  BY DEF Inv, Serves, ServedViewsAreCurrent
<1>. QED  BY <1>1, InitInv, NextInv, PTL DEF Spec

-----------------------------------------------------------------------------
(* Least and greatest numbers of a set.                                    *)
LEMMA LeastNumber ==
  ASSUME NEW T \in SUBSET Nat, T # {}
  PROVE  \E x \in T : \A y \in T : x <= y
<1>1. PICK x \in T : \A y \in T : ~(<<y, x>> \in OpToRel(<, Nat))
  BY NatLessThanWellFounded, WFMin
<1>2. ASSUME NEW y \in T PROVE x <= y
  <2>1. ~(<<y, x>> \in {ss \in Nat \X Nat : ss[1] < ss[2]})
    BY <1>1 DEF OpToRel
  <2>. QED  BY <2>1
<1>. QED  BY <1>2

LEMMA GreatestNumber ==
  ASSUME NEW T \in SUBSET Nat, T # {}, NEW b \in Nat, \A y \in T : y <= b
  PROVE  \E x \in T : \A y \in T : y <= x
<1>. DEFINE D == {b - y : y \in T}
<1>1. D \in SUBSET Nat /\ D # {}
  <2>1. \A y \in T : b - y \in Nat
    OBVIOUS
  <2>2. PICK y \in T : TRUE
    OBVIOUS
  <2>. QED  BY <2>1, <2>2
<1>2. PICK u \in D : \A v \in D : u <= v
  <2>. HIDE DEF D
  <2>. QED  BY <1>1, LeastNumber
<1>3. PICK x \in T : u = b - x
  OBVIOUS
<1>4. ASSUME NEW y \in T PROVE y <= x
  <2>1. b - x <= b - y
    BY <1>2, <1>3
  <2>. QED  BY <2>1
<1>. QED  BY <1>4

LEMMA MaxIs ==
  ASSUME NEW T \in SUBSET Nat, T # {}, NEW b \in Nat, \A y \in T : y <= b
  PROVE  Max(T) \in T /\ \A y \in T : y <= Max(T)
<1>1. \E x \in T : \A y \in T : x >= y
  BY GreatestNumber
<1>2. Max(T) \in T /\ \A y \in T : Max(T) >= y
  BY <1>1 DEF Max
<1>. QED  BY <1>2

LEMMA MinIs ==
  ASSUME NEW T \in SUBSET Nat, T # {}
  PROVE  Min(T) \in T /\ \A y \in T : Min(T) <= y
<1>1. \E x \in T : \A y \in T : x =< y
  BY LeastNumber
<1>. QED  BY <1>1 DEF Min

-----------------------------------------------------------------------------
(* What the tiers keep.                                                    *)

(* Rounds an import under way will still have tier t show.                 *)
Pending(t) == UNION {i.rows : i \in {j \in import : ImportTodo(j, t)}}

(* The days a tier's policy looks after, and today.                        *)
Near(t) == Trailing(policyDays(t)) \cup {now}

Owed(t) == Promised(t) \ (excused[t] \cup missed[t])
Held(r, t) == r \in view[t].rows \cup Pending(t) \/ r.day \in Near(t)
Kept(t) == \A r \in Owed(t) : Held(r, t)

(* Raw rows are lost by age only.                                          *)
RawInv ==
  /\ now \in Nat \ {0} /\ raw \subseteq ever
  /\ \A r \in ever : r.day \in 1..now /\ (r \in raw \/ r.day + RawDays < now)

(* A view lacks raw rows of the days to be refreshed only; its buckets are *)
(* of closed days.                                                         *)
Agrees(v) ==
  /\ v.mark \in Nat /\ v.mark <= now
  /\ \A r \in v.rows : r.day \in Nat /\ r.day < now
  /\ \A r \in raw : r.day \notin v.dirty => r \in v.rows
ViewsAgree == \A t \in Tiers : Exists(t) => Agrees(view[t])

ImportTodos == {<<"insert", "hourly", "daily">>, <<"hourly", "daily">>, <<"daily">>}
ImportInv ==
  /\ \A i \in import :
       /\ i = [todo |-> i.todo, rows |-> i.rows] /\ i.todo \in ImportTodos
       /\ i.rows # {} /\ \A r \in i.rows : r.day \in 1..now
  /\ \A i, j \in import : i = j

LossesTyped == excused = [t \in Tiers |-> excused[t]] /\ missed = [t \in Tiers |-> missed[t]]

DataInv == RawInv /\ ViewsAgree /\ ImportInv /\ LossesTyped

LEMMA TrailingIs ==
  ASSUME now \in Nat, NEW n, NEW d
  PROVE  d \in Trailing(n) <=> d \in Nat /\ 1 <= d /\ d < now /\ d + n > now
BY DEF Trailing

LEMMA SpansTyped ==
  /\ RawDays \in Nat /\ HourlyPolicy \in Nat /\ HourlyBackfill \in Nat
  /\ 2 <= HourlyPolicy /\ HourlyPolicy <= HourlyBackfill /\ HourlyBackfill <= RawDays
BY RollupsAssumption

(* What a refresh computes.                                                *)
LEMMA RefreshedIs ==
  ASSUME NEW v, ViewOK(v), NEW days
  PROVE  /\ \A r : r \in Refreshed(v, days).rows <=>
                 IF r.day \in v.dirty \cap days THEN r \in raw ELSE r \in v.rows
         /\ Refreshed(v, days).dirty = v.dirty \ days
         /\ Refreshed(v, days).mark =
              Max({v.mark} \cup {r.day + 1 : r \in Refreshed(v, days).rows})
<1>1. PICK again : again = v.dirty \cap days
  OBVIOUS
<1>2. PICK rows : rows = {r \in v.rows : r.day \notin again} \cup {r \in raw : r.day \in again}
  OBVIOUS
<1>3. PICK mark : mark = Max({v.mark} \cup {r.day + 1 : r \in rows})
  OBVIOUS
<1>4. Refreshed(v, days) = [v EXCEPT !.rows = rows, !.dirty = v.dirty \ again, !.mark = mark]
  BY <1>1, <1>2, <1>3 DEF Refreshed
<1>5. Refreshed(v, days) = [shape |-> v.shape, oid |-> v.oid, rows |-> rows,
                            dirty |-> v.dirty \ again, mark |-> mark, policy |-> v.policy]
  BY <1>4 DEF ViewOK
<1>6. /\ Refreshed(v, days).rows = rows /\ Refreshed(v, days).dirty = v.dirty \ again
      /\ Refreshed(v, days).mark = mark
  BY <1>5
<1>. QED  BY <1>1, <1>2, <1>3, <1>6

LEMMA RefreshAgrees ==
  ASSUME RawInv, NEW v, ViewOK(v), Agrees(v), NEW days, \A d \in days : d < now
  PROVE  Agrees(Refreshed(v, days))
<1>1. PICK w : w = Refreshed(v, days)
  OBVIOUS
<1>2. /\ \A r : r \in w.rows <=> IF r.day \in v.dirty \cap days THEN r \in raw ELSE r \in v.rows
      /\ w.dirty = v.dirty \ days
      /\ w.mark = Max({v.mark} \cup {r.day + 1 : r \in w.rows})
  BY <1>1, RefreshedIs
<1>3. \A r \in w.rows : r.day \in Nat /\ r.day < now
  BY <1>2 DEF Agrees, RawInv
<1>4. \A r \in raw : r.day \notin w.dirty => r \in w.rows
  BY <1>2 DEF Agrees
<1>5. PICK T : T = {v.mark} \cup {r.day + 1 : r \in w.rows}
  OBVIOUS
<1>6. T \in SUBSET Nat /\ T # {} /\ \A y \in T : y <= now
  BY <1>3, <1>5 DEF Agrees, RawInv
<1>7. w.mark \in Nat /\ w.mark <= now
  BY <1>2, <1>5, <1>6, MaxIs DEF RawInv
<1>. QED  BY <1>1, <1>3, <1>4, <1>7 DEF Agrees

(* Touch changes what is to be refreshed, and nothing else.                *)
LEMMA TouchIs ==
  ASSUME ViewsOK, NEW rounds, NEW t \in Tiers
  PROVE  /\ Touch(rounds)[t].shape = view[t].shape
         /\ Touch(rounds)[t].rows = view[t].rows
         /\ Touch(rounds)[t].mark = view[t].mark
         /\ Exists(t) => Touch(rounds)[t].dirty = view[t].dirty \cup {r.day : r \in rounds}
<1>1. CASE ~Exists(t)
  BY <1>1 DEF Touch
<1>2. CASE Exists(t)
  <2>1. PICK v : v = view[t]
    OBVIOUS
  <2>2. PICK dirty : dirty = v.dirty \cup {r.day : r \in rounds}
    OBVIOUS
  <2>3. Touch(rounds)[t] = [v EXCEPT !.dirty = dirty]
    BY <1>2, <2>1, <2>2 DEF Touch
  <2>4. v = [shape |-> v.shape, oid |-> v.oid, rows |-> v.rows, dirty |-> v.dirty,
             mark |-> v.mark, policy |-> v.policy]
    BY <2>1 DEF ViewsOK, ViewOK
  <2>5. Touch(rounds)[t] = [shape |-> v.shape, oid |-> v.oid, rows |-> v.rows, dirty |-> dirty,
                            mark |-> v.mark, policy |-> v.policy]
    BY <2>3, <2>4
  <2>. QED  BY <2>1, <2>2, <2>5
<1>. QED  BY <1>1, <1>2

LEMMA TouchAgrees ==
  ASSUME ViewsOK, ViewsAgree, NEW rounds, view' = Touch(rounds), raw' \ raw \subseteq rounds,
         UNCHANGED now
  PROVE  ViewsAgree'
<1>. SUFFICES ASSUME NEW t \in Tiers, view'[t].shape # "none" PROVE Agrees(view[t])'
  BY DEF ViewsAgree, Exists
<1>1. Exists(t) /\ Agrees(view[t])
  BY TouchIs DEF ViewsAgree, Exists
<1>2. /\ view'[t].rows = view[t].rows /\ view'[t].mark = view[t].mark
      /\ view'[t].dirty = view[t].dirty \cup {r.day : r \in rounds}
  BY <1>1, TouchIs
<1>3. \A r \in raw' : r.day \notin view'[t].dirty => r \in raw
  BY <1>2
<1>. QED  BY <1>1, <1>2, <1>3 DEF Agrees

(* A new view is empty, and all of raw is to be refreshed into it.         *)
LEMMA NewViewAgrees ==
  ASSUME RawInv, NEW shape, NEW oid
  PROVE  Agrees(NewView(shape, oid))
<1>1. PICK dirty : dirty = {r.day : r \in raw}
  OBVIOUS
<1>2. NewView(shape, oid) = [NoView EXCEPT !.shape = shape, !.oid = oid, !.dirty = dirty]
  BY <1>1 DEF NewView
<1>3. PICK v : v = [shape |-> shape, oid |-> oid, rows |-> {}, dirty |-> dirty,
                    mark |-> 0, policy |-> FALSE]
  OBVIOUS
<1>4. NewView(shape, oid) = v
  BY <1>2, <1>3 DEF NoView
<1>5. Agrees(v)
  BY <1>1, <1>3 DEF Agrees, RawInv
<1>. QED  BY <1>4, <1>5

-----------------------------------------------------------------------------
(* An import under way.                                                    *)
LEMMA ImportStmts ==
  /\ <<"insert", "hourly", "daily">> # <<"daily">> /\ <<"hourly", "daily">> # <<"daily">>
  /\ Head(<<"insert", "hourly", "daily">>) = "insert" /\ Head(<<"hourly", "daily">>) = "hourly"
  /\ Head(<<"daily">>) = "daily"
  /\ Tail(<<"insert", "hourly", "daily">>) = <<"hourly", "daily">>
  /\ Tail(<<"hourly", "daily">>) = <<"daily">>
  /\ Len(<<"insert", "hourly", "daily">>) = 3 /\ Len(<<"hourly", "daily">>) = 2
  /\ Len(<<"daily">>) = 1
OBVIOUS

LEMMA ImportTodoIs ==
  ASSUME NEW i, i.todo \in ImportTodos, NEW t \in Tiers
  PROVE  ImportTodo(i, t) <=> (t = "daily" \/ i.todo # <<"daily">>)
<1>1. CASE i.todo = <<"insert", "hourly", "daily">>
  <2>1. i.todo[2] = "hourly" /\ i.todo[3] = "daily" /\ 2 \in 1..Len(i.todo) /\ 3 \in 1..Len(i.todo)
    BY <1>1
  <2>. QED  BY <1>1, <2>1, ImportStmts DEF ImportTodo, Tiers
<1>2. CASE i.todo = <<"hourly", "daily">>
  <2>1. i.todo[1] = "hourly" /\ i.todo[2] = "daily" /\ 1 \in 1..Len(i.todo) /\ 2 \in 1..Len(i.todo)
    BY <1>2
  <2>. QED  BY <1>2, <2>1, ImportStmts DEF ImportTodo, Tiers
<1>3. CASE i.todo = <<"daily">>
  <2>1. i.todo[1] = "daily" /\ 1..Len(i.todo) = {1}
    BY <1>3
  <2>. QED  BY <1>3, <2>1 DEF ImportTodo, Tiers
<1>. QED  BY <1>1, <1>2, <1>3 DEF ImportTodos

LEMMA PendingIs ==
  ASSUME ImportInv, NEW t \in Tiers
  PROVE  /\ import = {} => Pending(t) = {}
         /\ \A i \in import : \A r :
              r \in Pending(t) <=> r \in i.rows /\ (t = "daily" \/ i.todo # <<"daily">>)
<1>1. \A i \in import : ImportTodo(i, t) <=> (t = "daily" \/ i.todo # <<"daily">>)
  BY ImportTodoIs DEF ImportInv
<1>. QED  BY <1>1 DEF Pending, ImportInv

LEMMA PendingNext ==
  ASSUME ImportInv', NEW t \in Tiers
  PROVE  \A i \in import' : \A r :
           r \in Pending(t)' <=> r \in i.rows /\ (t = "daily" \/ i.todo # <<"daily">>)
<1>1. \A i \in import' : ImportTodo(i, t) <=> (t = "daily" \/ i.todo # <<"daily">>)
  BY ImportTodoIs DEF ImportInv
<1>. QED  BY <1>1 DEF Pending, ImportInv

LEMMA ImportRest ==
  ASSUME NEW q \in ImportTodos
  PROVE  /\ Len(q) > 1 => q = <<"insert", "hourly", "daily">> \/ q = <<"hourly", "daily">>
         /\ ~(Len(q) > 1) => q = <<"daily">>
         /\ Head(q) = "insert" => Len(q) > 1 /\ Tail(q) # <<"daily">> /\ q # <<"daily">>
         /\ Head(q) = "hourly" => Len(q) > 1 /\ Tail(q) = <<"daily">>
         /\ Head(q) = "daily" => q = <<"daily">>
<1>1. CASE q = <<"insert", "hourly", "daily">>
  <2>1. /\ Len(q) = 3 /\ Head(q) = "insert" /\ Tail(q) = <<"hourly", "daily">>
        /\ q # <<"daily">>
    BY <1>1, ImportStmts
  <2>. QED  BY <1>1, <2>1, ImportStmts
<1>2. CASE q = <<"hourly", "daily">>
  <2>1. Len(q) = 2 /\ Head(q) = "hourly" /\ Tail(q) = <<"daily">>
    BY <1>2, ImportStmts
  <2>. QED  BY <1>2, <2>1
<1>3. CASE q = <<"daily">>
  <2>1. Len(q) = 1 /\ Head(q) = "daily"
    BY <1>3, ImportStmts
  <2>. QED  BY <1>3, <2>1
<1>. QED  BY <1>1, <1>2, <1>3 DEF ImportTodos

LEMMA ImportGoesOn ==
  ASSUME ImportInv, NEW i \in import, Len(i.todo) > 1, import' = {[i EXCEPT !.todo = Tail(@)]},
         UNCHANGED now
  PROVE  /\ ImportInv'
         /\ \E j \in import' : j.rows = i.rows /\ j.todo = Tail(i.todo)
<1>1. PICK j : j = [i EXCEPT !.todo = Tail(i.todo)]
  OBVIOUS
<1>2. i = [todo |-> i.todo, rows |-> i.rows]
  BY DEF ImportInv
<1>3. PICK q : q = Tail(i.todo)
  OBVIOUS
<1>4. j = [todo |-> q, rows |-> i.rows]
  BY <1>1, <1>2, <1>3
<1>5. import' = {j}
  BY <1>1
<1>6. q \in ImportTodos
  <2>1. i.todo = <<"insert", "hourly", "daily">> \/ i.todo = <<"hourly", "daily">>
    BY ImportRest DEF ImportInv
  <2>. QED  BY <1>3, <2>1, ImportStmts DEF ImportTodos
<1>7. j.todo = q /\ j.rows = i.rows /\ j = [todo |-> j.todo, rows |-> j.rows]
  BY <1>4
<1>8. i.rows # {} /\ \A r \in i.rows : r.day \in 1..now
  BY DEF ImportInv
<1>. QED  BY <1>3, <1>5, <1>6, <1>7, <1>8 DEF ImportInv

-----------------------------------------------------------------------------
(* A step keeps what raw rows there are, and views that agree with them.   *)
LEMMA ExecData ==
  ASSUME ViewsOK, DataInv, NEW op \in Ops, NEW t \in Tiers, Exec(Stmt(op, t)),
         UNCHANGED <<now, raw>>
  PROVE  ViewsAgree' /\ excused' = [u \in Tiers |-> excused'[u]]
<1>1. Stmt(op, t).op = op /\ Stmt(op, t).tier = t
  BY DEF Stmt
<1>2. \A x : excused' = [excused EXCEPT ![t] = x] => excused' = [u \in Tiers |-> excused'[u]]
  BY DEF DataInv, LossesTyped
<1>3. excused' = excused => excused' = [u \in Tiers |-> excused'[u]]
  BY DEF DataInv, LossesTyped
<1>4. ASSUME \A u \in Tiers : view'[u].shape # "none" =>
               \/ Exists(u) /\ view'[u] = view[u]
               \/ Agrees(view'[u])
      PROVE  ViewsAgree'
  <2>. SUFFICES ASSUME NEW u \in Tiers, view'[u].shape # "none" PROVE Agrees(view[u])'
    BY DEF ViewsAgree, Exists
  <2>1. Agrees(view'[u])
    BY <1>4 DEF DataInv, ViewsAgree
  <2>. QED  BY <2>1 DEF Agrees
<1>5. CASE op = "drop"
  <2>1. view' = [view EXCEPT ![t] = NoView]
    BY <1>1, <1>5 DEF Exec, Drop
  <2>2. \A u \in Tiers : view'[u] = IF u = t THEN NoView ELSE view[u]
    BY <2>1 DEF ViewsOK
  <2>3. NoView.shape = "none"
    BY DEF NoView
  <2>4. ViewsAgree'
    BY <2>2, <2>3, <1>4 DEF Exists
  <2>. QED  BY <1>1, <1>2, <1>5, <2>4 DEF Exec, Drop, Excuse
<1>6. CASE op = "create" /\ Exists(t)
  <2>1. view' = view /\ excused' = excused
    BY <1>1, <1>6 DEF Exec, Create
  <2>. QED  BY <2>1, <1>3, <1>4 DEF Exists
<1>7. CASE op = "create" /\ ~Exists(t)
  <2>1. view' = [view EXCEPT ![t] = NewView("current", oids + 1)]
    BY <1>1, <1>7 DEF Exec, Create
  <2>2. \A u \in Tiers : view'[u] = IF u = t THEN NewView("current", oids + 1) ELSE view[u]
    BY <2>1 DEF ViewsOK
  <2>3. ViewsAgree'
    BY <2>2, <1>4, NewViewAgrees DEF Exists, DataInv
  <2>. QED  BY <1>1, <1>2, <1>7, <2>3 DEF Exec, Create, Excuse
<1>8. CASE op = "policy"
  <2>1. view' = [view EXCEPT ![t] = [view[t] EXCEPT !.policy = TRUE]] /\ excused' = excused
    BY <1>1, <1>8 DEF Exec
  <2>2. PICK v : v = view[t]
    OBVIOUS
  <2>3. PICK w : w = [v EXCEPT !.policy = TRUE]
    OBVIOUS
  <2>4. w = [shape |-> v.shape, oid |-> v.oid, rows |-> v.rows, dirty |-> v.dirty,
             mark |-> v.mark, policy |-> TRUE]
    <3>1. v = [shape |-> v.shape, oid |-> v.oid, rows |-> v.rows, dirty |-> v.dirty,
               mark |-> v.mark, policy |-> v.policy]
      BY <2>2 DEF ViewsOK, ViewOK
    <3>. QED  BY <2>3, <3>1
  <2>5. w.shape = v.shape /\ w.rows = v.rows /\ w.dirty = v.dirty /\ w.mark = v.mark
    BY <2>4
  <2>6. v.shape # "none" => Agrees(w)
    BY <2>2, <2>5 DEF DataInv, ViewsAgree, Exists, Agrees
  <2>7. \A u \in Tiers : view'[u] = IF u = t THEN w ELSE view[u]
    BY <2>1, <2>2, <2>3 DEF ViewsOK
  <2>. QED  BY <2>1, <2>5, <2>6, <2>7, <1>3, <1>4 DEF Exists
<1>9. CASE op = "backfill"
  <2>1. PICK days : days = Trailing(backfillDays(t))
    OBVIOUS
  <2>2. view' = [view EXCEPT ![t] = Refreshed(view[t], days)]
    BY <1>1, <1>9, <2>1 DEF Exec
  <2>3. \A d \in days : d < now
    BY <2>1, TrailingIs DEF DataInv, RawInv
  <2>4. ViewOK(view[t]) /\ (Exists(t) => Agrees(view[t])) /\ RawInv
    BY DEF ViewsOK, DataInv, ViewsAgree
  <2>5. Exists(t) => Agrees(Refreshed(view[t], days))
    BY <2>3, <2>4, RefreshAgrees
  <2>6. Refreshed(view[t], days).shape = view[t].shape
    BY <2>4, RefreshedSame DEF Same
  <2>7. \A u \in Tiers : view'[u] = IF u = t THEN Refreshed(view[t], days) ELSE view[u]
    BY <2>2 DEF ViewsOK
  <2>8. ViewsAgree'
    BY <2>5, <2>6, <2>7, <1>4 DEF Exists
  <2>. QED  BY <1>1, <1>2, <1>9, <2>8 DEF Exec, Excuse
<1>10. CASE op \in {"clear", "retain", "mark"}
  <2>1. view' = view /\ excused' = excused
    BY <1>1, <1>10 DEF Exec
  <2>. QED  BY <2>1, <1>3, <1>4 DEF Exists
<1>. QED  BY <1>5, <1>6, <1>7, <1>8, <1>9, <1>10 DEF Ops


(* The rest of the invariant is about rounds alone.                        *)
LEMMA DataStays ==
  ASSUME DataInv, UNCHANGED <<now, raw, ever, import>>, ViewsAgree',
         excused' = [t \in Tiers |-> excused'[t]], missed' = [t \in Tiers |-> missed'[t]]
  PROVE  DataInv'
BY DEF DataInv, RawInv, ImportInv, LossesTyped

LEMMA SameViewsAgree ==
  ASSUME ViewsAgree, UNCHANGED <<view, raw, now>>
  PROVE  ViewsAgree'
BY DEF ViewsAgree, Exists, Agrees

LEMMA RefreshViewsAgree ==
  ASSUME ViewsOK, RawInv, ViewsAgree, UNCHANGED <<now, raw>>, NEW t \in Tiers, NEW days,
         view' = [view EXCEPT ![t] = Refreshed(view[t], days)], \A d \in days : d < now
  PROVE  ViewsAgree'
<1>1. ViewOK(view[t]) /\ (Exists(t) => Agrees(view[t]))
  BY DEF ViewsOK, ViewsAgree
<1>2. Exists(t) => Agrees(Refreshed(view[t], days))
  BY <1>1, RefreshAgrees
<1>3. Refreshed(view[t], days).shape = view[t].shape
  BY <1>1, RefreshedSame DEF Same
<1>4. \A u \in Tiers : view'[u] = IF u = t THEN Refreshed(view[t], days) ELSE view[u]
  BY DEF ViewsOK
<1>. SUFFICES ASSUME NEW u \in Tiers, view'[u].shape # "none" PROVE Agrees(view[u])'
  BY DEF ViewsAgree, Exists
<1>5. Agrees(view'[u])
  BY <1>2, <1>3, <1>4 DEF ViewsAgree, Exists
<1>. QED  BY <1>5 DEF Agrees

LEMMA TouchData ==
  ASSUME Inv, DataInv, AddResults \/ ImportSamples \/ RetentionJob
  PROVE  DataInv'
<1>1. ViewsOK /\ RawInv /\ ViewsAgree /\ ImportInv /\ LossesTyped
  BY DEF Inv, DataInv
<1>2. CASE AddResults
  <2>1. PICK r : /\ r.day \in 1..now
                 /\ raw' = raw \cup {r} /\ ever' = ever \cup {r} /\ view' = Touch({r})
                 /\ UNCHANGED <<now, import, excused>>
    <3>1. PICK target \in Targets, day \in 1..now :
            /\ raw' = raw \cup {[target |-> target, day |-> day]}
            /\ ever' = ever \cup {[target |-> target, day |-> day]}
            /\ view' = Touch({[target |-> target, day |-> day]})
            /\ UNCHANGED <<now, import, excused>>
      BY <1>2 DEF AddResults
    <3>2. [target |-> target, day |-> day].day \in 1..now
      OBVIOUS
    <3>. QED  BY <3>1, <3>2
  <2>2. missed' = [t \in Tiers |-> missed'[t]]
    BY <1>2 DEF AddResults
  <2>3. ViewsAgree'
    BY <1>1, <2>1, TouchAgrees
  <2>4. RawInv'
    BY <1>1, <2>1 DEF RawInv
  <2>. QED  BY <1>1, <2>1, <2>2, <2>3, <2>4 DEF DataInv, ImportInv, LossesTyped
<1>3. CASE ImportSamples
  <2>1. PICK i \in import :
          /\ Head(i.todo) = "insert" /\ raw' = raw \cup i.rows /\ ever' = ever \cup i.rows
          /\ view' = Touch(i.rows \ raw) /\ import' = {[i EXCEPT !.todo = Tail(@)]}
          /\ UNCHANGED <<now, excused, missed>>
    BY <1>3 DEF ImportSamples
  <2>2. i.todo \in ImportTodos /\ \A r \in i.rows : r.day \in 1..now
    BY <1>1 DEF ImportInv
  <2>3. Len(i.todo) > 1
    BY <2>1, <2>2, ImportRest
  <2>4. ImportInv'
    BY <1>1, <2>1, <2>3, ImportGoesOn
  <2>5. ViewsAgree'
    <3>1. raw' \ raw \subseteq i.rows \ raw
      BY <2>1
    <3>. QED  BY <1>1, <2>1, <3>1, TouchAgrees
  <2>6. RawInv'
    BY <1>1, <2>1, <2>2 DEF RawInv
  <2>. QED  BY <1>1, <2>1, <2>4, <2>5, <2>6 DEF DataInv, LossesTyped
<1>4. CASE RetentionJob
  <2>1. PICK gone :
          /\ gone = {r \in raw : r.day + RawDays < now} /\ raw' = raw \ gone
          /\ view' = Touch(gone) /\ UNCHANGED <<now, import, ever, excused, missed>>
    BY <1>4 DEF RetentionJob, history
  <2>2. ViewsAgree'
    BY <1>1, <2>1, TouchAgrees
  <2>3. RawInv'
    BY <1>1, <2>1 DEF RawInv
  <2>. QED  BY <1>1, <2>1, <2>2, <2>3 DEF DataInv, ImportInv, LossesTyped
<1>. QED  BY <1>2, <1>3, <1>4

LEMMA ImportStepData ==
  ASSUME Inv, DataInv, StartImport \/ RefreshAggregates \/ ImportFails
  PROVE  DataInv'
<1>1. ViewsOK /\ RawInv /\ ViewsAgree /\ ImportInv /\ LossesTyped
  BY DEF Inv, DataInv
<1>2. CASE StartImport
  <2>1. PICK rows \in Histories :
          /\ rows # {} /\ \A r \in rows : r.day <= now
          /\ import' = {[todo |-> <<"insert", "hourly", "daily">>, rows |-> rows]}
          /\ UNCHANGED <<now, raw, view, ever, excused, missed>>
    BY <1>2 DEF StartImport, db, history
  <2>2. \A r \in rows : r.day \in 1..now
    <3>1. \A r \in rows : r.day \in 1..MaxDay
      BY RollupsAssumption
    <3>. QED  BY <1>1, <2>1, <3>1 DEF RawInv
  <2>3. PICK q : q = <<"insert", "hourly", "daily">>
    OBVIOUS
  <2>4. q \in ImportTodos
    BY <2>3 DEF ImportTodos
  <2>5. PICK j : j = [todo |-> q, rows |-> rows]
    OBVIOUS
  <2>6. import' = {j} /\ j.todo = q /\ j.rows = rows
    BY <2>1, <2>3, <2>5
  <2>7. ImportInv'
    BY <2>1, <2>2, <2>4, <2>5, <2>6 DEF ImportInv
  <2>. QED  BY <1>1, <2>1, <2>7, SameViewsAgree DEF DataInv, RawInv, LossesTyped
<1>3. CASE RefreshAggregates
  <2>0. PICK i \in import : /\ Head(i.todo) \in Tiers
                            /\ LET t == Head(i.todo)
                                   v == Refreshed(view[t], refreshWindowFor(i.rows))
                               IN  /\ view' = [view EXCEPT ![t] = v]
                                   /\ missed' = [missed EXCEPT ![t] =
                                        @ \cup (view[t].rows \ v.rows) \cup (i.rows \ raw)]
                            /\ import' = IF Len(i.todo) > 1 THEN {[i EXCEPT !.todo = Tail(@)]} ELSE {}
                            /\ UNCHANGED <<now, raw, ever, excused>>
    BY <1>3 DEF RefreshAggregates
  <2>1. PICK t, days :
          /\ t \in Tiers /\ t = Head(i.todo) /\ days = refreshWindowFor(i.rows)
          /\ view' = [view EXCEPT ![t] = Refreshed(view[t], days)]
          /\ missed' = [missed EXCEPT ![t] =
               @ \cup (view[t].rows \ Refreshed(view[t], days).rows) \cup (i.rows \ raw)]
          /\ import' = IF Len(i.todo) > 1 THEN {[i EXCEPT !.todo = Tail(@)]} ELSE {}
          /\ UNCHANGED <<now, raw, ever, excused>>
    BY <2>0
  <2>2. \A d \in days : d < now
    BY <1>1, <2>1 DEF refreshWindowFor, RawInv
  <2>3. ViewsAgree'
    BY <1>1, <2>1, <2>2, RefreshViewsAgree
  <2>4. missed' = [u \in Tiers |-> missed'[u]]
    BY <1>1, <2>1 DEF LossesTyped
  <2>5. ImportInv'
    <3>1. CASE Len(i.todo) > 1
      BY <1>1, <2>1, <3>1, ImportGoesOn
    <3>2. CASE ~(Len(i.todo) > 1)
      BY <2>1, <3>2 DEF ImportInv
    <3>. QED  BY <3>1, <3>2
  <2>. QED  BY <1>1, <2>1, <2>3, <2>4, <2>5 DEF DataInv, RawInv, LossesTyped
<1>4. CASE ImportFails
  <2>1. /\ import' = {} /\ missed' = [t \in Tiers |-> missed'[t]]
        /\ UNCHANGED <<now, raw, view, ever, excused>>
    BY <1>4 DEF ImportFails, db
  <2>. QED  BY <1>1, <2>1, SameViewsAgree DEF DataInv, RawInv, ImportInv, LossesTyped
<1>. QED  BY <1>2, <1>3, <1>4

LEMMA OtherData ==
  ASSUME Inv, DataInv,
         Start \/ StartStep \/ Started \/ Stop \/ PolicyJob \/ Tamper \/ NextDay \/ UNCHANGED vars
  PROVE  DataInv'
<1>1. ViewsOK /\ RawInv /\ ViewsAgree /\ ImportInv /\ LossesTyped
  BY DEF Inv, DataInv
<1>2. ASSUME UNCHANGED <<now, raw, view, ever, excused, import>>,
             missed' = [t \in Tiers |-> missed'[t]]
      PROVE  DataInv'
  BY <1>1, <1>2, SameViewsAgree, DataStays DEF LossesTyped
<1>3. CASE Start
  <2>1. UNCHANGED <<now, raw, view, ever, excused, import>>
    BY <1>3 DEF Start, db
  <2>2. missed' = [t \in Tiers |-> missed'[t]]
    BY <1>1, <1>3 DEF Start, LossesTyped
  <2>. QED  BY <1>2, <2>1, <2>2
<1>4. CASE StartStep
  <2>1. /\ todo \in Seq(Stmts) /\ todo # <<>> /\ Exec(Head(todo))
        /\ UNCHANGED <<now, raw, ever, missed, import>>
    BY <1>4 DEF StartStep, Inv
  <2>2. PICK op \in Ops, t \in Tiers : Head(todo) = Stmt(op, t)
    <3>1. Head(todo) \in Stmts
      BY <2>1
    <3>. QED  BY <3>1 DEF Stmts, Stmt
  <2>3. ViewsAgree' /\ excused' = [u \in Tiers |-> excused'[u]]
    BY <1>1, <2>1, <2>2, ExecData
  <2>. QED  BY <1>1, <2>1, <2>3, DataStays DEF LossesTyped
<1>5. CASE Started \/ Stop \/ UNCHANGED vars
  <2>1. UNCHANGED <<now, raw, view, ever, excused, missed, import>>
    BY <1>5 DEF Started, Stop, vars, db, history
  <2>. QED  BY <1>1, <1>2, <2>1 DEF LossesTyped
<1>6. CASE PolicyJob
  <2>1. PICK t, days :
          /\ t \in Tiers /\ days = Trailing(policyDays(t))
          /\ view' = [view EXCEPT ![t] = Refreshed(view[t], days)]
          /\ UNCHANGED <<now, raw, import, ever, excused, missed>>
    BY <1>6 DEF PolicyJob, history
  <2>2. \A d \in days : d < now
    BY <1>1, <2>1, TrailingIs DEF RawInv
  <2>3. ViewsAgree'
    BY <1>1, <2>1, <2>2, RefreshViewsAgree
  <2>. QED  BY <1>1, <2>1, <2>3, DataStays DEF LossesTyped
<1>7. CASE Tamper
  <2>1. PICK t, v :
          /\ t \in Tiers
          /\ v = NoView \/ v = NewView("old", oids + 1)
          /\ view' = [view EXCEPT ![t] = v] /\ Excuse(t, ever \ raw)
          /\ UNCHANGED <<now, raw, import, ever, missed>>
    BY <1>7 DEF Tamper, Drop
  <2>2. excused' = [u \in Tiers |-> excused'[u]]
    BY <1>1, <2>1 DEF Excuse, LossesTyped
  <2>3. v.shape # "none" => Agrees(v)
    BY <1>1, <2>1, NewViewAgrees DEF NoView
  <2>4. \A u \in Tiers : view'[u] = IF u = t THEN v ELSE view[u]
    BY <1>1, <2>1 DEF ViewsOK
  <2>5. ViewsAgree'
    BY <1>1, <2>1, <2>3, <2>4 DEF ViewsAgree, Exists, Agrees
  <2>. QED  BY <1>1, <2>1, <2>2, <2>5, DataStays DEF LossesTyped
<1>8. CASE NextDay
  <2>1. now' = now + 1 /\ UNCHANGED <<raw, view, import, ever, excused, missed>>
    BY <1>8 DEF NextDay, db, history
  <2>2. RawInv'
    BY <1>1, <2>1, SpansTyped DEF RawInv
  <2>3. ViewsAgree'
    BY <1>1, <2>1 DEF RawInv, ViewsAgree, Exists, Agrees
  <2>4. ImportInv'
    BY <1>1, <2>1 DEF RawInv, ImportInv
  <2>. QED  BY <1>1, <2>1, <2>2, <2>3, <2>4 DEF DataInv, LossesTyped
<1>. QED  BY <1>3, <1>4, <1>5, <1>6, <1>7, <1>8

LEMMA NextData ==
  ASSUME Inv, DataInv, [Next]_vars
  PROVE  DataInv'
BY TouchData, ImportStepData, OtherData DEF Next


-----------------------------------------------------------------------------
(* A tier keeps what it keeps: what a step takes away it books as lost.    *)
LEMMA KeptStep ==
  ASSUME NEW t \in Tiers, Kept(t), UNCHANGED now,
         excused[t] \subseteq excused'[t], missed[t] \subseteq missed'[t],
         \A r \in ever' : \/ r \in excused'[t] \cup missed'[t] \/ Held(r, t)'
                          \/ r \in ever /\ ~Held(r, t)
  PROVE  Kept(t)'
<1>. SUFFICES ASSUME NEW r \in Owed(t)' PROVE Held(r, t)'
  BY DEF Kept
<1>1. r \in ever' /\ r \notin excused'[t] \cup missed'[t]
  BY DEF Owed, Promised
<1>2. r \in ever => r \in Owed(t)
  BY DEF Owed, Promised, Trailing
<1>3. r \in ever => Held(r, t)
  BY <1>2 DEF Kept
<1>. QED  BY <1>1, <1>3

LEMMA NearSame ==
  ASSUME UNCHANGED now, NEW t
  PROVE  Near(t)' = Near(t)
BY DEF Near, Trailing, policyDays

(* Nothing but what was lost changes for view t.                           *)
LEMMA KeptSame ==
  ASSUME NEW t \in Tiers, Kept(t), UNCHANGED <<now, ever, import>>,
         view'[t].rows = view[t].rows,
         excused[t] \subseteq excused'[t], missed[t] \subseteq missed'[t]
  PROVE  Kept(t)'
<1>1. Pending(t)' = Pending(t)
  BY DEF Pending, ImportTodo
<1>2. \A r : Held(r, t)' <=> Held(r, t)
  BY <1>1, NearSame DEF Held
<1>. QED  BY <1>2, KeptStep

LEMMA AddKept ==
  ASSUME Inv, DataInv, AddResults, NEW t \in Tiers, Exists(t), Kept(t)
  PROVE  Kept(t)'
<1>1. PICK target \in Targets, day \in 1..now :
        LET r == [target |-> target, day |-> day] IN
          /\ ever' = ever \cup {r} /\ view' = Touch({r})
          /\ missed' = [u \in Tiers |-> missed[u] \cup
               IF ~Exists(u) \/ day \in Trailing(policyDays(u)) \cup {now} THEN {} ELSE {r}]
          /\ UNCHANGED <<now, import, excused>>
  BY DEF AddResults
<1>2. PICK r : r = [target |-> target, day |-> day]
  OBVIOUS
<1>3. /\ ever' = ever \cup {r} /\ r.day = day /\ view' = Touch({r})
      /\ missed'[t] = missed[t] \cup IF day \in Near(t) THEN {} ELSE {r}
      /\ UNCHANGED <<now, import, excused>>
  BY <1>1, <1>2 DEF Near
<1>4. view'[t].rows = view[t].rows
  BY <1>3, TouchIs DEF Inv
<1>5. Pending(t)' = Pending(t)
  BY <1>3 DEF Pending, ImportTodo
<1>6. \A q : Held(q, t)' <=> Held(q, t)
  BY <1>3, <1>4, <1>5, NearSame DEF Held
<1>7. r \in missed'[t] \/ Held(r, t)'
  <2>1. r.day \in Near(t) => Held(r, t)
    BY DEF Held
  <2>. QED  BY <2>1, <1>3, <1>6
<1>8. \A q \in ever' : \/ q \in excused'[t] \cup missed'[t] \/ Held(q, t)'
                       \/ q \in ever /\ ~Held(q, t)
  BY <1>3, <1>6, <1>7
<1>9. excused[t] \subseteq excused'[t] /\ missed[t] \subseteq missed'[t]
  BY <1>3
<1>. QED  BY <1>3, <1>8, <1>9, KeptStep

LEMMA ImportKept ==
  ASSUME Inv, DataInv, ImportSamples, NEW t \in Tiers, Kept(t)
  PROVE  Kept(t)'
<1>1. PICK i \in import :
        /\ Head(i.todo) = "insert" /\ view' = Touch(i.rows \ raw)
        /\ import' = {[i EXCEPT !.todo = Tail(@)]} /\ ever' = ever \cup i.rows
        /\ UNCHANGED <<now, excused, missed>>
  BY DEF ImportSamples
<1>2. i.todo \in ImportTodos /\ ImportInv
  BY DEF DataInv, ImportInv
<1>3. Len(i.todo) > 1 /\ Tail(i.todo) # <<"daily">> /\ i.todo # <<"daily">>
  BY <1>1, <1>2, ImportRest
<1>4. ImportInv' /\ \E j \in import' : j.rows = i.rows /\ j.todo = Tail(i.todo)
  BY <1>1, <1>2, <1>3, ImportGoesOn
<1>5. \A r : r \in Pending(t) <=> r \in i.rows
  BY <1>2, <1>3, PendingIs
<1>6. \A r : r \in Pending(t)' <=> r \in i.rows
  <2>1. \A j \in import' : \A r :
          r \in Pending(t)' <=> r \in j.rows /\ (t = "daily" \/ j.todo # <<"daily">>)
    BY <1>4, PendingNext
  <2>. QED  BY <1>3, <1>4, <2>1
<1>7. view'[t].rows = view[t].rows
  BY <1>1, TouchIs DEF Inv
<1>8. \A r : Held(r, t)' <=> Held(r, t)
  BY <1>1, <1>5, <1>6, <1>7, NearSame DEF Held
<1>9. \A r \in i.rows : Held(r, t)
  BY <1>5 DEF Held
<1>. QED  BY <1>1, <1>8, <1>9, KeptStep

(* A refresh goes over the days of its rounds but today.                   *)
LEMMA WindowIs ==
  ASSUME now \in Nat, NEW rows, \A r \in rows : r.day \in 1..now, NEW r \in rows, r.day # now
  PROVE  r.day \in refreshWindowFor(rows)
<1>. DEFINE days == {q.day : q \in rows}
<1>1. days \in SUBSET Nat /\ r.day \in days /\ \A d \in days : d <= now
  OBVIOUS
<1>. HIDE DEF days
<1>2. r.day <= Max(days) /\ Min(days) <= r.day
  BY <1>1, MaxIs, MinIs
<1>3. r.day \in 1..(now - 1)
  OBVIOUS
<1>. QED  BY <1>2, <1>3 DEF refreshWindowFor, days

LEMMA RefreshKept ==
  ASSUME Inv, DataInv, RefreshAggregates, NEW t \in Tiers, Exists(t), Kept(t)
  PROVE  Kept(t)'
<1>1. PICK i \in import :
        /\ Head(i.todo) \in Tiers
        /\ LET u == Head(i.todo)
               v == Refreshed(view[u], refreshWindowFor(i.rows))
           IN  /\ view' = [view EXCEPT ![u] = v]
               /\ missed' = [missed EXCEPT ![u] =
                    @ \cup (view[u].rows \ v.rows) \cup (i.rows \ raw)]
        /\ import' = IF Len(i.todo) > 1 THEN {[i EXCEPT !.todo = Tail(@)]} ELSE {}
        /\ UNCHANGED <<now, raw, ever, excused>>
  BY DEF RefreshAggregates
<1>2. PICK u \in Tiers : u = Head(i.todo)
  BY <1>1
<1>3. PICK v : v = Refreshed(view[u], refreshWindowFor(i.rows))
  OBVIOUS
<1>4. /\ view' = [view EXCEPT ![u] = v]
      /\ missed' = [missed EXCEPT ![u] = @ \cup (view[u].rows \ v.rows) \cup (i.rows \ raw)]
  BY <1>1, <1>2, <1>3
<1>5. /\ \A w \in Tiers : view'[w] = IF w = u THEN v ELSE view[w]
      /\ \A w \in Tiers : missed'[w] = IF w = u
           THEN missed[u] \cup (view[u].rows \ v.rows) \cup (i.rows \ raw) ELSE missed[w]
  BY <1>4 DEF Inv, ViewsOK, DataInv, LossesTyped
<1>6. i.todo \in ImportTodos /\ ImportInv /\ \A r \in i.rows : r.day \in 1..now
  BY DEF DataInv, ImportInv
<1>7. \A r : r \in Pending(t) <=> r \in i.rows /\ (t = "daily" \/ i.todo # <<"daily">>)
  BY <1>6, PendingIs
<1>8. t # u => \A r \in Pending(t) : r \in Pending(t)'
  <2>. SUFFICES ASSUME t # u, NEW r \in Pending(t) PROVE r \in Pending(t)'
    OBVIOUS
  <2>1. u = "hourly" /\ t = "daily"
    <3>1. u = "daily" => i.todo = <<"daily">>
      BY <1>2, <1>6, ImportRest
    <3>. QED  BY <1>7, <3>1 DEF Tiers
  <2>2. Len(i.todo) > 1
    BY <1>2, <1>6, <2>1, ImportRest
  <2>3. ImportInv' /\ \E j \in import' : j.rows = i.rows
    BY <1>1, <1>6, <2>2, ImportGoesOn
  <2>4. \A j \in import' : \A q : q \in Pending(t)' <=> q \in j.rows
    BY <2>1, <2>3, PendingNext
  <2>. QED  BY <1>7, <2>3, <2>4
<1>9. ASSUME t # u PROVE Kept(t)'
  <2>1. view'[t] = view[t] /\ missed'[t] = missed[t]
    BY <1>5, <1>9
  <2>2. \A r : Held(r, t) => Held(r, t)'
    BY <1>1, <1>8, <1>9, <2>1, NearSame DEF Held
  <2>. QED  BY <1>1, <2>1, <2>2, KeptStep
<1>10. ASSUME t = u PROVE Kept(t)'
  <2>1. /\ \A r : r \in v.rows <=> IF r.day \in view[t].dirty \cap refreshWindowFor(i.rows)
                                   THEN r \in raw ELSE r \in view[t].rows
    BY <1>3, <1>10, RefreshedIs DEF Inv, ViewsOK
  <2>2. missed'[t] = missed[t] \cup (view[t].rows \ v.rows) \cup (i.rows \ raw)
    BY <1>5, <1>10
  <2>3. view'[t] = v
    BY <1>5, <1>10
  <2>4. ASSUME NEW r, Held(r, t) PROVE r \in missed'[t] \/ Held(r, t)'
    <3>1. CASE r \in view[t].rows
      BY <2>2, <2>3, <3>1 DEF Held
    <3>2. CASE r.day \in Near(t)
      BY <1>1, <3>2, NearSame DEF Held
    <3>3. CASE r \in i.rows /\ r \in raw /\ r.day # now
      <4>1. r.day \in refreshWindowFor(i.rows)
        BY <1>6, <3>3, WindowIs DEF DataInv, RawInv
      <4>2. r.day \in view[t].dirty => r \in v.rows
        BY <2>1, <3>3, <4>1
      <4>3. r.day \notin view[t].dirty => r \in view[t].rows
        BY <3>3 DEF DataInv, ViewsAgree, Agrees
      <4>. QED  BY <2>2, <2>3, <4>2, <4>3 DEF Held
    <3>4. CASE r \in i.rows /\ r \notin raw
      BY <2>2, <3>4
    <3>. QED  BY <1>7, <2>4, <3>1, <3>2, <3>3, <3>4 DEF Held, Near
  <2>. QED  BY <1>1, <2>2, <2>4, KeptStep
<1>. QED  BY <1>9, <1>10


LEMMA FailKept ==
  ASSUME DataInv, ImportFails, NEW t \in Tiers, Kept(t)
  PROVE  Kept(t)'
<1>1. PICK i \in import :
        /\ import' = {}
        /\ missed' = [u \in Tiers |-> missed[u] \cup
             IF ImportTodo(i, u) THEN {r \in i.rows : r.day \notin Near(u)} ELSE {}]
        /\ UNCHANGED <<now, view, ever, excused>>
  BY DEF ImportFails, db, Near
<1>2. missed'[t] = missed[t] \cup
        IF ImportTodo(i, t) THEN {r \in i.rows : r.day \notin Near(t)} ELSE {}
  BY <1>1
<1>3. \A r : r \in Pending(t) <=> ImportTodo(i, t) /\ r \in i.rows
  BY DEF Pending, DataInv, ImportInv
<1>4. \A r : Held(r, t) => r \in missed'[t] \/ Held(r, t)'
  <2>. SUFFICES ASSUME NEW r, Held(r, t) PROVE r \in missed'[t] \/ Held(r, t)'
    OBVIOUS
  <2>1. CASE r \in view[t].rows \/ r.day \in Near(t)
    BY <1>1, <2>1, NearSame DEF Held
  <2>2. CASE r \in Pending(t) /\ r.day \notin Near(t)
    BY <1>2, <1>3, <2>2
  <2>. QED  BY <2>1, <2>2 DEF Held
<1>. QED  BY <1>1, <1>2, <1>4, KeptStep

LEMMA StartImportKept ==
  ASSUME StartImport, NEW t \in Tiers, Kept(t)
  PROVE  Kept(t)'
<1>1. import = {} /\ UNCHANGED <<now, view, ever, excused, missed>>
  BY DEF StartImport, db, history
<1>2. Pending(t) = {}
  BY <1>1 DEF Pending
<1>3. \A r : Held(r, t) => Held(r, t)'
  BY <1>1, <1>2, NearSame DEF Held
<1>. QED  BY <1>1, <1>3, KeptStep

(* A policy's job takes away nothing but rows of the days it looks after.  *)
LEMMA PolicyKept ==
  ASSUME Inv, PolicyJob, NEW t \in Tiers, Kept(t)
  PROVE  Kept(t)'
<1>1. PICK u \in Tiers :
        /\ view' = [view EXCEPT ![u] = Refreshed(view[u], Trailing(policyDays(u)))]
        /\ UNCHANGED <<now, import, ever, excused, missed>>
  BY DEF PolicyJob, history
<1>2. view'[t] = IF t = u THEN Refreshed(view[t], Trailing(policyDays(t))) ELSE view[t]
  BY <1>1 DEF Inv, ViewsOK
<1>3. \A r : r \in Refreshed(view[t], Trailing(policyDays(t))).rows <=>
               IF r.day \in view[t].dirty \cap Trailing(policyDays(t)) THEN r \in raw
               ELSE r \in view[t].rows
  BY RefreshedIs DEF Inv, ViewsOK
<1>4. \A r : r \in view[t].rows => r \in view'[t].rows \/ r.day \in Near(t)
  BY <1>2, <1>3 DEF Near
<1>5. Pending(t)' = Pending(t)
  BY <1>1 DEF Pending, ImportTodo
<1>6. \A r : Held(r, t) => Held(r, t)'
  BY <1>1, <1>4, <1>5, NearSame DEF Held
<1>. QED  BY <1>1, <1>6, KeptStep

LEMMA RetentionKept ==
  ASSUME Inv, RetentionJob, NEW t \in Tiers, Kept(t)
  PROVE  Kept(t)'
<1>1. /\ \E gone : view' = Touch(gone)
      /\ UNCHANGED <<now, import, ever, excused, missed>>
  BY DEF RetentionJob, history
<1>2. view'[t].rows = view[t].rows
  BY <1>1, TouchIs DEF Inv
<1>. QED  BY <1>1, <1>2, KeptSame

(* The jobs have run when a day is over: what leaves the span of a tier's  *)
(* policy is in its buckets.                                               *)
LEMMA DayKept ==
  ASSUME DataInv, NextDay, NEW t \in Tiers, Exists(t), view[t].policy, Kept(t)
  PROVE  Kept(t)'
<1>1. /\ import = {} /\ view[t].dirty \cap Trailing(policyDays(t)) = {}
      /\ now' = now + 1 /\ UNCHANGED <<view, raw, import, ever, excused, missed>>
  BY DEF NextDay, db, history
<1>2. /\ now \in Nat \ {0} /\ \A r \in ever : r.day \in 1..now /\ (r \in raw \/ r.day + RawDays < now)
      /\ \A r \in raw : r.day \notin view[t].dirty => r \in view[t].rows
  BY DEF DataInv, RawInv, ViewsAgree, Agrees
<1>3. policyDays(t) \in Nat /\ 2 <= policyDays(t) /\ policyDays(t) <= RawDays
  BY SpansTyped DEF policyDays
<1>. SUFFICES ASSUME NEW r \in Owed(t)' PROVE Held(r, t)'
  BY DEF Kept
<1>4. r \in ever /\ r.day \in Nat /\ 1 <= r.day /\ r.day <= now
  BY <1>1, <1>2 DEF Owed, Promised
<1>5. r \in Owed(t)
  <2>1. t = "hourly" => r.day \in Trailing(HourlyBackfill) \cup {now}
    <3>. SUFFICES ASSUME t = "hourly", r.day # now PROVE r.day \in Trailing(HourlyBackfill)
      OBVIOUS
    <3>1. (r.day \in Trailing(HourlyBackfill) \cup {now})'
      BY DEF Owed, Promised
    <3>2. r.day \in 1..(now' - 1) /\ r.day + HourlyBackfill > now'
      BY <1>1, <1>2, <1>4, <3>1 DEF Trailing
    <3>. QED  BY <1>1, <1>2, <1>4, <3>2, TrailingIs, SpansTyped
  <2>. QED  BY <1>1, <1>4, <2>1 DEF Owed, Promised
<1>6. r \in view[t].rows \/ r.day \in Near(t)
  <2>1. Pending(t) = {}
    BY <1>1 DEF Pending
  <2>. QED  BY <1>5, <2>1 DEF Kept, Held
<1>7. CASE r \in view[t].rows
  BY <1>1, <1>7 DEF Held
<1>8. CASE r.day = now
  <2>1. r.day \in 1..(now' - 1) /\ r.day + policyDays(t) > now'
    BY <1>1, <1>2, <1>3, <1>8
  <2>2. r.day \in Near(t)'
    BY <2>1 DEF Near, Trailing, policyDays
  <2>. QED  BY <2>2 DEF Held
<1>9. CASE r.day \in Trailing(policyDays(t))
  <2>1. r.day + policyDays(t) > now
    BY <1>2, <1>9, TrailingIs
  <2>2. r \in raw
    BY <1>2, <1>3, <1>4, <2>1, SpansTyped
  <2>3. r \in view[t].rows
    BY <1>1, <1>2, <1>9, <2>2
  <2>. QED  BY <1>1, <2>3 DEF Held
<1>. QED  BY <1>6, <1>7, <1>8, <1>9 DEF Near

-----------------------------------------------------------------------------
(* A view in use keeps what it owes; one that a start found and is to      *)
(* drop, or has created and not filled, need not yet.                      *)
NoDrops == \A m \in 1..Len(todo) : \A u \in Tiers : ~At(m, "drop", u)

Idle(t) ==
  Exists(t) =>
    \/ view[t].shape # "current" \/ halfway \/ (t = "hourly" /\ ~Exists("daily"))
    \/ view[t].policy /\ Kept(t)

(* It is created, given its policy and filled, in this order.              *)
Rebuild(t) ==
  \E j, p, k \in 1..Len(todo) :
    /\ j < p /\ p < k
    /\ At(j, "create", t) /\ At(p, "policy", t) /\ At(k, "backfill", t)
    /\ \A m \in 1..Len(todo) : /\ \A u \in Tiers : At(m, "drop", u) => m < j
                               /\ At(m, "create", t) => m = j

Dropping(t) ==
  /\ Idle(t) /\ Rebuild(t)
  /\ \E i \in 1..Len(todo) :
       At(i, "drop", t) /\ \A j \in 1..i : \E u \in Tiers : At(j, "drop", u)

Filled(t) ==
  /\ \E k \in 1..Len(todo) :
       /\ At(k, "backfill", t)
       /\ view[t].policy \/ \E p \in 1..(k - 1) : At(p, "policy", t)
  /\ t = "daily" => Kept(t) /\ Exists("hourly")

Booting(t) ==
  \/ Dropping(t)
  \/ ~Exists(t) /\ Rebuild(t)
  \/ Exists(t) /\ NoDrops /\ Kept(t) /\ (view[t].policy \/ halfway)
  \/ Exists(t) /\ NoDrops /\ Filled(t)

(* The hourly view is there before the daily one is created.               *)
HourlyFirst ==
  \/ Exists("hourly") /\ NoDrops
  \/ \E i \in 1..Len(todo) :
       /\ At(i, "create", "hourly")
       /\ \A m \in 1..Len(todo) : /\ \A u \in Tiers : At(m, "drop", u) => m < i
                                  /\ At(m, "create", "daily") => i < m

KeepInv ==
  /\ hub # "boot" => \A t \in Tiers : Idle(t)
  /\ hub = "boot" => HourlyFirst /\ \A t \in Tiers : Booting(t)
  /\ enabled => \A t \in Tiers : Kept(t)

LEMMA InitKeep == Init => KeepInv /\ DataInv
<1>. SUFFICES ASSUME Init PROVE KeepInv /\ DataInv
  OBVIOUS
<1>1. /\ now = 1 /\ raw = {} /\ ever = {} /\ import = {} /\ hub = "down" /\ ~enabled
      /\ excused = [t \in Tiers |-> {}] /\ missed = [t \in Tiers |-> {}]
  BY DEF Init
<1>2. PICK older \in BOOLEAN :
        view = [t \in Tiers |->
          IF ~older THEN NoView
          ELSE [NewView("old", IF t = "hourly" THEN 1 ELSE 2) EXCEPT !.policy = TRUE]]
  BY DEF Init
<1>3. \A t \in Tiers :
        /\ view[t].shape \in {"none", "old"}
        /\ Exists(t) => Agrees(view[t])
  <2>. SUFFICES ASSUME NEW t \in Tiers
                PROVE  view[t].shape \in {"none", "old"} /\ (Exists(t) => Agrees(view[t]))
    OBVIOUS
  <2>1. CASE ~older
    <3>1. view[t] = NoView /\ NoView.shape = "none"
      BY <1>2, <2>1 DEF NoView
    <3>. QED  BY <3>1 DEF Exists
  <2>2. CASE older
    <3>1. PICK o, dirty :
            view[t] = [[NoView EXCEPT !.shape = "old", !.oid = o, !.dirty = dirty]
                         EXCEPT !.policy = TRUE]
      BY <1>2, <2>2 DEF NewView
    <3>2. view[t] = [shape |-> "old", oid |-> o, rows |-> {}, dirty |-> dirty,
                     mark |-> 0, policy |-> TRUE]
      BY <3>1 DEF NoView
    <3>3. PICK v : v = view[t]
      OBVIOUS
    <3>4. v.shape = "old" /\ v.rows = {} /\ v.mark = 0
      BY <3>2, <3>3
    <3>5. Agrees(v)
      BY <1>1, <3>4 DEF Agrees
    <3>. QED  BY <3>3, <3>4, <3>5
  <2>. QED  BY <2>1, <2>2
<1>4. DataInv
  BY <1>1, <1>3 DEF DataInv, RawInv, ViewsAgree, ImportInv, LossesTyped
<1>5. KeepInv
  BY <1>1, <1>3 DEF KeepInv, Idle
<1>. QED  BY <1>4, <1>5


LEMMA QuietKeeps ==
  ASSUME Inv, KeepInv, SameViews, UNCHANGED <<todo, hub, halfway, enabled>>,
         \A t \in Tiers : Exists(t) /\ Kept(t) /\ (hub = "boot" \/ view[t].policy) => Kept(t)'
  PROVE  KeepInv'
<1>1. /\ \A t \in Tiers : /\ Exists(t)' <=> Exists(t)
                          /\ view'[t].shape = view[t].shape /\ view'[t].policy = view[t].policy
      /\ \A i, op, t : At(i, op, t)' <=> At(i, op, t)
      /\ "hourly" \in Tiers /\ "daily" \in Tiers
  BY DEF SameViews, Same, Exists, At, Tiers
<1>2. /\ NoDrops' <=> NoDrops
      /\ \A t \in Tiers : Rebuild(t)' <=> Rebuild(t)
      /\ HourlyFirst => HourlyFirst'
  BY <1>1 DEF NoDrops, Rebuild, HourlyFirst
<1>3. ASSUME NEW t \in Tiers, Idle(t) PROVE Idle(t)'
  BY <1>1, <1>3 DEF Idle
<1>4. ASSUME NEW t \in Tiers, hub = "boot", Booting(t) PROVE Booting(t)'
  <2>1. Exists(t) /\ Kept(t) => Kept(t)'
    BY <1>4
  <2>2. CASE Dropping(t)
    <3>1. Idle(t)' /\ Rebuild(t)'
      BY <1>2, <1>3, <2>2 DEF Dropping
    <3>2. \E i \in 1..Len(todo) :
            At(i, "drop", t) /\ \A j \in 1..i : \E u \in Tiers : At(j, "drop", u)
      BY <2>2 DEF Dropping
    <3>3. Dropping(t)'
      BY <1>1, <3>1, <3>2 DEF Dropping
    <3>. QED  BY <3>3 DEF Booting
  <2>3. CASE ~Exists(t) /\ Rebuild(t)
    BY <1>1, <1>2, <2>3 DEF Booting
  <2>4. CASE Exists(t) /\ NoDrops /\ Kept(t) /\ (view[t].policy \/ halfway)
    BY <1>1, <1>2, <2>1, <2>4 DEF Booting
  <2>5. CASE Exists(t) /\ NoDrops /\ Filled(t)
    <3>1. Filled(t)'
      BY <1>1, <2>1, <2>5 DEF Filled
    <3>. QED  BY <1>1, <1>2, <2>5, <3>1 DEF Booting
  <2>. QED  BY <1>4, <2>2, <2>3, <2>4, <2>5 DEF Booting
<1>5. enabled => \A t \in Tiers : Exists(t) /\ view[t].policy
  BY DEF Inv, Serves, Exists
<1>6. enabled' => \A t \in Tiers : Kept(t)'
  BY <1>5 DEF KeepInv
<1>. QED  BY <1>2, <1>3, <1>4, <1>6 DEF KeepInv

(* A start goes on: the lists, and who keeps what, by the first statement. *)
LEMMA BootKeeps ==
  ASSUME todo \in Seq(Stmts), todo # <<>>, todo' = Tail(todo), UNCHANGED halfway,
         NEW op \in Ops, NEW u \in Tiers, Effect(op, u),
         HourlyFirst, \A t \in Tiers : Booting(t),
         \A t \in Tiers : Exists(t) /\ Kept(t) /\ ~(t = u /\ op = "drop") => Kept(t)',
         op = "create" /\ u = "daily" /\ ~Exists(u) => Kept(u)',
         op = "backfill" /\ u = "hourly" /\ Exists(u) => Kept(u)'
  PROVE  HourlyFirst' /\ \A t \in Tiers : Booting(t)'
<1>. DEFINE L == Len(todo)
<1>1. /\ L \in Nat /\ Len(todo') = L - 1 /\ L >= 1
      /\ \A i \in Nat \ {0} : \A o, v : At(i, o, v)' <=> At(i + 1, o, v)
      /\ \A i, o, v : At(i, o, v) => i \in 1..L
  BY NextStatement DEF At, Effect
<1>2. ASSUME NEW o, NEW v, At(1, o, v) PROVE o = op /\ v = u
  <2>1. Stmt(o, v) = Stmt(op, u)
    BY <1>2 DEF At, Effect
  <2>. QED  BY <2>1, StmtsDiffer
<1>3. /\ "hourly" \in Tiers /\ "daily" \in Tiers
      /\ \A t \in Tiers : t # "daily" => t = "hourly"
  BY DEF Tiers
<1>4. NoDrops => NoDrops' /\ op # "drop"
  BY <1>1 DEF NoDrops, Effect, L
<1>5. \A t \in Tiers :
        /\ Exists(t) /\ ~(t = u /\ op = "drop") => Exists(t)'
        /\ ~Exists(t) /\ ~(t = u /\ op = "create") => ~Exists(t)'
        /\ t = u /\ op = "create" => Exists(t)'
        /\ t = u /\ op = "drop" => ~Exists(t)'
  BY DEF Effect, Same, Exists
<1>6. \A t \in Tiers : /\ view[t].policy /\ op # "drop" /\ Exists(t) => view'[t].policy
                       /\ t = u /\ op = "policy" => view'[t].policy
                       /\ t # u => view'[t].policy = view[t].policy
  BY DEF Effect, Same
<1>. HIDE DEF L
<1>7. ASSUME NEW t \in Tiers, Rebuild(t), ~(t = u /\ op = "create") PROVE Rebuild(t)'
  <2>1. PICK j \in 1..L, p \in 1..L, k \in 1..L :
          /\ j < p /\ p < k
          /\ At(j, "create", t) /\ At(p, "policy", t) /\ At(k, "backfill", t)
          /\ \A m \in 1..L : /\ \A v \in Tiers : At(m, "drop", v) => m < j
                             /\ At(m, "create", t) => m = j
    BY <1>7 DEF Rebuild, L
  <2>2. j # 1
    BY <1>2, <1>7, <2>1
  <2>3. PICK a, b, c : a = j - 1 /\ b = p - 1 /\ c = k - 1
    OBVIOUS
  <2>4. a \in 1..Len(todo') /\ b \in 1..Len(todo') /\ c \in 1..Len(todo') /\ a < b /\ b < c
        /\ a + 1 = j /\ b + 1 = p /\ c + 1 = k
    BY <1>1, <2>1, <2>2, <2>3
  <2>5. At(a, "create", t)' /\ At(b, "policy", t)' /\ At(c, "backfill", t)'
    BY <1>1, <2>1, <2>4
  <2>6. ASSUME NEW m \in 1..Len(todo')
        PROVE  /\ \A v \in Tiers : At(m, "drop", v)' => m < a
               /\ At(m, "create", t)' => m = a
    <3>1. m + 1 \in 1..L /\ m \in Nat \ {0}
      BY <1>1
    <3>2. /\ \A v \in Tiers : At(m + 1, "drop", v) => m + 1 < j
          /\ At(m + 1, "create", t) => m + 1 = j
      BY <2>1, <3>1
    <3>. QED  BY <1>1, <2>4, <3>1, <3>2
  <2>. QED  BY <2>4, <2>5, <2>6 DEF Rebuild
<1>8. ASSUME NEW t \in Tiers, ~Exists(t), Rebuild(t), t = u, op = "create"
      PROVE  Exists(t)' /\ NoDrops' /\ Filled(t)'
  <2>1. PICK j \in 1..L, p \in 1..L, k \in 1..L :
          /\ j < p /\ p < k
          /\ At(j, "create", t) /\ At(p, "policy", t) /\ At(k, "backfill", t)
          /\ \A m \in 1..L : /\ \A v \in Tiers : At(m, "drop", v) => m < j
                             /\ At(m, "create", t) => m = j
    BY <1>8 DEF Rebuild, L
  <2>2. At(1, "create", t) /\ 1 \in 1..L
    BY <1>1, <1>8 DEF Effect
  <2>3. j = 1
    BY <2>1, <2>2
  <2>4. NoDrops'
    BY <1>1, <2>1, <2>3 DEF NoDrops
  <2>5. PICK b, c : b = p - 1 /\ c = k - 1
    OBVIOUS
  <2>6. c \in 1..Len(todo') /\ b \in 1..(c - 1) /\ b + 1 = p /\ c + 1 = k /\ b \in Nat \ {0}
    BY <1>1, <2>1, <2>3, <2>5
  <2>7. At(b, "policy", t)' /\ At(c, "backfill", t)'
    BY <1>1, <2>1, <2>6
  <2>8. t = "daily" => Kept(t)' /\ Exists("hourly")'
    <3>. SUFFICES ASSUME t = "daily" PROVE Kept(t)' /\ Exists("hourly")'
      OBVIOUS
    <3>1. Exists("hourly")
      BY <1>1, <2>2 DEF HourlyFirst, L
    <3>. QED  BY <1>3, <1>5, <1>8, <3>1
  <2>. QED  BY <1>5, <1>8, <2>4, <2>6, <2>7, <2>8 DEF Filled
<1>9. ASSUME NEW t \in Tiers, Exists(t), NoDrops, Filled(t)
      PROVE  Filled(t)' \/ (Kept(t)' /\ view'[t].policy)
  <2>1. PICK k \in 1..L : /\ At(k, "backfill", t)
                          /\ view[t].policy \/ \E p \in 1..(k - 1) : At(p, "policy", t)
    BY <1>9 DEF Filled, L
  <2>2. t = "daily" => Kept(t) /\ Exists("hourly")
    BY <1>9 DEF Filled
  <2>3. t = "daily" => Kept(t)' /\ Exists("hourly")'
    BY <1>3, <1>4, <1>5, <1>9, <2>2
  <2>4. CASE k = 1
    <3>1. op = "backfill" /\ u = t /\ view[t].policy
      BY <1>2, <2>1, <2>4
    <3>2. Kept(t)'
      BY <1>3, <1>9, <2>3, <3>1
    <3>. QED  BY <1>6, <1>9, <3>1, <3>2
  <2>5. CASE k # 1
    <3>1. PICK c : c = k - 1
      OBVIOUS
    <3>2. c \in 1..Len(todo') /\ c + 1 = k /\ c \in Nat \ {0}
      BY <1>1, <2>1, <2>5, <3>1
    <3>3. At(c, "backfill", t)'
      BY <1>1, <2>1, <3>2
    <3>4. view'[t].policy \/ \E p \in 1..(c - 1) : At(p, "policy", t)'
      <4>1. CASE view[t].policy
        BY <1>4, <1>6, <1>9, <4>1
      <4>2. ASSUME NEW p \in 1..(k - 1), At(p, "policy", t)
            PROVE  view'[t].policy \/ \E q \in 1..(c - 1) : At(q, "policy", t)'
        <5>1. CASE p = 1
          BY <1>2, <1>6, <4>2, <5>1
        <5>2. CASE p # 1
          <6>1. PICK q : q = p - 1
            OBVIOUS
          <6>2. q \in 1..(c - 1) /\ q + 1 = p /\ q \in Nat \ {0}
            BY <1>1, <2>1, <3>1, <5>2, <6>1
          <6>3. At(q, "policy", t)'
            BY <1>1, <4>2, <6>2
          <6>. QED  BY <6>2, <6>3
        <5>. QED  BY <5>1, <5>2
      <4>. QED  BY <2>1, <4>1, <4>2
    <3>. QED  BY <2>3, <3>2, <3>3, <3>4 DEF Filled
  <2>. QED  BY <2>4, <2>5
<1>10. ASSUME NEW t \in Tiers, Dropping(t), ~(t = u /\ op = "drop") PROVE Dropping(t)'
  <2>1. PICK i \in 1..L : At(i, "drop", t) /\ \A j \in 1..i : \E v \in Tiers : At(j, "drop", v)
    BY <1>10 DEF Dropping, L
  <2>2. op = "drop" /\ t # u
    <3>1. \E v \in Tiers : At(1, "drop", v)
      BY <2>1
    <3>. QED  BY <1>2, <1>10, <3>1
  <2>3. i # 1
    BY <1>2, <2>1, <2>2
  <2>4. PICK a : a = i - 1
    OBVIOUS
  <2>5. a \in 1..Len(todo') /\ a + 1 = i /\ a \in Nat \ {0}
    BY <1>1, <2>1, <2>3, <2>4
  <2>6. At(a, "drop", t)' /\ \A j \in 1..a : \E v \in Tiers : At(j, "drop", v)'
    BY <1>1, <2>1, <2>5
  <2>7. Rebuild(t)'
    BY <1>7, <1>10, <2>2 DEF Dropping
  <2>8. Idle(t)'
    <3>1. view'[t].shape = view[t].shape /\ view'[t].policy = view[t].policy
      BY <2>2 DEF Effect, Same
    <3>2. ~Exists("daily") => ~Exists("daily")'
      BY <1>3, <1>5, <2>2
    <3>3. Idle(t) /\ (Exists(t) /\ Kept(t) => Kept(t)')
      BY <1>10, <2>2 DEF Dropping
    <3>. QED  BY <3>1, <3>2, <3>3 DEF Idle, Exists
  <2>. QED  BY <2>5, <2>6, <2>7, <2>8 DEF Dropping
<1>11. ASSUME NEW t \in Tiers PROVE Booting(t)'
  <2>1. CASE Dropping(t)
    <3>1. CASE t = u /\ op = "drop"
      BY <1>5, <1>7, <2>1, <3>1 DEF Dropping, Booting
    <3>2. CASE ~(t = u /\ op = "drop")
      BY <1>10, <2>1, <3>2 DEF Booting
    <3>. QED  BY <3>1, <3>2
  <2>2. CASE ~Exists(t) /\ Rebuild(t)
    <3>1. CASE t = u /\ op = "create"
      BY <1>8, <2>2, <3>1 DEF Booting
    <3>2. CASE ~(t = u /\ op = "create")
      BY <1>5, <1>7, <2>2, <3>2 DEF Booting
    <3>. QED  BY <3>1, <3>2
  <2>3. CASE Exists(t) /\ NoDrops /\ Kept(t) /\ (view[t].policy \/ halfway)
    <3>1. Exists(t)' /\ NoDrops' /\ Kept(t)' /\ (view'[t].policy \/ halfway')
      BY <1>4, <1>5, <1>6, <2>3
    <3>. QED  BY <3>1 DEF Booting
  <2>4. CASE Exists(t) /\ NoDrops /\ Filled(t)
    <3>1. Exists(t)' /\ NoDrops'
      BY <1>4, <1>5, <2>4
    <3>. QED  BY <1>9, <2>4, <3>1 DEF Booting
  <2>. QED  BY <2>1, <2>2, <2>3, <2>4 DEF Booting
<1>12. HourlyFirst'
  <2>1. CASE Exists("hourly") /\ NoDrops
    BY <1>3, <1>4, <1>5, <2>1 DEF HourlyFirst
  <2>2. ASSUME NEW i \in 1..L, At(i, "create", "hourly"),
               \A m \in 1..L : /\ \A v \in Tiers : At(m, "drop", v) => m < i
                               /\ At(m, "create", "daily") => i < m
        PROVE  HourlyFirst'
    <3>1. CASE i = 1
      <4>1. Exists("hourly")'
        BY <1>2, <1>3, <1>5, <2>2, <3>1
      <4>2. NoDrops'
        BY <1>1, <2>2, <3>1 DEF NoDrops
      <4>. QED  BY <4>1, <4>2 DEF HourlyFirst
    <3>2. CASE i # 1
      <4>1. PICK a : a = i - 1
        OBVIOUS
      <4>2. a \in 1..Len(todo') /\ a + 1 = i /\ a \in Nat \ {0}
        BY <1>1, <2>2, <3>2, <4>1
      <4>3. At(a, "create", "hourly")'
        BY <1>1, <2>2, <4>2
      <4>4. ASSUME NEW m \in 1..Len(todo')
            PROVE  /\ \A v \in Tiers : At(m, "drop", v)' => m < a
                   /\ At(m, "create", "daily")' => a < m
        <5>1. m + 1 \in 1..L /\ m \in Nat \ {0}
          BY <1>1
        <5>2. /\ \A v \in Tiers : At(m + 1, "drop", v) => m + 1 < i
              /\ At(m + 1, "create", "daily") => i < m + 1
          BY <2>2, <5>1
        <5>. QED  BY <1>1, <4>2, <5>1, <5>2
      <4>. QED  BY <4>2, <4>3, <4>4 DEF HourlyFirst
    <3>. QED  BY <3>1, <3>2
  <2>. QED  BY <2>1, <2>2 DEF HourlyFirst, L
<1>. QED  BY <1>11, <1>12


(* What a statement changes of the rows, and of what is owed.              *)
LEMMA ExecKept ==
  ASSUME Inv, DataInv, NEW op \in Ops, NEW u \in Tiers, Exec(Stmt(op, u)),
         UNCHANGED <<now, raw, ever, missed, import>>
  PROVE  /\ \A t \in Tiers : Exists(t) /\ Kept(t) /\ ~(t = u /\ op = "drop") => Kept(t)'
         /\ op = "create" /\ u = "daily" /\ ~Exists(u) => Kept(u)'
         /\ op = "backfill" /\ u = "hourly" /\ Exists(u) => Kept(u)'
<1>1. Stmt(op, u).op = op /\ Stmt(op, u).tier = u
  BY DEF Stmt
<1>2. ViewsOK /\ LossesTyped
  BY DEF Inv, DataInv
<1>3. ASSUME \E x : excused' = [excused EXCEPT ![u] = @ \cup x]
      PROVE  \A t \in Tiers : excused[t] \subseteq excused'[t]
  BY <1>2, <1>3 DEF LossesTyped
<1>4. ASSUME NEW t \in Tiers, Kept(t), view'[t].rows = view[t].rows, excused[t] \subseteq excused'[t]
      PROVE  Kept(t)'
  BY <1>4, KeptSame
<1>5. CASE op = "drop"
  <2>1. view' = [view EXCEPT ![u] = NoView] /\ Excuse(u, ever \ raw)
    BY <1>1, <1>5 DEF Exec, Drop
  <2>2. \A t \in Tiers : excused[t] \subseteq excused'[t]
    BY <1>3, <2>1 DEF Excuse
  <2>3. \A t \in Tiers : t # u => view'[t] = view[t]
    BY <1>2, <2>1 DEF ViewsOK
  <2>. QED  BY <1>4, <1>5, <2>2, <2>3
<1>6. CASE op = "create" /\ Exists(u)
  <2>1. view' = view /\ excused' = excused
    BY <1>1, <1>6 DEF Exec, Create
  <2>. QED  BY <1>4, <1>6, <2>1
<1>7. CASE op = "create" /\ ~Exists(u)
  <2>1. /\ view' = [view EXCEPT ![u] = NewView("current", oids + 1)]
        /\ Excuse(u, Old(Trailing(backfillDays(u))))
    BY <1>1, <1>7 DEF Exec, Create
  <2>2. \A t \in Tiers : excused[t] \subseteq excused'[t]
    BY <1>3, <2>1 DEF Excuse
  <2>3. \A t \in Tiers : t # u => view'[t] = view[t]
    BY <1>2, <2>1 DEF ViewsOK
  <2>4. ASSUME u = "daily" PROVE Kept(u)'
    <3>1. excused'[u] = excused[u] \cup {r \in ever : r.day \notin Near(u)}
      BY <1>2, <2>1, <2>4 DEF Excuse, Old, LossesTyped, Near, policyDays, backfillDays
    <3>. SUFFICES ASSUME NEW r \in Owed(u)' PROVE Held(r, u)'
      BY DEF Kept
    <3>2. r \in ever /\ r \notin excused'[u]
      BY DEF Owed, Promised
    <3>. QED  BY <3>1, <3>2, NearSame DEF Held
  <2>. QED  BY <1>4, <1>7, <2>2, <2>3, <2>4
<1>8. CASE op = "policy"
  <2>1. view' = [view EXCEPT ![u] = [view[u] EXCEPT !.policy = TRUE]] /\ excused' = excused
    BY <1>1, <1>8 DEF Exec
  <2>2. PICK v : v = view[u]
    OBVIOUS
  <2>3. v = [shape |-> v.shape, oid |-> v.oid, rows |-> v.rows, dirty |-> v.dirty,
             mark |-> v.mark, policy |-> v.policy]
    BY <1>2, <2>2 DEF ViewsOK, ViewOK
  <2>4. PICK w : w = [v EXCEPT !.policy = TRUE]
    OBVIOUS
  <2>5. w = [shape |-> v.shape, oid |-> v.oid, rows |-> v.rows, dirty |-> v.dirty,
             mark |-> v.mark, policy |-> TRUE]
    BY <2>3, <2>4
  <2>6. w.rows = v.rows
    BY <2>5
  <2>7. \A t \in Tiers : view'[t] = IF t = u THEN w ELSE view[t]
    BY <1>2, <2>1, <2>2, <2>4 DEF ViewsOK
  <2>. QED  BY <1>4, <1>8, <2>1, <2>2, <2>6, <2>7
<1>9. CASE op = "backfill"
  <2>1. PICK days : days = Trailing(backfillDays(u))
    OBVIOUS
  <2>2. /\ view' = [view EXCEPT ![u] = Refreshed(view[u], days)]
        /\ \E x : Excuse(u, x)
    BY <1>1, <1>9, <2>1 DEF Exec
  <2>3. \A t \in Tiers : excused[t] \subseteq excused'[t]
    BY <1>3, <2>2 DEF Excuse
  <2>4. \A t \in Tiers : view'[t] = IF t = u THEN Refreshed(view[u], days) ELSE view[t]
    BY <1>2, <2>2 DEF ViewsOK
  <2>5. \A r : r \in view'[u].rows <=>
                 IF r.day \in view[u].dirty \cap days THEN r \in raw ELSE r \in view[u].rows
    <3>1. ViewOK(view[u])
      BY <1>2 DEF ViewsOK
    <3>2. PICK v : v = Refreshed(view[u], days)
      OBVIOUS
    <3>3. \A r : r \in v.rows <=>
                   IF r.day \in view[u].dirty \cap days THEN r \in raw ELSE r \in view[u].rows
      BY <3>1, <3>2, RefreshedIs
    <3>4. view'[u] = v
      BY <2>4, <3>2
    <3>. QED  BY <3>3, <3>4
  <2>6. ASSUME u = "daily", Kept(u) PROVE Kept(u)'
    <3>1. days \subseteq Near(u)
      BY <2>1, <2>6 DEF Near, policyDays, backfillDays
    <3>2. Pending(u)' = Pending(u)
      BY DEF Pending, ImportTodo
    <3>3. \A r : Held(r, u) => Held(r, u)'
      BY <2>5, <3>1, <3>2, NearSame DEF Held
    <3>. QED  BY <2>3, <2>6, <3>3, KeptStep
  <2>7. ASSUME u = "hourly", Exists(u) PROVE Kept(u)'
    <3>. SUFFICES ASSUME NEW r \in Owed(u)', r.day # now PROVE Held(r, u)'
      BY DEF Kept, Held, Near
    <3>1. r \in ever /\ r.day \in Trailing(HourlyBackfill)
      BY <2>7 DEF Owed, Promised, Trailing
    <3>2. r.day \in days
      BY <2>1, <2>7, <3>1 DEF backfillDays
    <3>3. /\ now \in Nat /\ r.day \in Nat /\ (r \in raw \/ r.day + RawDays < now)
      BY <3>1 DEF DataInv, RawInv
    <3>4. r \in raw
      BY <3>1, <3>3, TrailingIs, SpansTyped
    <3>5. r.day \notin view[u].dirty => r \in view[u].rows
      BY <2>7, <3>4 DEF DataInv, ViewsAgree, Agrees
    <3>6. r \in view'[u].rows
      BY <2>5, <3>2, <3>4, <3>5
    <3>. QED  BY <3>6 DEF Held
  <2>. QED  BY <1>4, <1>9, <2>3, <2>4, <2>6, <2>7 DEF Tiers
<1>10. CASE op \in {"clear", "retain", "mark"}
  <2>1. view' = view /\ excused' = excused
    BY <1>1, <1>10 DEF Exec
  <2>. QED  BY <1>4, <1>10, <2>1
<1>. QED  BY <1>5, <1>6, <1>7, <1>8, <1>9, <1>10 DEF Ops

LEMMA StartStepKeeps ==
  ASSUME Inv, DataInv, KeepInv, StartStep
  PROVE  KeepInv'
<1>1. /\ hub = "boot" /\ todo \in Seq(Stmts) /\ todo # <<>> /\ Exec(Head(todo))
      /\ todo' = Tail(todo) /\ UNCHANGED <<now, raw, hub, enabled, import, ever, missed, halfway>>
  BY DEF Inv, StartStep
<1>2. PICK op \in Ops, u \in Tiers : Head(todo) = Stmt(op, u)
  <2>1. Head(todo) \in Stmts
    BY <1>1
  <2>. QED  BY <2>1 DEF Stmts, Stmt
<1>3. At(1, op, u)
  BY <1>1, <1>2 DEF At
<1>4. Effect(op, u)
  BY <1>1, <1>2, <1>3, StepViews DEF Inv, MarksInv
<1>5. /\ \A t \in Tiers : Exists(t) /\ Kept(t) /\ ~(t = u /\ op = "drop") => Kept(t)'
      /\ op = "create" /\ u = "daily" /\ ~Exists(u) => Kept(u)'
      /\ op = "backfill" /\ u = "hourly" /\ Exists(u) => Kept(u)'
  BY <1>1, <1>2, ExecKept
<1>6. HourlyFirst' /\ \A t \in Tiers : Booting(t)'
  BY <1>1, <1>4, <1>5, BootKeeps DEF KeepInv
<1>7. ~enabled
  BY <1>1 DEF Inv
<1>. QED  BY <1>1, <1>6, <1>7 DEF KeepInv

(* A start lays its list down as it finds the views.                       *)
LEMMA StartKeeps ==
  ASSUME Inv, DataInv, KeepInv, Start
  PROVE  KeepInv'
<1>1. /\ hub = "down" /\ ~enabled'
      /\ UNCHANGED <<now, view, import, ever, excused, halfway>>
      /\ \A t \in Tiers : Idle(t)
  BY DEF Start, Inv, KeepInv, db
<1>2. CASE hub' = "up"
  <2>1. UNCHANGED missed
    BY <1>2 DEF Start
  <2>2. \A t \in Tiers : Kept(t) => Kept(t)'
    BY <1>1, <2>1, KeptSame
  <2>3. \A t \in Tiers : Idle(t)'
    BY <1>1, <2>2 DEF Idle, Exists
  <2>. QED  BY <1>1, <1>2, <2>3 DEF KeepInv
<1>3. CASE hub' = "boot"
  <2>1. /\ todo' = EnableDownsampling
        /\ missed' = [t \in Tiers |-> missed[t] \cup
             {r \in Old(Trailing(policyDays(t))) \ view[t].rows : halfway}]
    BY <1>3 DEF Start
  <2>2. \A t \in Tiers :
          missed'[t] = missed[t] \cup {r \in Old(Trailing(policyDays(t))) \ view[t].rows : halfway}
    BY <2>1
  <2>3. \A t \in Tiers : Kept(t) => Kept(t)'
    BY <1>1, <2>2, KeptSame
  <2>4. ASSUME NEW t \in Tiers, halfway PROVE Kept(t)'
    <3>. SUFFICES ASSUME NEW r \in Owed(t)' PROVE Held(r, t)'
      BY DEF Kept
    <3>1. r \in ever /\ r \notin missed'[t]
      BY <1>1 DEF Owed, Promised
    <3>2. r \in view[t].rows \/ r.day \in Near(t)
      BY <2>2, <2>4, <3>1 DEF Old, Near
    <3>. QED  BY <1>1, <3>2, NearSame DEF Held
  <2>5. \A t \in Tiers : Idle(t)'
    BY <1>1, <2>3 DEF Idle, Exists
  <2>6. PICK n \in Nat :
          /\ todo' \in Seq(Stmts) /\ Fixed(n)'
          /\ n = Len(migrateAggregates)
          /\ \A i \in 1..n : todo'[i] = migrateAggregates[i]
          /\ ~aggregateExists \/ stale =>
               At(n + 8, "backfill", "hourly")' /\ At(n + 9, "backfill", "daily")'
    BY <2>1, StartList
  <2>7. /\ At(n + 1, "create", "hourly")' /\ At(n + 2, "policy", "hourly")'
        /\ At(n + 3, "create", "daily")' /\ At(n + 4, "policy", "daily")'
        /\ Len(todo') \in Nat /\ \A i, o, t : At(i, o, t)' => i \in 1..Len(todo')
    BY <2>6 DEF Fixed, At
  <2>7a. stale => /\ n = 3 /\ todo'[1] = Stmt("drop", "daily")
                  /\ todo'[2] = Stmt("drop", "hourly") /\ todo'[3] = Stmt("clear", "daily")
    <3>. SUFFICES ASSUME stale
                  PROVE  /\ n = 3 /\ todo'[1] = Stmt("drop", "daily")
                         /\ todo'[2] = Stmt("drop", "hourly") /\ todo'[3] = Stmt("clear", "daily")
      OBVIOUS
    <3>1. PICK q : q = migrateAggregates
      OBVIOUS
    <3>2. /\ Len(q) = 3 /\ q[1] = Stmt("drop", "daily") /\ q[2] = Stmt("drop", "hourly")
          /\ q[3] = Stmt("clear", "daily")
      BY <3>1, MigrateDrops
    <3>3. n = Len(q) /\ \A i \in 1..n : todo'[i] = q[i]
      BY <2>6, <3>1
    <3>4. 1 \in 1..n /\ 2 \in 1..n /\ 3 \in 1..n
      BY <3>2, <3>3
    <3>. QED  BY <3>2, <3>3, <3>4
  <2>8. \A i \in 1..n : todo'[i].op # "create" /\ (~stale => todo'[i].op # "drop")
    <3>1. CASE stale
      <4>1. /\ n = 3 /\ todo'[1] = Stmt("drop", "daily") /\ todo'[2] = Stmt("drop", "hourly")
            /\ todo'[3] = Stmt("clear", "daily")
        BY <2>7a, <3>1
      <4>. QED  BY <3>1, <4>1 DEF Stmt
    <3>2. CASE ~stale
      <4>1. \A i \in 1..n : \E t \in Tiers : todo'[i] = Stmt("mark", t)
        BY <2>6, <3>2, MigrateMarks
      <4>2. \A t : Stmt("mark", t).op = "mark"
        BY DEF Stmt
      <4>. QED  BY <4>1, <4>2
    <3>. QED  BY <3>1, <3>2
  <2>9. \A i \in 1..Len(todo') : \A t \in Tiers :
          /\ At(i, "drop", t)' => i <= n /\ stale
          /\ At(i, "create", t)' => (i = n + 1 /\ t = "hourly") \/ (i = n + 3 /\ t = "daily")
    <3>. SUFFICES ASSUME NEW i \in 1..Len(todo'), NEW t \in Tiers
                  PROVE  /\ At(i, "drop", t)' => i <= n /\ stale
                         /\ At(i, "create", t)' =>
                              (i = n + 1 /\ t = "hourly") \/ (i = n + 3 /\ t = "daily")
      OBVIOUS
    <3>1. /\ At(i, "drop", t)' => i <= n
          /\ At(i, "create", t)' /\ i > n =>
               (i = n + 1 /\ t = "hourly") \/ (i = n + 3 /\ t = "daily")
      BY <2>6, Positions
    <3>2. /\ At(i, "drop", t)' => todo'[i].op = "drop"
          /\ At(i, "create", t)' => todo'[i].op = "create"
      BY DEF At, Stmt
    <3>3. i <= n => i \in 1..n
      OBVIOUS
    <3>. QED  BY <2>6, <2>7, <2>8, <3>1, <3>2, <3>3
  <2>10. HourlyFirst'
    <3>1. n + 1 \in 1..Len(todo')
      BY <2>7
    <3>2. \A m \in 1..Len(todo') : /\ \A v \in Tiers : At(m, "drop", v)' => m < n + 1
                                   /\ At(m, "create", "daily")' => n + 1 < m
      BY <2>6, <2>9 DEF Tiers
    <3>. QED  BY <2>7, <3>1, <3>2 DEF HourlyFirst
  <2>11. ASSUME ~aggregateExists \/ stale, NEW t \in Tiers PROVE Rebuild(t)'
    <3>1. PICK j, p, k :
            /\ At(j, "create", t)' /\ At(p, "policy", t)' /\ At(k, "backfill", t)'
            /\ \/ t = "hourly" /\ j = n + 1 /\ p = n + 2 /\ k = n + 8
               \/ t = "daily" /\ j = n + 3 /\ p = n + 4 /\ k = n + 9
      BY <2>6, <2>7, <2>11 DEF Tiers
    <3>2. j \in 1..Len(todo') /\ p \in 1..Len(todo') /\ k \in 1..Len(todo') /\ j < p /\ p < k
      BY <2>6, <2>7, <3>1
    <3>3. \A m \in 1..Len(todo') : /\ \A v \in Tiers : At(m, "drop", v)' => m < j
                                   /\ At(m, "create", t)' => m = j
      BY <2>6, <2>9, <3>1
    <3>. QED  BY <3>1, <3>2, <3>3 DEF Rebuild
  <2>12. ASSUME NEW t \in Tiers PROVE Booting(t)'
    <3>1. CASE ~Exists(t)
      <4>1. ~aggregateExists
        BY <3>1 DEF aggregateExists
      <4>. QED  BY <1>1, <2>11, <3>1, <4>1 DEF Booting, Exists
    <3>2. CASE Exists(t) /\ stale
      <4>1. /\ n = 3 /\ todo'[1] = Stmt("drop", "daily") /\ todo'[2] = Stmt("drop", "hourly")
        BY <2>7a, <3>2
      <4>2. 1 \in 1..Len(todo') /\ 2 \in 1..Len(todo')
        BY <2>7, <4>1
      <4>3. At(1, "drop", "daily")' /\ At(2, "drop", "hourly")'
        BY <4>1, <4>2 DEF At, Stmt
      <4>4. \E i \in 1..Len(todo') :
              At(i, "drop", t)' /\ \A j \in 1..i : \E v \in Tiers : At(j, "drop", v)'
        <5>1. 1..1 = {1} /\ 1..2 = {1, 2}
          OBVIOUS
        <5>. QED  BY <4>2, <4>3, <5>1 DEF Tiers
      <4>5. Dropping(t)'
        BY <2>5, <2>11, <3>2, <4>4 DEF Dropping
      <4>. QED  BY <4>5 DEF Booting
    <3>3. CASE Exists(t) /\ ~stale
      <4>1. NoDrops' /\ Exists(t)'
        BY <1>1, <2>9, <3>3 DEF NoDrops, Exists
      <4>2. view[t].shape = "current"
        BY <3>3 DEF stale, aggregateCurrent, Inv, MarksInv
      <4>3. CASE halfway
        BY <1>1, <2>4, <4>1, <4>3 DEF Booting
      <4>4. CASE view[t].policy /\ Kept(t)
        BY <1>1, <2>3, <4>1, <4>4 DEF Booting
      <4>5. CASE t = "hourly" /\ ~Exists("daily")
        <5>1. ~aggregateExists
          BY <4>5 DEF aggregateExists, Tiers
        <5>2. /\ At(n + 8, "backfill", t)' /\ At(n + 2, "policy", t)' /\ n + 8 \in 1..Len(todo')
              /\ n + 2 \in 1..(n + 8 - 1)
          BY <2>6, <2>7, <4>5, <5>1
        <5>3. Filled(t)'
          BY <4>5, <5>2 DEF Filled
        <5>. QED  BY <4>1, <5>3 DEF Booting
      <4>. QED  BY <1>1, <3>3, <4>2, <4>3, <4>4, <4>5 DEF Idle
    <3>. QED  BY <3>1, <3>2, <3>3
  <2>. QED  BY <1>1, <1>3, <2>10, <2>12 DEF KeepInv
<1>. QED  BY <1>2, <1>3 DEF Start

LEMMA StopKeeps ==
  ASSUME Inv, KeepInv, Stop
  PROVE  KeepInv'
<1>1. /\ hub # "down" /\ hub' = "down" /\ ~enabled'
      /\ halfway' = (halfway \/ ((\A t \in Tiers : Exists(t))
                                   /\ \E i \in 1..Len(todo) : todo[i].op = "backfill"))
      /\ UNCHANGED <<now, view, import, ever, excused, missed>>
  BY DEF Stop, db
<1>2. \A t \in Tiers : Kept(t) => Kept(t)'
  BY <1>1, KeptSame
<1>3. \A t \in Tiers : (Exists(t)' <=> Exists(t)) /\ (Idle(t) => Idle(t)')
  BY <1>1, <1>2 DEF Idle, Exists
<1>4. ASSUME NEW t \in Tiers, hub = "boot" PROVE Idle(t)'
  <2>1. Booting(t)
    BY <1>4 DEF KeepInv
  <2>2. CASE Dropping(t)
    BY <1>3, <2>2 DEF Dropping
  <2>3. CASE ~Exists(t)
    BY <1>3, <2>3 DEF Idle
  <2>4. CASE Kept(t) /\ (view[t].policy \/ halfway)
    BY <1>1, <1>2, <2>4 DEF Idle
  <2>5. CASE Exists(t) /\ Filled(t)
    <3>1. \E i \in 1..Len(todo) : todo[i].op = "backfill"
      BY <2>5 DEF Filled, At, Stmt
    <3>2. t = "daily" => Exists("hourly")
      BY <2>5 DEF Filled
    <3>3. (\A v \in Tiers : Exists(v)) \/ (t = "hourly" /\ ~Exists("daily"))
      BY <2>5, <3>2 DEF Tiers
    <3>. QED  BY <1>1, <3>1, <3>3 DEF Idle, Exists
  <2>. QED  BY <2>1, <2>2, <2>3, <2>4, <2>5 DEF Booting
<1>5. \A t \in Tiers : Idle(t)'
  BY <1>1, <1>3, <1>4 DEF KeepInv
<1>. QED  BY <1>1, <1>5 DEF KeepInv

LEMMA StartedKeeps ==
  ASSUME Inv, KeepInv, Started
  PROVE  KeepInv'
<1>1. /\ hub = "boot" /\ todo = <<>> /\ hub' = "up"
      /\ UNCHANGED <<now, view, import, ever, excused, missed>>
  BY DEF Started, db
<1>2. \A i : i \notin 1..Len(todo)
  BY <1>1
<1>3. \A t \in Tiers : Exists(t) /\ Kept(t)
  <2>. SUFFICES ASSUME NEW t \in Tiers PROVE Exists(t) /\ Kept(t)
    OBVIOUS
  <2>1. Booting(t)
    BY <1>1 DEF KeepInv
  <2>2. ~Rebuild(t) /\ ~Filled(t)
    BY <1>2 DEF Rebuild, Filled
  <2>. QED  BY <2>1, <2>2 DEF Booting, Dropping
<1>4. \A t \in Tiers : view[t].policy
  BY <1>1, <1>2 DEF Inv, BootInv, Policied
<1>5. \A t \in Tiers : Kept(t)'
  BY <1>1, <1>3, KeptSame
<1>6. \A t \in Tiers : Idle(t)'
  BY <1>1, <1>4, <1>5 DEF Idle
<1>. QED  BY <1>1, <1>5, <1>6 DEF KeepInv

LEMMA TamperKeeps ==
  ASSUME Inv, DataInv, KeepInv, Tamper
  PROVE  KeepInv'
<1>1. /\ hub # "boot" /\ hub' # "boot" /\ ~enabled'
      /\ UNCHANGED <<now, import, ever, missed, halfway>> /\ \A t \in Tiers : Idle(t)
  BY DEF Tamper, KeepInv
<1>2. PICK u, v : /\ u \in Tiers /\ Exists(u)
                  /\ v = NoView \/ v = NewView("old", oids + 1)
                  /\ view' = [view EXCEPT ![u] = v] /\ Excuse(u, ever \ raw)
  BY DEF Tamper, Drop
<1>3. v.shape = "none" \/ v.shape = "old"
  <2>1. NoView.shape = "none"
    BY DEF NoView
  <2>2. PICK dirty : NewView("old", oids + 1) =
          [NoView EXCEPT !.shape = "old", !.oid = oids + 1, !.dirty = dirty]
    BY DEF NewView
  <2>3. PICK w : w = [shape |-> "old", oid |-> oids + 1, rows |-> {}, dirty |-> dirty,
                      mark |-> 0, policy |-> FALSE]
    OBVIOUS
  <2>4. NewView("old", oids + 1) = w /\ w.shape = "old"
    BY <2>2, <2>3 DEF NoView
  <2>. QED  BY <1>2, <2>1, <2>4
<1>4. \A t \in Tiers : view'[t] = IF t = u THEN v ELSE view[t]
  BY <1>2 DEF Inv, ViewsOK
<1>5. \A t \in Tiers : t # u => excused'[t] = excused[t]
  BY <1>2 DEF Excuse, DataInv, LossesTyped
<1>6. \A t \in Tiers : t # u /\ Kept(t) => Kept(t)'
  BY <1>1, <1>4, <1>5, KeptSame
<1>7. ~Exists("daily") => ~Exists("daily")'
  BY <1>2, <1>4 DEF Exists, Tiers
<1>8. ASSUME NEW t \in Tiers PROVE Idle(t)'
  <2>1. CASE t = u
    BY <1>3, <1>4, <2>1 DEF Idle, Exists
  <2>2. CASE t # u
    BY <1>1, <1>4, <1>6, <1>7, <2>2 DEF Idle, Exists
  <2>. QED  BY <2>1, <2>2
<1>. QED  BY <1>1, <1>8 DEF KeepInv

LEMMA NextKeeps ==
  ASSUME Inv, DataInv, KeepInv, [Next]_vars
  PROVE  KeepInv'
<1>1. ViewsOK
  BY DEF Inv
<1>2. ASSUME AddResults \/ ImportSamples \/ RetentionJob PROVE KeepInv'
  <2>1. (\E rounds : view' = Touch(rounds)) /\ UNCHANGED <<todo, hub, enabled, halfway>>
    BY <1>2 DEF AddResults, ImportSamples, RetentionJob, history
  <2>2. SameViews
    BY <1>1, <2>1, TouchSame
  <2>3. \A t \in Tiers : Exists(t) /\ Kept(t) => Kept(t)'
    BY <1>2, AddKept, ImportKept, RetentionKept
  <2>. QED  BY <2>1, <2>2, <2>3, QuietKeeps
<1>3. ASSUME RefreshAggregates \/ PolicyJob PROVE KeepInv'
  <2>1. /\ \E t \in Tiers : \E days : view' = [view EXCEPT ![t] = Refreshed(view[t], days)]
        /\ UNCHANGED <<todo, hub, enabled, halfway>>
    BY <1>3 DEF RefreshAggregates, PolicyJob, history
  <2>2. SameViews
    BY <1>1, <2>1, RefreshSame
  <2>3. \A t \in Tiers : Exists(t) /\ Kept(t) => Kept(t)'
    BY <1>3, RefreshKept, PolicyKept
  <2>. QED  BY <2>1, <2>2, <2>3, QuietKeeps
<1>4. ASSUME StartImport \/ ImportFails \/ UNCHANGED vars PROVE KeepInv'
  <2>1. UNCHANGED <<view, todo, hub, enabled, halfway>>
    BY <1>4 DEF StartImport, ImportFails, vars, db, history
  <2>2. SameViews
    BY <2>1 DEF SameViews, Same
  <2>3. ASSUME UNCHANGED vars, NEW t \in Tiers, Kept(t) PROVE Kept(t)'
    <3>1. UNCHANGED <<now, ever, import, view, excused, missed>>
      BY <2>3 DEF vars, db, history
    <3>. QED  BY <2>3, <3>1, KeptSame
  <2>4. \A t \in Tiers : Exists(t) /\ Kept(t) => Kept(t)'
    BY <1>4, <2>3, StartImportKept, FailKept
  <2>. QED  BY <2>1, <2>2, <2>4, QuietKeeps
<1>5. ASSUME NextDay PROVE KeepInv'
  <2>1. hub # "boot" /\ UNCHANGED <<view, todo, hub, enabled, halfway>>
    BY <1>5 DEF NextDay, db, history
  <2>2. SameViews
    BY <2>1 DEF SameViews, Same
  <2>3. \A t \in Tiers : Exists(t) /\ Kept(t) /\ (hub = "boot" \/ view[t].policy) => Kept(t)'
    BY <1>5, <2>1, DayKept
  <2>. QED  BY <2>1, <2>2, <2>3, QuietKeeps
<1>. QED  BY <1>2, <1>3, <1>4, <1>5, StartKeeps, StartStepKeeps, StopKeeps, StartedKeeps,
             TamperKeeps DEF Next

(* On a hub that serves downsampled history every round ever stored shows  *)
(* in the hourly view for its span and in the daily one for good, or will  *)
(* by the next run of a policy's job or of the import under way: whatever  *)
(* starts stopped half-way, whatever was dropped, rebuilt, backfilled and  *)
(* imported, but for the losses the code announces and those README.md     *)
(* lists (EnableDownsampling, RefreshAggregates, the policies and the raw  *)
(* retention of pgstore).                                                  *)
THEOREM LongViewsShowWhatTheyPromise == Spec => []PromisedRoundsShow
<1>1. Inv /\ DataInv /\ KeepInv => PromisedRoundsShow
  <2>. SUFFICES ASSUME Inv, DataInv, KeepInv, enabled, NEW t \in Tiers, NEW r \in Owed(t)
                PROVE  r \in Rollup(t) \cup Coming(t)
    BY DEF PromisedRoundsShow, Owed
  <2>1. Exists(t) /\ view[t].policy /\ Kept(t)
    BY DEF Inv, Serves, Exists, KeepInv
  <2>2. /\ now \in Nat /\ r \in ever /\ r.day \in Nat /\ (r \in raw \/ r.day + RawDays < now)
        /\ r \in raw /\ r.day \notin view[t].dirty => r \in view[t].rows
        /\ view[t].mark \in Nat /\ view[t].mark <= now
    BY <2>1 DEF Owed, Promised, DataInv, RawInv, ViewsAgree, Agrees
  <2>3. CASE r \in view[t].rows
    BY <2>3 DEF Rollup
  <2>4. CASE r \in Pending(t)
    BY <2>4 DEF Pending, Coming
  <2>5. CASE r.day = now
    <3>1. r \in raw
      BY <2>2, <2>5, SpansTyped
    <3>. QED  BY <2>2, <2>5, <3>1 DEF Rollup
  <2>6. CASE r.day \in Trailing(policyDays(t))
    <3>1. policyDays(t) \in Nat /\ policyDays(t) <= RawDays
      BY SpansTyped DEF policyDays
    <3>2. r \in raw
      BY <2>2, <2>6, <3>1, TrailingIs, SpansTyped
    <3>. QED  BY <2>1, <2>2, <2>6, <3>2 DEF Rollup, Coming
  <2>. QED  BY <2>1, <2>3, <2>4, <2>5, <2>6 DEF Kept, Held, Near
<1>2. Inv /\ DataInv /\ KeepInv /\ [Next]_vars => (Inv /\ DataInv /\ KeepInv)'
  BY NextInv, NextData, NextKeeps
<1>3. Init => Inv /\ DataInv /\ KeepInv
  BY InitInv, InitKeep
<1>. QED  BY <1>1, <1>2, <1>3, PTL DEF Spec
=============================================================================
