------------------------------ MODULE Rollups ------------------------------
(***************************************************************************)
(* The round history of a TimescaleDB store: the raw rounds with their     *)
(* 30-day retention, the hourly and daily continuous aggregates that long  *)
(* views read, the statements a hub's start executes to create, validate,  *)
(* rebuild and backfill them (internal/store/pgstore), and the import of   *)
(* SmokePing history into a running database (cmd/smoked/import.go).       *)
(*                                                                         *)
(* Time is counted in days, and a bucket of either tier is a day: what     *)
(* tells the tiers apart is how far back each is refreshed, backfilled and *)
(* shown.  A start or an import is the list of the statements it has still *)
(* to execute, each of which may fail; the database's own jobs run between *)
(* any two of them.                                                        *)
(***************************************************************************)
EXTENDS Naturals, Sequences, FiniteSets, FiniteSetsExt

CONSTANTS
  Targets,
  RawDays,         \* the 30 days of raw retention, of daily refresh and daily backfill
  HourlyPolicy,    \* the 3 days an hourly refresh looks back
  HourlyBackfill,  \* the 10 days of hourly buckets a new view is backfilled with
  MinSpan,         \* minRefreshSpan, in days
  Late,            \* how many days late a round may reach the hub
  Histories,       \* what an import may extract: sets of rounds
  MaxDay, MaxRounds, MaxEvents  \* bounds: days, rounds, and together the hub's stops,
                                \* imports, and alterations by an operator

ASSUME RollupsAssumption ==
  /\ {RawDays, HourlyPolicy, HourlyBackfill, MinSpan, MaxDay} \subseteq Nat \ {0}
  /\ {Late, MaxRounds, MaxEvents} \subseteq Nat
  /\ 2 <= HourlyPolicy /\ HourlyPolicy <= HourlyBackfill /\ HourlyBackfill <= RawDays /\ Late <= RawDays
  /\ \A h \in Histories : \A r \in h : r.day \in 1..MaxDay

Tiers == {"hourly", "daily"}

VARIABLES
  now,        \* the day
  raw,        \* the samples table: rounds [target, day]
  retention,  \* is the retention policy installed
  view,       \* the aggregates: shape, relation OID, rows, the days whose rows are not
              \* known to agree with raw, the watermark, and is its policy installed
  marks,      \* heliograph_aggregate_versions: name -> the OID marked current, 0: none
  oids,       \* relation OIDs handed out
  hub,        \* "down", "boot" or "up"
  todo,       \* the statements its start has still to execute
  enabled,    \* history: is it up with downsampling, with views nobody altered since
  import,     \* the import under way: {} or {[todo, rows]}
  ever,       \* history: rounds ever stored
  excused,    \* history: losses the code announces: tier -> rounds
  missed,     \* history: the losses README.md lists as disagreements: tier -> rounds
  halfway,    \* history: did a start stop between creating the views and backfilling them
  spent       \* how often each bounded thing happened

db == <<raw, retention, view, marks, oids>>
history == <<ever, excused, missed, halfway>>
vars == <<now, db, hub, todo, enabled, import, history, spent>>

-----------------------------------------------------------------------------
(* Continuous aggregates.                                                  *)

(* How many days back a tier's refresh policy, and its backfill, look.     *)
policyDays(t) == IF t = "hourly" THEN HourlyPolicy ELSE RawDays
backfillDays(t) == IF t = "hourly" THEN HourlyBackfill ELSE RawDays

(* The whole days between n days and one hour before now.                  *)
Trailing(n) == {d \in 1..(now - 1) : d + n > now}

NoView == [shape |-> "none", oid |-> 0, rows |-> {}, dirty |-> {}, mark |-> 0, policy |-> FALSE]
NewView(shape, oid) ==
  [NoView EXCEPT !.shape = shape, !.oid = oid, !.dirty = {r.day : r \in raw}]

Exists(t) == view[t].shape # "none"

(* A refresh computes the buckets of the days that changed again, from the *)
(* rounds that are there now, and the watermark follows the newest one.    *)
Refreshed(v, days) ==
  LET again == v.dirty \cap days
      rows  == {r \in v.rows : r.day \notin again} \cup {r \in raw : r.day \in again}
  IN  [v EXCEPT !.rows = rows, !.dirty = @ \ again,
                !.mark = Max({@} \cup {r.day + 1 : r \in rows})]

(* Rounds that came or went: their days' buckets are no longer up to date. *)
Touch(rounds) ==
  [t \in Tiers |-> IF Exists(t) THEN [view[t] EXCEPT !.dirty = @ \cup {r.day : r \in rounds}]
                   ELSE view[t]]

(* Rollup: stored buckets below the watermark, raw rounds from there on.   *)
Rollup(t) == view[t].rows \cup {r \in raw : r.day >= view[t].mark}

-----------------------------------------------------------------------------
(* EnableDownsampling: the statements of a start.                          *)

Stmt(op, t) == [op |-> op, tier |-> t]

downsampleStmts ==
  << Stmt("create", "hourly"), Stmt("policy", "hourly"),
     Stmt("create", "daily"), Stmt("policy", "daily"), Stmt("retain", "daily") >>

(* Seeded fault: only the hourly view is looked for.                       *)
hourlyExists == Exists("hourly")

aggregateExists == \A t \in Tiers : Exists(t)

(* Seeded fault: a mark is taken for the view of its name.                 *)
versionedByName(t) == marks[t] # 0

(* aggregateCurrent: marked for this very relation, or of the right shape. *)
versioned(t) == marks[t] # 0 /\ marks[t] = view[t].oid
aggregateCurrent(t) == versioned(t) \/ view[t].shape = "current"

(* migrateAggregates: drop both when either is stale; else mark what is    *)
(* current and was not marked.                                             *)
stale == \E t \in Tiers : Exists(t) /\ ~aggregateCurrent(t)
migrateAggregates ==
  IF stale
  THEN << Stmt("drop", "daily"), Stmt("drop", "hourly"), Stmt("clear", "daily") >>
  ELSE LET mark(t) == IF Exists(t) /\ ~versioned(t) THEN <<Stmt("mark", t)>> ELSE <<>>
       IN  mark("hourly") \o mark("daily")

markAggregateVersions == << Stmt("mark", "hourly"), Stmt("mark", "daily") >>
backfillAggregates == << Stmt("backfill", "hourly"), Stmt("backfill", "daily") >>

EnableDownsampling ==
  migrateAggregates \o downsampleStmts \o markAggregateVersions
    \o IF ~aggregateExists \/ stale THEN backfillAggregates ELSE <<>>

(* What a tier does not owe: rounds no raw row is left of when its view is *)
(* dropped, and when it is created those a backfill does not reach.        *)
Old(days) == {r \in ever : r.day \notin days \cup {now}}
Excuse(t, rounds) == excused' = [excused EXCEPT ![t] = @ \cup rounds]

Drop(t) ==
  /\ view' = [view EXCEPT ![t] = NoView]
  /\ Excuse(t, ever \ raw)
  /\ UNCHANGED oids

Create(t, shape) ==
  IF Exists(t) THEN UNCHANGED <<view, oids, excused>>
  ELSE /\ oids' = oids + 1
       /\ view' = [view EXCEPT ![t] = NewView(shape, oids + 1)]
       /\ Excuse(t, Old(Trailing(backfillDays(t))))

(* A statement of a start executes.                                        *)
Exec(q) ==
  \/ q.op = "drop" /\ Drop(q.tier) /\ UNCHANGED <<marks, retention>>
  \/ q.op = "create" /\ Create(q.tier, "current") /\ UNCHANGED <<marks, retention>>
  \/ /\ q.op = "policy"
     /\ view' = [view EXCEPT ![q.tier].policy = TRUE]
     /\ UNCHANGED <<marks, retention, oids, excused>>
  \/ /\ q.op = "retain"
     /\ retention' = TRUE
     /\ UNCHANGED <<view, marks, oids, excused>>
  \/ /\ q.op = "clear"
     /\ marks' = [t \in Tiers |-> 0]
     /\ UNCHANGED <<view, retention, oids, excused>>
  \/ /\ q.op = "mark"
     /\ marks' = [marks EXCEPT ![q.tier] = view[q.tier].oid]
     /\ UNCHANGED <<view, retention, oids, excused>>
  \/ /\ q.op = "backfill"
     /\ view' = [view EXCEPT ![q.tier] = Refreshed(@, Trailing(backfillDays(q.tier)))]
     /\ Excuse(q.tier, {r \in Old(Trailing(backfillDays(q.tier))) : r.day \in view[q.tier].dirty})
     /\ UNCHANGED <<marks, retention, oids>>

-----------------------------------------------------------------------------
(* The hub.                                                                *)

Spend(what, most) == spent[what] < most /\ spent' = [spent EXCEPT ![what] = @ + 1]

(* A start that finds both views has nothing to backfill, even when one    *)
(* before it created them and got no further.                              *)
Start ==
  /\ hub = "down"
  /\ \/ hub' = "up" /\ UNCHANGED <<todo, missed>>      \* without -downsample
     \/ /\ hub' = "boot" /\ todo' = EnableDownsampling
        /\ missed' = [t \in Tiers |-> missed[t] \cup
             {r \in Old(Trailing(policyDays(t))) \ view[t].rows : halfway}]
  /\ UNCHANGED <<now, db, enabled, import, ever, excused, halfway, spent>>

StartStep ==
  /\ hub = "boot" /\ todo # <<>>
  /\ Exec(Head(todo))
  /\ todo' = Tail(todo)
  /\ UNCHANGED <<now, raw, hub, enabled, import, ever, missed, halfway, spent>>

Started ==
  /\ hub = "boot" /\ todo = <<>>
  /\ hub' = "up" /\ enabled' = TRUE /\ halfway' = FALSE
  /\ UNCHANGED <<now, db, todo, import, ever, excused, missed, spent>>

(* A statement fails, or the hub is killed, or it is stopped.              *)
Stop ==
  /\ hub # "down" /\ Spend("events", MaxEvents)
  /\ hub' = "down" /\ todo' = <<>> /\ enabled' = FALSE
  /\ halfway' = \/ halfway
                \/ (\A t \in Tiers : Exists(t)) /\ \E i \in 1..Len(todo) : todo[i].op = "backfill"
  /\ UNCHANGED <<now, db, import, ever, excused, missed>>

(* Add and AddResults: a round is stored once.  One that comes too late    *)
(* for a tier's policy is not in that tier.                                *)
AddResults ==
  /\ hub = "up" /\ Spend("rounds", MaxRounds)
  /\ \E target \in Targets, day \in 1..now :
       /\ day + Late >= now
       /\ LET r == [target |-> target, day |-> day] IN
          /\ r \notin raw
          /\ raw' = raw \cup {r} /\ ever' = ever \cup {r}
          /\ view' = Touch({r})
          /\ missed' = [t \in Tiers |-> missed[t] \cup
               IF ~Exists(t) \/ day \in Trailing(policyDays(t)) \cup {now}
               THEN {} ELSE {r}]
  /\ UNCHANGED <<now, retention, marks, oids, hub, todo, enabled, import, excused, halfway>>

-----------------------------------------------------------------------------
(* The SmokePing history import.                                           *)

(* refreshWindowFor and RefreshAggregates: the whole days of the extracted *)
(* rounds, at least MinSpan of them, up to the last closed one.            *)
refreshWindowFor(rows) ==
  LET days == {r.day : r \in rows}
  IN  {d \in 1..(now - 1) : /\ d <= Max(days)
                            /\ Min(days) <= d \/ d + MinSpan >= Max(days)}

AggregatesExist == \A t \in Tiers : Exists(t)

ImportTodo(i, t) == \E k \in 1..Len(i.todo) : i.todo[k] = t

(* runHistory reads the RRDs of the matched targets that resolve to a      *)
(* configured one; those that do not, or do not read, are left out.        *)
StartImport ==
  /\ import = {} /\ AggregatesExist /\ Spend("events", MaxEvents)
  /\ \E rows \in Histories :
       /\ rows # {} /\ \A r \in rows : r.day <= now
       /\ import' = {[todo |-> <<"insert", "hourly", "daily">>, rows |-> rows]}
  /\ UNCHANGED <<now, db, hub, todo, enabled, history>>

(* ImportSamples: rows that are there already are left as they are.        *)
ImportSamples ==
  \E i \in import :
    /\ Head(i.todo) = "insert"
    /\ raw' = raw \cup i.rows
    /\ view' = Touch(i.rows \ raw)
    /\ import' = {[i EXCEPT !.todo = Tail(@)]}
    /\ ever' = ever \cup i.rows
    /\ UNCHANGED <<now, retention, marks, oids, hub, todo, enabled, excused, missed, halfway, spent>>

(* RefreshAggregates, of one view.  It fails when the view is gone; it     *)
(* computes each changed day again, for all targets.                       *)
RefreshAggregates ==
  \E i \in import :
    /\ Head(i.todo) \in Tiers
    /\ LET t == Head(i.todo)
           v == Refreshed(view[t], refreshWindowFor(i.rows))
       IN  /\ Exists(t)
           /\ view' = [view EXCEPT ![t] = v]
           /\ missed' = [missed EXCEPT ![t] = @ \cup (view[t].rows \ v.rows) \cup (i.rows \ raw)]
           /\ import' = IF Len(i.todo) > 1 THEN {[i EXCEPT !.todo = Tail(@)]} ELSE {}
    /\ UNCHANGED <<now, raw, retention, marks, oids, hub, todo, enabled, ever, excused, halfway, spent>>

(* A statement fails and the import ends with an error: what it did not    *)
(* refresh waits for it to be run again.                                   *)
ImportFails ==
  \E i \in import :
    /\ import' = {}
    /\ missed' = [t \in Tiers |-> missed[t] \cup
         IF ImportTodo(i, t) THEN {r \in i.rows : r.day \notin Trailing(policyDays(t)) \cup {now}} ELSE {}]
    /\ UNCHANGED <<now, db, hub, todo, enabled, ever, excused, halfway, spent>>

-----------------------------------------------------------------------------
(* The database's jobs, its operator, and time.                            *)

(* A refresh policy's job.                                                 *)
PolicyJob ==
  \E t \in Tiers :
    /\ view[t].policy /\ view[t].dirty \cap Trailing(policyDays(t)) # {}
    /\ view' = [view EXCEPT ![t] = Refreshed(@, Trailing(policyDays(t)))]
    /\ UNCHANGED <<now, raw, retention, marks, oids, hub, todo, enabled, import, history, spent>>

(* The retention job drops what is older than RawDays, a day at a time,    *)
(* and with it the buckets' agreement with raw.                            *)
RetentionJob ==
  LET gone == {r \in raw : r.day + RawDays < now} IN
  /\ retention /\ gone # {}
  /\ raw' = raw \ gone
  /\ view' = Touch(gone)
  /\ UNCHANGED <<now, retention, marks, oids, hub, todo, enabled, import, history, spent>>

(* An operator drops a view, or puts another one in its place.             *)
Tamper ==
  /\ hub # "boot" /\ import = {} /\ Spend("events", MaxEvents)
  /\ \E t \in Tiers :
       /\ Exists(t)
       /\ \/ Drop(t)
          \/ /\ oids' = oids + 1
             /\ view' = [view EXCEPT ![t] = NewView("old", oids + 1)]
             /\ Excuse(t, ever \ raw)
  /\ enabled' = FALSE
  /\ UNCHANGED <<now, raw, retention, marks, hub, todo, import, ever, missed, halfway>>

(* The jobs are scheduled hourly, so each has run before the day is over;  *)
(* a start or an import does not last over midnight.                       *)
NextDay ==
  /\ now < MaxDay /\ hub # "boot" /\ import = {}
  /\ \A t \in Tiers : view[t].policy => view[t].dirty \cap Trailing(policyDays(t)) = {}
  /\ now' = now + 1
  /\ UNCHANGED <<db, hub, todo, enabled, import, history, spent>>

(* A database without aggregates, or with those of an older hub.           *)
Init ==
  /\ now = 1 /\ raw = {}
  /\ \E older \in BOOLEAN :
       /\ view = [t \in Tiers |->
            IF ~older THEN NoView
            ELSE [NewView("old", IF t = "hourly" THEN 1 ELSE 2) EXCEPT !.policy = TRUE]]
       /\ retention = older
  /\ marks = [t \in Tiers |-> 0] /\ oids = 2
  /\ hub = "down" /\ todo = <<>> /\ enabled = FALSE /\ import = {}
  /\ halfway = FALSE /\ ever = {} /\ excused = [t \in Tiers |-> {}] /\ missed = [t \in Tiers |-> {}]
  /\ spent = [rounds |-> 0, events |-> 0]

Next ==
  \/ Start \/ StartStep \/ Started \/ Stop \/ AddResults
  \/ StartImport \/ ImportSamples \/ RefreshAggregates \/ ImportFails
  \/ PolicyJob \/ RetentionJob \/ Tamper \/ NextDay

Spec == Init /\ [][Next]_vars

-----------------------------------------------------------------------------
(* Properties.                                                             *)

(* What a tier shows, or its policy's next run will make it show: the      *)
(* hourly view for its backfill's span, the daily view for good.           *)
Promised(t) ==
  {r \in ever : t = "hourly" => r.day \in Trailing(HourlyBackfill) \cup {now}}
Coming(t) ==
  {r \in raw : view[t].policy /\ r.day \in view[t].dirty \cap Trailing(policyDays(t))}
    \cup UNION {i.rows : i \in {j \in import : ImportTodo(j, t)}}

(* On a hub that serves downsampled history every round ever stored is in  *)
(* the daily view long after its raw row is gone, and in the hourly view   *)
(* for ten days, whatever starts failed half-way, views were rebuilt and   *)
(* histories imported before: all but the losses the code announces and    *)
(* those README.md lists.                                                  *)
PromisedRoundsShow ==
  enabled => \A t \in Tiers :
    Promised(t) \ (excused[t] \cup missed[t]) \subseteq Rollup(t) \cup Coming(t)

(* A served view has the shape this hub's queries expect: one that was     *)
(* dropped, or put in the place of a marked one, is not taken for it.      *)
ServedViewsAreCurrent ==
  enabled => \A t \in Tiers : view[t].shape = "current" /\ view[t].policy

(* "the daily tier then persists for the 400d range even though raw does   *)
(* not": nothing but a rebuild takes a bucket away.                        *)
DailyTierPersists ==
  [][ \A r \in view["daily"].rows :
        r \in view["daily"]'.rows \/ view["daily"]'.oid # view["daily"].oid ]_vars

=============================================================================
