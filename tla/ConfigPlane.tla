----------------------------- MODULE ConfigPlane -----------------------------
(***************************************************************************)
(* The life of the database config fragment: the versioned row             *)
(* (internal/configstore), the hub that composes it onto its file config   *)
(* and replaces its runtime under applyMu (cmd/smoked/main.go), and those  *)
(* who edit it: the dashboard, the MCP server's staging session            *)
(* (internal/mcp), and the import commands, which write to the database    *)
(* behind a running hub.                                                   *)
(*                                                                         *)
(* A document is a function from the names of its targets to their id and  *)
(* the state of a credential in their parameters.  Trees, inheritance and  *)
(* validation of single targets are in ConfigTree; here a document is      *)
(* valid on a file config when they have no name in common.                *)
(***************************************************************************)
EXTENDS Naturals

CONSTANTS
  Names,        \* names a target of the fragment may have
  FileNames,    \* names the file config defines
  InitialDocs,  \* what the row may hold at first; an empty one is no row
  Habits,       \* ways to use it: [who: who edits, rereads: the dashboard is reloaded
                \* after a save, lasts: the MCP client's admin session outlives its work]
  MaxVersion,   \* bound: versions of the row
  MaxStages,    \* bound: sessions seeded and edits staged
  MaxStarts     \* bound: how often the hub starts

Unminted == 0
PathId == 1     \* the birth path: the key of rounds stored before there were ids

ASSUME ConfigAssumption ==
  /\ MaxVersion \in Nat /\ MaxStages \in Nat /\ MaxStarts \in Nat
  /\ \A d \in InitialDocs :
       DOMAIN d \subseteq Names /\ d \in [DOMAIN d -> [id : Nat, cred : {"real", "masked"}]]
  /\ \A h \in Habits : h.rereads \in BOOLEAN /\ h.lasts \in BOOLEAN

VARIABLES
  habits,     \* how this hub is used
  stored,     \* the row: its version (0: absent) and document
  behind,     \* history: was it written behind the hub's back, or can the hub not take it
  stamped,    \* history: has a start's migration found or left every target with an id
  live,       \* the document the hub's runtime was composed from, and its version
  up,         \* is the hub serving
  busy,       \* the holder of applyMu, or the boot: {} or {what it does}
  starts,
  puts,       \* PUT requests under way
  dash,       \* the dashboard's copy
  command,    \* the import command: {} or {what it is to write}
  session,    \* the staging session
  cookie,     \* the MCP client's admin cookie
  owed,       \* history: staged edits neither applied nor discarded: name -> is it there
  stages

hub == <<live, up, busy, starts>>
mcp == <<session, cookie, owed, stages>>
vars == <<habits, stored, behind, stamped, hub, puts, dash, command, mcp>>

-----------------------------------------------------------------------------
(* Documents.                                                              *)

NoDoc == [n \in {} |-> [id |-> Unminted, cred |-> "real"]]

NewTarget == [id |-> Unminted, cred |-> "real"]
With(d, n) == [m \in DOMAIN d \cup {n} |-> IF m \in DOMAIN d THEN d[m] ELSE NewTarget]
Without(d, n) == [m \in DOMAIN d \ {n} |-> d[m]]

(* Seeded fault: every target gets a fresh id.                             *)
MintAll(d, ver) == [n \in DOMAIN d |-> [d[n] EXCEPT !.id = ver + 2]]

(* MintNewIDs: a fresh id for every target that has none.  A UUID stands   *)
(* for the version its document is written over: no other write has it.    *)
WithNewIDs(d, ver) ==
  [n \in DOMAIN d |-> IF d[n].id = Unminted THEN [d[n] EXCEPT !.id = ver + 2] ELSE d[n]]

(* StampIDsForTest's minter, of the startup migration: the birth path.     *)
stampIDs(d) ==
  [n \in DOMAIN d |-> IF d[n].id = Unminted THEN [d[n] EXCEPT !.id = PathId] ELSE d[n]]

(* A target's key in the store: its id, or its path.                       *)
historyKey(t) == IF t.id = Unminted THEN PathId ELSE t.id

RedactSecrets(d) == [n \in DOMAIN d |-> [d[n] EXCEPT !.cred = "masked"]]

(* buildRuntime's composition with the file config (AppendDBFragment).     *)
Builds(d) == DOMAIN d \cap FileNames = {}

(* Seeded fault: the version is not compared.                              *)
SetUnchecked(ver) == stored.ver < MaxVersion

SetSucceeds(ver) == ver = stored.ver /\ stored.ver < MaxVersion
SetConflicts(ver) == ver # stored.ver

Write(doc) == stored' = [ver |-> stored.ver + 1, doc |-> doc]

-----------------------------------------------------------------------------
Idle == busy = {}
NoEdit == [n \in {} |-> TRUE]
NoCopy == [have |-> FALSE, ver |-> 0, doc |-> NoDoc]
NoSession == [phase |-> "none", ver |-> 0, work |-> NoDoc, file |-> {}, exact |-> FALSE,
              names |-> {}]

Init ==
  /\ habits \in Habits
  /\ \E d \in InitialDocs : stored = [ver |-> IF d = NoDoc THEN 0 ELSE 1, doc |-> d]
  /\ behind = FALSE /\ stamped = FALSE
  /\ live = [ver |-> 0, doc |-> NoDoc] /\ up = FALSE /\ busy = {} /\ starts = 0
  /\ puts = {} /\ dash = NoCopy /\ command = {}
  /\ session = NoSession /\ cookie = "none" /\ owed = NoEdit /\ stages = 0

-----------------------------------------------------------------------------
(* The hub.  What it is busy with: [kind, ver, doc, names], names being    *)
(* those its author edited.                                                *)

Work(kind, ver, doc, names) == [kind |-> kind, ver |-> ver, doc |-> doc, names |-> names]

(* main: the start, which reads the row for the id migration.              *)
BootReads ==
  /\ ~up /\ Idle /\ starts < MaxStarts
  /\ starts' = starts + 1
  /\ busy' = {Work("migrate", stored.ver, stampIDs(stored.doc), {})}
  /\ UNCHANGED <<habits, stored, behind, stamped, live, up, puts, dash, command, mcp>>

(* MigrateStampIDs's Set.  A conflict, or an error of the database, is     *)
(* only logged: nothing is written, and the start goes on with the targets *)
(* as they are.                                                            *)
BootMigrates ==
  \E b \in busy :
    /\ b.kind = "migrate"
    /\ \/ SetSucceeds(b.ver) /\ b.doc # stored.doc /\ Write(b.doc)
       \/ UNCHANGED stored
    /\ stamped' = (stamped \/ stored'.doc = b.doc)
    /\ busy' = {[b EXCEPT !.kind = "boot"]}
    /\ UNCHANGED <<habits, behind, live, up, starts, puts, dash, command, mcp>>

(* The first runtime; a fragment that does not compose is fatal.           *)
BootBuilds ==
  \E b \in busy :
    /\ b.kind = "boot"
    /\ IF Builds(stored.doc)
       THEN up' = TRUE /\ live' = stored /\ behind' = FALSE
       ELSE UNCHANGED <<up, live, behind>>
    /\ busy' = {}
    /\ UNCHANGED <<habits, stored, stamped, starts, puts, dash, command, mcp>>

(* The hub stops, or is killed, at any point; requests under way fail.     *)
Stop ==
  /\ up
  /\ up' = FALSE /\ busy' = {}
  /\ puts' = {IF p.state \in {"sent", "applying"} THEN [p EXCEPT !.state = "failed"] ELSE p
              : p \in puts}
  /\ UNCHANGED <<habits, stored, behind, stamped, live, starts, dash, command, mcp>>

(* Seeded fault: a reload reads and builds outside applyMu, while another  *)
(* replacement is under way.                                               *)
ReloadReadsUnlocked ==
  /\ up /\ \A b \in busy : b.kind # "reload"
  /\ busy' = busy \cup {Work("reload", stored.ver, stored.doc, {})}
  /\ UNCHANGED <<habits, stored, behind, stamped, live, up, starts, puts, dash, command, mcp>>

(* SIGHUP: applyMu is held from the read to the swap.                      *)
ReloadReads ==
  /\ up /\ Idle
  /\ busy' = {Work("reload", stored.ver, stored.doc, {})}
  /\ UNCHANGED <<habits, stored, behind, stamped, live, up, starts, puts, dash, command, mcp>>

(* A reload that does not build keeps the running config.                  *)
ReloadSwaps ==
  \E b \in busy :
    /\ b.kind = "reload"
    /\ live' = IF Builds(b.doc) THEN [ver |-> b.ver, doc |-> b.doc] ELSE live
    /\ behind' = IF b.ver = stored.ver THEN ~Builds(b.doc) ELSE behind
    /\ busy' = busy \ {b}
    /\ UNCHANGED <<habits, stored, stamped, up, starts, puts, dash, command, mcp>>

(* ConfigApply, first part: mint and build.                                *)
ApplyBuilds(p) ==
  /\ up /\ Idle /\ p.state = "sent"
  /\ Builds(p.doc)
  /\ busy' = {Work("set", p.ver, WithNewIDs(p.doc, p.ver), p.names)}
  /\ puts' = (puts \ {p}) \cup {[p EXCEPT !.state = "applying"]}
  /\ UNCHANGED <<habits, stored, behind, stamped, live, up, starts, dash, command, mcp>>

ApplyRejects(p) ==
  /\ up /\ Idle /\ p.state = "sent"
  /\ ~Builds(p.doc)
  /\ puts' = (puts \ {p}) \cup {[p EXCEPT !.state = "invalid"]}
  /\ UNCHANGED <<habits, stored, behind, stamped, hub, dash, command, mcp>>

(* ConfigImport on a running hub: the current document and the branches it *)
(* lacks.  It goes on as an apply does.                                    *)
ImportBuilds(n) ==
  /\ "import" \in habits.who
  /\ up /\ Idle /\ n \notin DOMAIN stored.doc
  /\ LET merged == With(stored.doc, n) IN
       /\ Builds(merged)
       /\ busy' = {Work("set", stored.ver, WithNewIDs(merged, stored.ver), {n})}
  /\ UNCHANGED <<habits, stored, behind, stamped, live, up, starts, puts, dash, command, mcp>>

(* The request that applyMu was taken for, if there is one, is answered.   *)
Answer(state) ==
  puts' = {IF p.state = "applying" THEN [p EXCEPT !.state = state] ELSE p : p \in puts}

(* applyConfig: persist.                                                   *)
ApplyPersists ==
  \E b \in busy :
    /\ b.kind = "set" /\ SetSucceeds(b.ver)
    /\ Write(b.doc)
    /\ behind' = FALSE
    /\ busy' = (busy \ {b}) \cup {[b EXCEPT !.kind = "swap", !.ver = stored'.ver]}
    /\ UNCHANGED <<habits, stamped, live, up, starts, puts, dash, command, mcp>>

ApplyConflicts ==
  \E b \in busy :
    /\ b.kind = "set" /\ SetConflicts(b.ver)
    /\ Answer("conflict")
    /\ busy' = busy \ {b}
    /\ UNCHANGED <<habits, stored, behind, stamped, live, up, starts, dash, command, mcp>>

(* The database commits, and its answer is lost: nothing is swapped.       *)
ApplyUnanswered ==
  \E b \in busy :
    /\ b.kind = "set" /\ SetSucceeds(b.ver)
    /\ Write(b.doc)
    /\ behind' = TRUE
    /\ Answer("failed")
    /\ busy' = busy \ {b}
    /\ UNCHANGED <<habits, stamped, live, up, starts, dash, command, mcp>>

(* applyConfig: swap, and answer.                                          *)
ApplySwaps ==
  \E b \in busy :
    /\ b.kind = "swap"
    /\ live' = [ver |-> b.ver, doc |-> b.doc]
    /\ Answer("applied")
    /\ busy' = busy \ {b}
    /\ UNCHANGED <<habits, stored, behind, stamped, up, starts, dash, command, mcp>>

-----------------------------------------------------------------------------
(* The import commands: a process of their own, that reads and writes the  *)
(* row, at any time, with or without a hub.  Without -config the merged    *)
(* document is not validated.                                              *)
CommandReads(n) ==
  /\ "command" \in habits.who /\ command = {}
  /\ n \notin DOMAIN stored.doc
  /\ command' = {Work("import", stored.ver, WithNewIDs(With(stored.doc, n), stored.ver), {n})}
  /\ UNCHANGED <<habits, stored, behind, stamped, hub, puts, dash, mcp>>

CommandWrites ==
  \E c \in command :
    /\ IF SetSucceeds(c.ver)
       THEN Write(c.doc) /\ behind' = TRUE
       ELSE UNCHANGED <<stored, behind>>
    /\ command' = {}
    /\ UNCHANGED <<habits, stamped, hub, puts, dash, mcp>>

-----------------------------------------------------------------------------
(* Requests.  A client has one under way; it may give up on it, and the    *)
(* hub may still serve it.                                                 *)

Send(from, ver, doc, names, exact, intent) ==
  /\ \A p \in puts : p.from # from
  /\ puts' = puts \cup {[from |-> from, ver |-> ver, doc |-> doc, names |-> names,
                        exact |-> exact, intent |-> intent, same |-> TRUE,
                        state |-> "sent"]}

Answered(p) == p.state \notin {"sent", "applying"}

GiveUp(p) ==
  /\ ~Answered(p) /\ \A q \in puts : q.from # "gone"
  /\ puts' = (puts \ {p}) \cup {[p EXCEPT !.from = "gone"]}
  /\ UNCHANGED <<habits, stored, behind, stamped, hub, dash, command, mcp>>

Forget(p) ==
  /\ p.from = "gone" /\ Answered(p)
  /\ puts' = puts \ {p}
  /\ UNCHANGED <<habits, stored, behind, stamped, hub, dash, command, mcp>>

-----------------------------------------------------------------------------
(* The dashboard.                                                          *)

loadCfgTree ==
  /\ "dash" \in habits.who
  /\ up /\ \A p \in puts : p.from # "dash"
  /\ dash' = [have |-> TRUE, ver |-> stored.ver, doc |-> stored.doc]
  /\ UNCHANGED <<habits, stored, behind, stamped, hub, puts, command, mcp>>

(* saveDoc's PUT: the whole document with one edit, at the version read.   *)
saveDoc(n) ==
  /\ dash.have
  /\ Send("dash", dash.ver,
          IF n \in DOMAIN dash.doc THEN Without(dash.doc, n) ELSE With(dash.doc, n),
          {n}, FALSE, NoEdit)
  /\ UNCHANGED <<habits, stored, behind, stamped, hub, dash, command, mcp>>

(* Its answer: 200 adopts what was sent; a conflict reads again; any other *)
(* error keeps the copy.                                                   *)
saveDocAnswered(p) ==
  /\ p.from = "dash" /\ Answered(p)
  /\ dash' = CASE p.state = "conflict" \/ (p.state = "applied" /\ habits.rereads) -> NoCopy
              [] p.state = "applied" /\ ~habits.rereads ->
                   [have |-> TRUE, ver |-> p.ver + 1, doc |-> p.doc]
              [] OTHER -> dash
  /\ puts' = puts \ {p}
  /\ UNCHANGED <<habits, stored, behind, stamped, hub, command, mcp>>

-----------------------------------------------------------------------------
(* The MCP server.                                                         *)

hasAdminSession == cookie = "valid"

SessionEnds ==
  /\ hasAdminSession /\ ~habits.lasts
  /\ cookie' = "expired"
  /\ UNCHANGED <<habits, stored, behind, stamped, hub, puts, dash, command, session, owed, stages>>

(* The client logs in before its first read; any other time only when it   *)
(* is answered 401.                                                        *)
login(c) == IF c = "none" THEN "valid" ELSE c
do(c) == IF c = "valid" THEN c ELSE "valid"

(* A read of the open config endpoint is answered; to a session that has   *)
(* ended it is masked.                                                     *)
Shown(d) == IF hasAdminSession \/ cookie = "none" THEN d ELSE RedactSecrets(d)

(* ensure: the stored document, then the effective one.                    *)
ensureReads ==
  /\ "mcp" \in habits.who
  /\ up /\ session.phase = "none" /\ stages < MaxStages
  /\ cookie' = login(cookie)
  /\ session' = [NoSession EXCEPT !.phase = "seeding", !.ver = stored.ver,
                                  !.work = Shown(stored.doc)]
  /\ stages' = stages + 1
  /\ UNCHANGED <<habits, stored, behind, stamped, hub, puts, dash, command, owed>>

(* Seeded fault: a stored branch need not be the one that runs.            *)
RunsAnyway(doc, running) == TRUE

(* withoutFragmentBranches: every stored branch runs verbatim.             *)
RunsVerbatim(doc, running) ==
  \A n \in DOMAIN doc : n \in DOMAIN running /\ running[n] = doc[n]

(* hubFileConfig: the file config is what runs without the fragment.       *)
ensureComposes ==
  /\ session.phase = "seeding"
  /\ LET exact == up /\ RunsVerbatim(session.work, Shown(live.doc)) IN
       session' = [session EXCEPT
                     !.phase = "active", !.exact = exact,
                     !.file = IF exact
                              THEN (FileNames \cup DOMAIN live.doc) \ DOMAIN session.work
                              ELSE {}]
  /\ UNCHANGED <<habits, stored, behind, stamped, hub, puts, dash, command, cookie, owed, stages>>

(* The session's seq moves on: it is no more the one a PUT was taken from. *)
Touch == puts' = {[p EXCEPT !.same = FALSE] : p \in puts}

(* mutate and setDoc: the working document becomes d, if it composes with  *)
(* what is known of the file config.                                       *)
Stage(d) ==
  LET changed == (DOMAIN d \ DOMAIN session.work) \cup (DOMAIN session.work \ DOMAIN d) IN
    /\ session.phase = "active" /\ stages < MaxStages
    /\ DOMAIN d \cap session.file = {}
    /\ session' = [session EXCEPT !.work = WithNewIDs(d, session.ver),
                                  !.names = @ \cup changed]
    /\ Touch
    /\ owed' = [n \in changed \cup DOMAIN owed |->
                  IF n \in changed THEN n \in DOMAIN d ELSE owed[n]]
    /\ stages' = stages + 1
    /\ UNCHANGED <<habits, stored, behind, stamped, hub, dash, command, cookie>>

StageAdd(n) == n \notin DOMAIN session.work /\ Stage(With(session.work, n))
StageRemove(n) == n \in DOMAIN session.work /\ Stage(Without(session.work, n))

(* config_stage_replace: several edits at once.                            *)
StageReplace(gone, new) ==
  /\ gone \in DOMAIN session.work /\ new \notin DOMAIN session.work
  /\ Stage(With(Without(session.work, gone), new))

Discard ==
  /\ session.phase = "active"
  /\ session' = NoSession
  /\ Touch
  /\ owed' = NoEdit
  /\ UNCHANGED <<habits, stored, behind, stamped, hub, dash, command, cookie, stages>>

(* applyStaged: a snapshot, and its PUT; a 401 logs in and sends again.    *)
applyStaged ==
  /\ session.phase = "active" /\ session.names # {}
  /\ Send("mcp", session.ver, session.work, session.names, session.exact, owed)
  /\ cookie' = do(login(cookie))
  /\ UNCHANGED <<habits, stored, behind, stamped, hub, dash, command, session, owed, stages>>

(* Seeded fault: the session is reset whatever was staged meanwhile.       *)
ResetAlways(p) == NoSession

resetIfUnchanged(p) == IF p.same THEN NoSession ELSE session

(* Its answer: an error keeps the session.                                 *)
applyStagedAnswered(p) ==
  /\ p.from = "mcp" /\ Answered(p)
  /\ session.phase # "seeding"
  /\ IF p.state = "applied"
     THEN /\ session' = resetIfUnchanged(p)
          /\ owed' = [n \in {m \in DOMAIN owed :
                              m \in DOMAIN p.intent => p.intent[m] # owed[m]} |-> owed[n]]
     ELSE UNCHANGED <<session, owed>>
  /\ puts' = puts \ {p}
  /\ UNCHANGED <<habits, stored, behind, stamped, hub, dash, command, cookie, stages>>

-----------------------------------------------------------------------------
HubStep ==
  \/ BootReads \/ BootMigrates \/ BootBuilds \/ Stop
  \/ ReloadReads \/ ReloadSwaps
  \/ \E p \in puts : ApplyBuilds(p) \/ ApplyRejects(p)
  \/ \E n \in Names : ImportBuilds(n)
  \/ ApplyPersists \/ ApplyConflicts \/ ApplyUnanswered \/ ApplySwaps

ClientStep ==
  \/ \E n \in Names : CommandReads(n)
  \/ CommandWrites
  \/ loadCfgTree
  \/ \E n \in Names : saveDoc(n)
  \/ \E p \in puts : saveDocAnswered(p) \/ GiveUp(p) \/ Forget(p)

McpStep ==
  \/ SessionEnds \/ ensureReads \/ ensureComposes
  \/ \E n \in Names : StageAdd(n) \/ StageRemove(n)
  \/ \E gone, new \in Names : StageReplace(gone, new)
  \/ Discard \/ applyStaged
  \/ \E p \in puts : applyStagedAnswered(p)

Next == HubStep \/ ClientStep \/ McpStep

Spec == Init /\ [][Next]_vars

-----------------------------------------------------------------------------
(* Properties.                                                             *)

Authors == {b \in busy : b.kind \in {"migrate", "set"}} \cup command

(* Every write is the document of one author, and changes the presence of  *)
(* no target but those this author edited: who edits an old version, from  *)
(* the dashboard, a staging session, an import command or a second hub's   *)
(* migration, loses to the one that was faster and overwrites nothing      *)
(* (configstore.Set, applyMu, the conflict answers).                       *)
NoLostUpdate ==
  [][\E a \in Authors :
       /\ stored'.doc = a.doc
       /\ \A n \in Names \ a.names : (n \in DOMAIN stored.doc) = (n \in DOMAIN a.doc)]_stored

(* The key a target's history is stored under survives every write whose   *)
(* author did not touch the target.  Only a target stored under its path,  *)
(* of a row that no start's migration has got to yet (it failed, or lost   *)
(* to an import), may be given an id by somebody else's write.             *)
KeysKept ==
  \E a \in Authors :
    /\ stored'.doc = a.doc
    /\ \A n \in (DOMAIN stored.doc \cap DOMAIN a.doc) \ a.names :
         \/ historyKey(a.doc[n]) = historyKey(stored.doc[n])
         \/ ~stamped /\ a.kind # "migrate" /\ stored.doc[n].id = Unminted
HistoryKeysAlwaysKept == [][KeysKept]_stored

(* ... as long as the dashboard's copy is read again after a save: a       *)
(* target that has an id keeps it, the migration re-keys nobody, and once  *)
(* it has gone through neither the hub's minting nor the session's nor an  *)
(* import does (MintNewIDs, MigrateStampIDs).                              *)
HistoryKeysKept == [][habits.rereads => KeysKept]_stored

(* No write stores the mask that readers are shown over a credential.      *)
SecretsAlwaysKept == \A n \in DOMAIN stored.doc : stored.doc[n].cred = "real"

(* What was staged and neither applied nor discarded is still staged: an   *)
(* apply that succeeds does not take with it an edit staged while it ran   *)
(* (resetIfUnchanged), and one that fails takes nothing.                   *)
StagedEditsKept ==
  \A n \in DOMAIN owed :
    session.phase = "active" /\ (n \in DOMAIN session.work) = owed[n]

(* A hub that is not in the middle of a replacement runs the stored        *)
(* document, unless that was written behind its back or does not compose   *)
(* with its file config (applyMu across build, persist and swap).          *)
LiveIsLatest == up /\ Idle => live = stored \/ behind

(* What a session validated against the hub's own file config, the hub     *)
(* does not then refuse as invalid (hubFileConfig).                        *)
ExactMeansAccepted == \A p \in puts : p.exact => p.state # "invalid"
=============================================================================
