----------------------------- MODULE Federation -----------------------------
(***************************************************************************)
(* One agent and its hub: the assignment the agent polls                   *)
(* (internal/agent/agent.go, client.go, arm.go), the batches it posts and  *)
(* retries, the ingest handler (internal/api/agent.go), the commit under   *)
(* the reload lock (cmd/smoked/main.go) and the clock readings kept beside *)
(* it (internal/api/ntpstat.go).  Reloads, restarts of either side and     *)
(* revocations fall between any two of its steps, and a batch the agent    *)
(* has given up waiting for may still be in the handler.                   *)
(*                                                                         *)
(* A target's measurement identity (probe, host, params, pings) is its     *)
(* def, and a fingerprint is that def.  A round's time is the count of     *)
(* rounds measured, so it names the round.  The agent's buffer is          *)
(* AgentFlush.tla's, without its bound.                                    *)
(***************************************************************************)
EXTENDS VantageRegistry, Sequences, FiniteSetsExt, SequencesExt

CONSTANTS
  Ids,        \* stable target ids: the paths targets were born at
  Configs,    \* what the hub may run: id -> Absent or [name, def, here]
  Boots,      \* what it may run at first
  Runnable,   \* the defs this build of the agent can probe
  StatKey,    \* def -> the server its clock readings are of
  MaxRounds,  \* bound: rounds measured
  PastSkew,   \* maxPastSkew, in rounds
  Slots       \* bound: the batches in the handler at once (a scene's "posts" of them)

Absent == [name |-> None, def |-> None, here |-> FALSE]
NoFingerprint == ""

ASSUME FederationAssumption ==
  /\ MaxRounds \in Nat /\ PastSkew \in Nat /\ Slots \in SUBSET Nat /\ None \notin Runnable
  /\ \A config \in Boots \cup Configs, i \in Ids :
       /\ config[i].def # NoFingerprint
       /\ \A j \in Ids \ {i} :   \* ResolveMonitors
            config[i] = Absent \/ config[j] = Absent \/ config[i].name # config[j].name
  /\ Scenes \subseteq [agent : {"byId", "byName", "bare"}, strict : BOOLEAN, posts : Nat,
                       admin : Nat, rounds : Nat, events : Nat, losses : Nat]

VARIABLES
  live,       \* the hub's runtime
  gen,        \* history: how many runtimes it has had
  stored,     \* samples of this vantage: [id, round, as (the def live then), own, blind]
  evals,      \* id -> round time -> how often the live engine was given the round
  seeded,     \* <<id, time>> in the store when the live engine was seeded from it
  stat,       \* id -> [ts, key, set, def]: remoteNTP
  newest,     \* history: id -> time of the newest round whose reading was applied
  reqs,       \* the ingest handler: slot -> a request or Idle
  cert,       \* the agent's certificate
  held,       \* {} or the assignment it runs (its etag is that assignment's version)
  buf, clock, \* its buffer; rounds measured so far
  waiting,    \* the slot of the batch it waits for, or 0
  lost        \* history: rounds released but not stored as theirs, with the gen then

hubVars == <<live, gen, stored, evals, seeded, stat, newest>>
agentVars == <<cert, held, buf, clock, waiting, lost>>
vars == <<registryVars, left, hubVars, reqs, agentVars>>

Idle == [phase |-> "idle", rounds |-> <<>>, outs |-> {}]
NoCert == [serial |-> 0, ca |-> None]
NoStat == [ts |-> 0, key |-> None, set |-> FALSE, def |-> None]
Never == [i \in Ids |-> [t \in 1..MaxRounds |-> 0]]

-----------------------------------------------------------------------------
(* The assignment.                                                         *)

AssignmentFor(config) == [i \in {j \in Ids : config[j].here} |-> config[i]]
Assignment == AssignmentFor(live)

(* Seeded fault: the version leaves the targets' ids out.                  *)
ConfigVersionWithoutIDs(asg) == {[name |-> asg[i].name, def |-> asg[i].def] : i \in DOMAIN asg}
ConfigVersion(asg) == {[id |-> i, name |-> asg[i].name, def |-> asg[i].def] : i \in DOMAIN asg}

BuildJobs(asg) == {i \in DOMAIN asg : asg[i].def \in Runnable}

Authorised == Accepts(cert)

(* A poll.  304, an error, a refusal and a lost answer leave the agent as  *)
(* it is; an answer that is slow to arrive is one that comes with the next *)
(* poll, or one the agent acts on late.                                    *)
PullAssignment ==
  /\ Authorised
  /\ \A asg \in held : ConfigVersion(asg) # ConfigVersion(Assignment)
  /\ held' = {Assignment}
  /\ UNCHANGED <<registryVars, left, hubVars, reqs, cert, buf, clock, waiting, lost>>

(* A round of a job, with or without a clock reading, is buffered.  Its    *)
(* gen says under which runtime the agent was up to date, or 0.            *)
Measure(asg, i, reading) ==
  /\ clock < MaxRounds /\ Spend("rounds")
  /\ i \in BuildJobs(asg)
  /\ clock' = clock + 1
  /\ buf' = Append(buf,
       [id |-> i, def |-> asg[i].def, ts |-> clock', reading |-> reading,
        target |-> IF left.agent = "byId" THEN i ELSE asg[i].name,
        fp |-> IF left.agent = "bare" THEN NoFingerprint ELSE asg[i].def,
        gen |-> IF asg = Assignment THEN gen ELSE 0])
  /\ UNCHANGED <<registryVars, hubVars, reqs, cert, held, waiting, lost>>

-----------------------------------------------------------------------------
(* The ingest handler.                                                     *)

(* The target a reported name stands for: an id or, for an older agent, a  *)
(* current path.  When it is the id of one target and the path of another, *)
(* the fingerprint decides or nothing does.                                *)
Attribute(asg, r) ==
  LET X     == {r.target} \cap DOMAIN asg
      Y     == {i \in DOMAIN asg \ X : asg[i].name = r.target}
      match == {i \in X \cup Y : asg[i].def = r.fp}
  IN  IF X = {} THEN Y
      ELSE IF Y = {} THEN X
      ELSE IF r.fp = NoFingerprint \/ match = X \cup Y THEN {}
      ELSE IF match = Y THEN Y ELSE X

withinSkew(r) == r.ts + PastSkew >= clock

Verified(asg, i, r) == IF r.fp = NoFingerprint THEN ~left.strict ELSE r.fp = asg[i].def

(* The rounds a batch keeps, each stamped with its target's fingerprint in *)
(* the assignment the handler read; and, for the record, with what the     *)
(* target it was measured for was in it.                                   *)
Outcomes(asg, r) ==
  {[id |-> i, fp |-> asg[i].def, round |-> r,
    own |-> IF r.id \in DOMAIN asg THEN asg[r.id].def ELSE None] :
     i \in {j \in Attribute(asg, r) : withinSkew(r) /\ Verified(asg, j, r)}}
Validate(asg, rounds) == UNION {Outcomes(asg, r) : r \in Range(rounds)}

(* The flush loop posts what is buffered, whether or not an earlier post   *)
(* it gave up on is still in the handler; requireAgent lets it in.         *)
PushResults ==
  LET free == {q \in Slots : q <= left.posts /\ reqs[q] = Idle} IN
  /\ Authorised /\ waiting = 0 /\ buf # <<>> /\ free # {}
  /\ waiting' = Min(free)
  /\ reqs' = [reqs EXCEPT ![Min(free)] = [Idle EXCEPT !.phase = "received", !.rounds = buf]]
  /\ UNCHANGED <<registryVars, left, hubVars, cert, held, buf, clock, lost>>

AgentResults(q) ==
  /\ reqs[q].phase = "received"
  /\ reqs' = [reqs EXCEPT ![q].phase = "checked",
                          ![q].outs = Validate(Assignment, reqs[q].rounds)]
  /\ UNCHANGED <<registryVars, left, hubVars, agentVars>>

(* Seeded fault: the commit trusts the handler's snapshot.                 *)
KeptUnchecked(outs) == outs
Kept(outs) == {o \in outs : live[o.id].def = o.fp}

(* The rounds of kept the store does not have yet, by (target, vantage,    *)
(* ts), and the samples they make.                                         *)
Inserted(kept) ==
  {o \in kept : ~\E s \in stored : s.id = o.id /\ s.round.ts = o.round.ts}
Samples(outs, blind) ==
  {[id |-> o.id, round |-> o.round, as |-> live[o.id].def, own |-> o.own, blind |-> blind] :
     o \in outs}

(* Seeded fault: replayed rounds are evaluated too.                        *)
EvalKept(kept) ==
  [i \in Ids |-> [t \in 1..MaxRounds |->
     IF \E o \in kept : o.id = i /\ o.round.ts = t THEN Min({2, evals[i][t] + 1}) ELSE evals[i][t]]]
Eval(kept) ==
  [i \in Ids |-> [t \in 1..MaxRounds |->
     IF \E o \in Inserted(kept) : o.id = i /\ o.round.ts = t THEN evals[i][t] + 1 ELSE evals[i][t]]]

(* The commit, under the lock a reload needs: what is still current is     *)
(* written, and the engine evaluates what was new.                         *)
CommitRemote(q) ==
  LET kept == Kept(reqs[q].outs) IN
  /\ reqs[q].phase = "checked"
  /\ stored' = stored \cup Samples(Inserted(kept), FALSE)
  /\ evals' = Eval(kept)
  /\ reqs' = [reqs EXCEPT ![q].phase = "stored", ![q].outs = kept]
  /\ UNCHANGED <<registryVars, left, live, gen, seeded, stat, newest, agentVars>>

(* The write is reported as failed, though it may have been committed (the *)
(* connection or the request ended first): 503, and the agent keeps the    *)
(* batch.                                                                  *)
CommitFails(q, written) ==
  LET kept == Kept(reqs[q].outs) IN
  /\ reqs[q].phase = "checked" /\ kept # {}
  /\ stored' = IF written THEN stored \cup Samples(Inserted(kept), TRUE) ELSE stored
  /\ reqs' = [reqs EXCEPT ![q] = Idle]
  /\ waiting' = IF waiting = q THEN 0 ELSE waiting
  /\ UNCHANGED <<registryVars, left, live, gen, evals, seeded, stat, newest,
                 cert, held, buf, clock, lost>>

(* Seeded fault: an older reading replaces a newer one.                    *)
SetStatAnyway(cur, r, key) ==
  [ts |-> r.ts, key |-> key, set |-> r.reading, def |-> r.def]
SetStat(cur, r, key) ==
  IF r.ts < cur.ts THEN cur ELSE [ts |-> r.ts, key |-> key, set |-> r.reading, def |-> r.def]

(* The handler applies the newest reading of each target it committed, and *)
(* answers.  If the agent still waits, it releases the batch.              *)
Respond(q) ==
  LET Of(i) == {o \in reqs[q].outs : o.id = i}
      last(i) == CHOOSE o \in Of(i) : \A p \in Of(i) : p.round.ts <= o.round.ts
      n == Len(reqs[q].rounds)
  IN  /\ reqs[q].phase = "stored"
      /\ stat' = [i \in Ids |-> IF Of(i) = {} THEN stat[i]
                                ELSE SetStat(stat[i], last(i).round, StatKey[last(i).fp])]
      /\ newest' = [i \in Ids |-> Max({newest[i]} \cup {o.round.ts : o \in Of(i)})]
      /\ reqs' = [reqs EXCEPT ![q] = Idle]
      /\ IF waiting = q
         THEN /\ waiting' = 0 /\ buf' = SubSeq(buf, n + 1, Len(buf))
              /\ lost' = lost \cup {[round |-> r, gen |-> gen] : r \in
                   {r \in Range(reqs[q].rounds) :
                      ~\E s \in stored : s.round.ts = r.ts /\ s.id = r.id}}
         ELSE UNCHANGED <<waiting, buf, lost>>
      /\ UNCHANGED <<registryVars, left, live, gen, stored, evals, seeded,
                     cert, held, clock>>

(* The answer never reaches the agent, or its client times out.            *)
PushLost ==
  /\ waiting # 0 /\ Spend("losses")
  /\ waiting' = 0
  /\ UNCHANGED <<registryVars, hubVars, reqs, cert, held, buf, clock, lost>>

-----------------------------------------------------------------------------
(* Reloads, restarts, bundles.                                             *)

SwapRuntime(config) ==
  /\ config # live /\ Spend("events")
  /\ live' = config /\ gen' = gen + 1
  /\ UNCHANGED <<registryVars, stored, evals, seeded, stat, newest, reqs, agentVars>>

(* The hub dies with its engine, readings and requests; the next one seeds *)
(* its windows from the store.                                             *)
Reboot(samples) ==
  /\ Spend("events")
  /\ stored' = samples
  /\ seeded' = {<<s.id, s.round.ts>> : s \in samples}
  /\ evals' = Never
  /\ stat' = [i \in Ids |-> NoStat] /\ newest' = [i \in Ids |-> 0]
  /\ reqs' = [q \in Slots |-> Idle] /\ waiting' = 0
  /\ UNCHANGED <<registryVars, live, gen, cert, held, buf, clock, lost>>

HubRestarts == Reboot(stored)

(* It dies after the write, before it evaluates or answers.                *)
HubDiesInCommit(q) ==
  /\ reqs[q].phase = "checked"
  /\ Reboot(stored \cup Samples(Inserted(Kept(reqs[q].outs)), FALSE))

(* The agent's buffer is in its spool (AgentSpool.tla).                    *)
AgentStarts(c) ==
  /\ cert' = c
  /\ held' = {} /\ waiting' = 0
  /\ UNCHANGED <<registryVars, hubVars, reqs, buf, clock, lost>>

AgentRestarts == Spend("events") /\ AgentStarts(cert)

(* Its operator installs a newer bundle.                                   *)
InstallBundle(c) ==
  /\ cert.serial < c.serial
  /\ UNCHANGED left /\ AgentStarts(c)

-----------------------------------------------------------------------------
FederationInit ==
  /\ live \in Boots /\ gen = 1
  /\ stored = {} /\ evals = Never /\ seeded = {}
  /\ stat = [i \in Ids |-> NoStat] /\ newest = [i \in Ids |-> 0]
  /\ reqs = [q \in Slots |-> Idle]
  /\ cert = IF handed = {} THEN NoCert ELSE OldCert
  /\ held = {} /\ buf = <<>> /\ clock = 0 /\ waiting = 0 /\ lost = {}

Init == RegistryInit /\ FederationInit

Next ==
  \/ RegistryNext /\ UNCHANGED <<hubVars, reqs, agentVars>>
  \/ PullAssignment \/ PushResults \/ PushLost
  \/ \E asg \in held, i \in Ids, reading \in BOOLEAN : Measure(asg, i, reading)
  \/ \E q \in Slots : AgentResults(q) \/ CommitRemote(q) \/ Respond(q) \/ HubDiesInCommit(q)
  \/ \E q \in Slots, written \in BOOLEAN : CommitFails(q, written)
  \/ \E config \in Configs : SwapRuntime(config)
  \/ HubRestarts \/ AgentRestarts
  \/ \E c \in handed : InstallBundle(c)

(* The agent polls and posts again and again, handlers run to their end,   *)
(* and the database does not refuse every write forever.  That the network *)
(* loses no more than a scene's number of answers is the other assumption. *)
Fairness ==
  /\ WF_vars(PullAssignment) /\ WF_vars(PushResults)
  /\ \A q \in Slots : WF_vars(AgentResults(q)) /\ SF_vars(CommitRemote(q)) /\ WF_vars(Respond(q))

Spec == Init /\ [][Next]_vars /\ Fairness

-----------------------------------------------------------------------------
(* A stored round was measured under the definition its target had when it *)
(* was stored, unless it carries no fingerprint; and the round of an agent *)
(* that reports ids is stored under another id only if its own target was  *)
(* not assigned as it had measured it when the handler looked ("attributed *)
(* to the same storage identity the assignment named").                    *)
StoredUnderItsMeaning ==
  \A s \in stored :
    /\ s.round.def = s.as \/ s.round.fp = NoFingerprint
    /\ left.agent = "byId" /\ s.id # s.round.id => s.own # s.round.def

(* A name two targets answer to, the one's id and the other's path, of     *)
(* which the fingerprint cannot tell which is meant.                       *)
Doubtful(r) ==
  \E i, j \in DOMAIN Assignment :
    /\ i # j /\ i = r.target /\ Assignment[j].name = r.target
    /\ r.fp = NoFingerprint \/ Assignment[i].def = Assignment[j].def

(* A round measured by an agent that was up to date is not dropped, nor    *)
(* stored under another target only, while no reload comes, unless it is   *)
(* doubtful, too old, or the hub insists on a fingerprint it lacks.        *)
CurrentRoundsAreStored ==
  \A l \in lost : (l.gen = l.round.gen /\ l.gen = gen) =>
    \/ ~withinSkew(l.round)
    \/ left.strict /\ l.round.fp = NoFingerprint
    \/ Doubtful(l.round)

(* What reaches the store is what the assignment asks for, no more and no  *)
(* less.                                                                   *)
RoundsKeepTheirMeaning == StoredUnderItsMeaning /\ CurrentRoundsAreStored

(* The engine is given each stored round exactly once, by the seed of its  *)
(* start or by the ingest that stored it, however often a batch is posted, *)
(* unless the write that stored it was reported as failed; and no round    *)
(* that is not stored.                                                     *)
AlertsSeeEachRoundOnce ==
  \A i \in Ids, t \in 1..MaxRounds :
    LET of == {s \in stored : s.id = i /\ s.round.ts = t}
        n  == evals[i][t] + (IF <<i, t>> \in seeded THEN 1 ELSE 0)
    IN  /\ n <= Cardinality(of)
        /\ \A s \in of : n = 1 \/ s.blind

(* A clock reading shown for a target is the newest one applied, and of    *)
(* the server the target names now; of an agent without fingerprints, only *)
(* the newest: the hub takes it to have measured what is assigned.         *)
Shown(i) == stat[i].set /\ live[i] # Absent /\ stat[i].key = StatKey[live[i].def]
ShownReadingIsNewest ==
  \A i \in Ids : Shown(i) =>
    /\ stat[i].ts = newest[i]
    /\ left.agent # "bare" => StatKey[stat[i].def] = StatKey[live[i].def]

(* An agent whose certificate stays good ends up running the live          *)
(* assignment with nothing left in its buffer.                             *)
AgentSettles == <>[]Authorised => <>[](held = {Assignment} /\ buf = <<>>)

=============================================================================
