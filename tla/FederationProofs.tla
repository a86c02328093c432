-------------------------- MODULE FederationProofs --------------------------
(***************************************************************************)
(* Proofs about VantageRegistry and Federation, for every set of issuers,  *)
(* targets, configs and scenes.                                            *)
(*                                                                         *)
(* CredentialsFollowRegistration: a certificate is signed by an authority  *)
(* read earlier, and its serial recorded for a row that may have been      *)
(* deleted and made again meanwhile.  What carries it is that the          *)
(* authority never changes once it exists, that a deleted row leaves no    *)
(* serials, and that a row which accepts serials unseen is one that no     *)
(* revocation has touched.                                                 *)
(*                                                                         *)
(* RoundsKeepTheirMeaning: rounds are checked in one step and stored in a  *)
(* later one, perhaps after a reload.  What carries the first half is that *)
(* every outcome of the handler's check is stamped with the definition it  *)
(* was checked against, and that the target named by its id wins while it  *)
(* is assigned as the round's; what carries the second is a promise about  *)
(* each round of a request, phase by phase, that lasts while no reload     *)
(* comes.                                                                  *)
(*                                                                         *)
(* AlertsSeeEachRoundOnce and ShownReadingIsNewest: batches are posted     *)
(* again and overtake each other.  What carries both is that a round's     *)
(* time names it, wherever its copies lie; then that the store keeps one   *)
(* sample of a key, given to the live engine once, and that the reading    *)
(* kept for a target is the last applied, under its own round's server.    *)
(***************************************************************************)
EXTENDS Federation, FiniteSetTheorems, SequenceTheorems, WellFoundedInduction, TLAPS

(* Certificates are numbered, and of the one authority.                    *)
CertificatesOK ==
  /\ IsFiniteSet(handed)
  /\ \A c \in handed : c.serial \in 0 .. Cardinality(handed) /\ c.ca = ca /\ ca # None
  /\ \A n \in serials : n \in 0 .. Cardinality(handed)
  /\ revoked \subseteq handed

(* Calls of CA() happen after the migration, and agree on the authority.   *)
TasksOK ==
  /\ task = [p \in Processes |-> [at |-> task[p].at, ca |-> task[p].ca]]
  /\ \A p \in Processes :
       /\ task[p].at \in {"idle", "started", "generated", "ready", "done"}
       /\ task[p].at = "ready" => task[p].ca = ca /\ ca # None
       /\ task[p].at \in {"generated", "ready"} => migrated

(* What each kind of row says of the certificates.                         *)
RowOK ==
  /\ migrated \in BOOLEAN /\ row \in {None, "plain", "legacy"}
  /\ ~migrated => revoked = {}
  /\ row = None => serials = {} /\ handed \subseteq revoked
  /\ row = "legacy" => revoked = {}
  /\ row = "plain" /\ migrated => \A c \in handed : c.serial \in serials <=> c \notin revoked

RegistryInv == CertificatesOK /\ TasksOK /\ RowOK

-----------------------------------------------------------------------------
LEMMA InitRegistryInv == Init => RegistryInv
<1>. SUFFICES ASSUME Init PROVE RegistryInv
  OBVIOUS
<1>1. handed = {} \/ (handed = {OldCert} /\ ca = "old")
  BY DEF Init, RegistryInit
<1>2. CertificatesOK
  <2>1. CASE handed = {}
    BY <2>1, FS_EmptySet DEF Init, RegistryInit, CertificatesOK
  <2>2. CASE handed = {OldCert} /\ ca = "old"
    <3>1. IsFiniteSet(handed) /\ Cardinality(handed) = 1
      BY <2>2, FS_Singleton
    <3>. QED  BY <3>1, <2>2 DEF Init, RegistryInit, CertificatesOK, OldCert, None
  <2>. QED  BY <1>1, <2>1, <2>2
<1>3. TasksOK
  BY DEF Init, RegistryInit, TasksOK
<1>4. RowOK
  BY DEF Init, RegistryInit, RowOK, None
<1>. QED  BY <1>2, <1>3, <1>4 DEF RegistryInv

(* A process gets further in its call of CA().                             *)
LEMMA TaskAdvances ==
  ASSUME TasksOK, NEW p \in Processes, NEW at, task' = [task EXCEPT ![p].at = at]
  PROVE  /\ task' = [q \in Processes |-> [at |-> task'[q].at, ca |-> task'[q].ca]]
         /\ task'[p] = [at |-> at, ca |-> task[p].ca]
         /\ \A q \in Processes \ {p} : task'[q] = task[q]
<1>1. p \in DOMAIN task /\ DOMAIN task = Processes
  BY DEF TasksOK
<1>2. task[p] = [at |-> task[p].at, ca |-> task[p].ca]
  BY DEF TasksOK
<1>3. task'[p] = [task[p] EXCEPT !.at = at]
  BY <1>1
<1>4. task'[p] = [at |-> at, ca |-> task[p].ca]
  BY <1>2, <1>3
<1>5. DOMAIN task' = Processes /\ \A q \in Processes \ {p} : task'[q] = task[q]
  BY <1>1
<1>6. \A q \in Processes : task'[q] = [at |-> task'[q].at, ca |-> task'[q].ca]
  BY <1>4, <1>5 DEF TasksOK
<1>7. task' = [q \in Processes |-> task'[q]]
  BY <1>1
<1>. QED  BY <1>4, <1>5, <1>6, <1>7

(* The schema, adds and revocations.                                       *)
LEMMA RowStepsRegistryInv ==
  ASSUME RegistryInv, New \/ Revoke \/ \E p \in Issuers : Register(p)
  PROVE  RegistryInv'
<1>. USE DEF RegistryInv
<1>1. CASE New
  BY <1>1 DEF New, CertificatesOK, TasksOK, RowOK, None
<1>2. CASE Revoke
  BY <1>2 DEF Revoke, CertificatesOK, TasksOK, RowOK, None
<1>3. ASSUME NEW p \in Issuers, Register(p)  PROVE RegistryInv'
  <2>1. p \in Processes /\ task' = [task EXCEPT ![p].at = "started"]
    BY <1>3 DEF Register, Processes
  <2>2. /\ task' = [q \in Processes |-> [at |-> task'[q].at, ca |-> task'[q].ca]]
        /\ task'[p] = [at |-> "started", ca |-> task[p].ca]
        /\ \A q \in Processes \ {p} : task'[q] = task[q]
    BY <2>1, TaskAdvances
  <2>3. migrated' = migrated /\ ca' = ca
    BY <1>3 DEF Register
  <2>4. TasksOK'
    BY <2>2, <2>3 DEF TasksOK
  <2>. QED  BY <1>3, <2>4 DEF Register, CertificatesOK, RowOK, None
<1>. QED  BY <1>1, <1>2, <1>3

(* The two transactions of CA().                                           *)
LEMMA AuthorityRegistryInv ==
  ASSUME RegistryInv, NEW p \in Processes, SelectCA(p) \/ PersistCA(p)
  PROVE  RegistryInv'
<1>. USE DEF RegistryInv
<1>1. CASE SelectCA(p)
  <2>1. TasksOK'
    BY <1>1 DEF SelectCA, TasksOK, tables
  <2>. QED  BY <1>1, <2>1 DEF SelectCA, CertificatesOK, RowOK, tables
<1>2. CASE PersistCA(p)
  <2>1. p # None
    BY RegistryAssumption DEF Processes, Hub, None
  <2>2. TasksOK'
    BY <1>2, <2>1 DEF PersistCA, TasksOK
  <2>. QED  BY <1>2, <2>1, <2>2 DEF PersistCA, CertificatesOK, RowOK
<1>. QED  BY <1>1, <1>2

(* A certificate is handed out with a serial of its own.                   *)
LEMMA IssueRegistryInv ==
  ASSUME RegistryInv, NEW p \in Issuers, IssueClientCert(p)
  PROVE  RegistryInv'
<1>. USE DEF RegistryInv
<1>. DEFINE new == [serial |-> Cardinality(handed) + 1, ca |-> task[p].ca]
<1>1. p \in Processes /\ task[p].ca = ca /\ ca # None /\ migrated
  BY DEF IssueClientCert, TasksOK, Processes
<1>2. TasksOK'
  <2>1. task' = [task EXCEPT ![p].at = "done"] /\ UNCHANGED <<migrated, ca>>
    BY DEF IssueClientCert
  <2>2. /\ task' = [q \in Processes |-> [at |-> task'[q].at, ca |-> task'[q].ca]]
        /\ task'[p] = [at |-> "done", ca |-> task[p].ca]
        /\ \A q \in Processes \ {p} : task'[q] = task[q]
    BY <1>1, <2>1, TaskAdvances
  <2>. QED  BY <2>1, <2>2 DEF TasksOK
<1>3. CASE row = None
  BY <1>2, <1>3 DEF IssueClientCert, CertificatesOK, RowOK
<1>4. CASE row # None
  <2>1. serials' = serials \cup {new.serial} /\ handed' = handed \cup {new}
    BY <1>4 DEF IssueClientCert
  <2>2. Cardinality(handed) \in Nat
    BY FS_CardinalityType DEF CertificatesOK
  <2>3. new \notin handed
    BY <2>2 DEF CertificatesOK
  <2>4. IsFiniteSet(handed') /\ Cardinality(handed') = Cardinality(handed) + 1
    BY <2>1, <2>3, FS_AddElement DEF CertificatesOK
  <2>5. CertificatesOK'
    <3>1. ca' = ca /\ revoked' = revoked
      BY DEF IssueClientCert
    <3>2. new.serial = Cardinality(handed) + 1 /\ new.ca = ca
      BY <1>1
    <3>3. \A c \in handed' : c.serial \in 0 .. Cardinality(handed) + 1 /\ c.ca = ca
      BY <2>1, <2>2, <3>2 DEF CertificatesOK
    <3>4. \A n \in serials' : n \in 0 .. Cardinality(handed) + 1
      <4>1. serials' = serials \cup {Cardinality(handed) + 1}
        BY <2>1, <3>2
      <4>2. \A n \in serials : n \in 0 .. Cardinality(handed)
        BY DEF CertificatesOK
      <4>. QED  BY <2>2, <4>1, <4>2
    <3>5. revoked' \subseteq handed'
      BY <2>1, <3>1 DEF CertificatesOK
    <3>6. \A c \in handed' : c.serial \in 0 .. Cardinality(handed') /\ c.ca = ca' /\ ca' # None
      BY <1>1, <2>4, <3>1, <3>3
    <3>. QED  BY <2>4, <3>4, <3>5, <3>6 DEF CertificatesOK
  <2>6. RowOK'
    BY <1>1, <1>4, <2>1, <2>2, <2>3 DEF IssueClientCert, RowOK, CertificatesOK
  <2>. QED  BY <1>2, <2>5, <2>6
<1>. QED  BY <1>3, <1>4

LEMMA NextRegistryInv == RegistryInv /\ [Next]_vars => RegistryInv'
<1>. SUFFICES ASSUME RegistryInv, [Next]_vars PROVE RegistryInv'
  OBVIOUS
<1>1. CASE RegistryNext
  BY <1>1, RowStepsRegistryInv, AuthorityRegistryInv, IssueRegistryInv DEF RegistryNext
<1>2. CASE UNCHANGED registryVars
  BY <1>2 DEF registryVars, tables, RegistryInv, CertificatesOK, TasksOK, RowOK
<1>3. RegistryNext \/ UNCHANGED registryVars
  BY DEF Next, vars, PullAssignment, PushResults, PushLost, Measure, AgentResults,
         CommitRemote, Respond, HubDiesInCommit, CommitFails, SwapRuntime, HubRestarts,
         Reboot, AgentRestarts, InstallBundle, AgentStarts
<1>. QED  BY <1>1, <1>2, <1>3

(* A listening hub accepts exactly the certificates handed out since the   *)
(* last revocation, whatever calls race for the row and for the authority. *)
THEOREM RegistryIsTheAuthority == Spec => []CredentialsFollowRegistration
<1>1. RegistryInv => CredentialsFollowRegistration
  <2>. SUFFICES ASSUME RegistryInv, Listening, NEW c \in handed
               PROVE  Accepts(c) <=> c \notin revoked
    BY DEF CredentialsFollowRegistration
  <2>1. c.ca = task[Hub].ca /\ migrated
    BY DEF RegistryInv, CertificatesOK, TasksOK, Listening, Processes
  <2>. QED  BY <2>1 DEF RegistryInv, RowOK, Accepts, IsActive, None
<1>. QED  BY <1>1, InitRegistryInv, NextRegistryInv, PTL DEF Spec
-----------------------------------------------------------------------------
(* A round is what the agent's assignment said; when the agent was up to   *)
(* date, and still is, that is what the hub's says.                        *)
RoundOK(r) ==
  /\ r.fp \in {NoFingerprint, r.def} /\ r.def # None
  /\ left.agent = "byId" => r.target = r.id /\ r.fp = r.def
  /\ r.ts \in Nat /\ r.gen \in 0 .. gen
  /\ r.gen = gen => /\ r.id \in DOMAIN Assignment /\ Assignment[r.id].def = r.def
                    /\ r.target \in {r.id, Assignment[r.id].name}

(* Why the hub may drop it all the same.                                   *)
Excused(r) ==
  \/ ~withinSkew(r)
  \/ left.strict /\ r.fp = NoFingerprint
  \/ Doubtful(r)

Current(r) == r.gen = gen /\ ~Excused(r)

(* An outcome is stamped with the def its round was checked against.       *)
OutcomeOK(o) ==
  /\ o.round.fp \in {NoFingerprint, o.round.def} /\ o.round.fp \in {NoFingerprint, o.fp}
  /\ left.agent = "byId" /\ o.id # o.round.id => o.own # o.round.def

(* What the handler makes of a round nothing excuses.                      *)
OutcomeOf(o, r) == o.id = r.id /\ o.fp = r.def /\ o.round = r
StoredAs(s, r) == s.round.ts = r.ts /\ s.id = r.id

BufferOK ==
  /\ buf \in Seq(Range(buf))
  /\ \A r \in Range(buf) : RoundOK(r)

(* What the handler has promised about the rounds of a request.            *)
RequestOK(q) ==
  /\ reqs[q] = [phase |-> reqs[q].phase, rounds |-> reqs[q].rounds, outs |-> reqs[q].outs]
  /\ Len(reqs[q].rounds) \in Nat
  /\ \A r \in Range(reqs[q].rounds) : RoundOK(r)
  /\ \A o \in reqs[q].outs : OutcomeOK(o)
  /\ reqs[q].phase = "checked" =>
       \A r \in Range(reqs[q].rounds) :
         Current(r) => \E o \in reqs[q].outs : OutcomeOf(o, r)
  /\ reqs[q].phase = "stored" =>
       \A r \in Range(reqs[q].rounds) : Current(r) => \E s \in stored : StoredAs(s, r)

RequestsOK ==
  /\ reqs = [q \in Slots |-> reqs[q]]
  /\ \A q \in Slots : RequestOK(q)

LostOK ==
  \A l \in lost :
    /\ l.round.ts \in Nat /\ l.gen \in 0 .. gen
    /\ l.gen = gen /\ l.round.gen = gen => Excused(l.round)

BasicsOK ==
  /\ gen \in Nat \ {0} /\ clock \in Nat
  /\ {"strict", "agent"} \subseteq DOMAIN left
  /\ live \in Boots \cup Configs

MeaningInv == BasicsOK /\ BufferOK /\ RequestsOK /\ LostOK /\ StoredUnderItsMeaning

-----------------------------------------------------------------------------
LEMMA InitMeaningInv == Init => MeaningInv
<1>. SUFFICES ASSUME Init PROVE MeaningInv
  OBVIOUS
<1>1. BasicsOK
  BY FederationAssumption DEF Init, RegistryInit, FederationInit, BasicsOK
<1>2. BufferOK
  BY DEF Init, FederationInit, BufferOK, Range
<1>3. RequestsOK
  <2>1. reqs = [q \in Slots |-> Idle]
    BY DEF Init, FederationInit
  <2>2. ASSUME NEW q \in Slots PROVE RequestOK(q)
    BY <2>1 DEF RequestOK, Idle, Range
  <2>. QED  BY <2>1, <2>2 DEF RequestsOK
<1>4. LostOK /\ StoredUnderItsMeaning
  BY DEF Init, FederationInit, LostOK, StoredUnderItsMeaning
<1>. QED  BY <1>1, <1>2, <1>3, <1>4 DEF MeaningInv

(* The steps of a scene spend its bounds and nothing else of it.           *)
SceneStays ==
  /\ left'.strict = left.strict /\ left'.agent = left.agent
  /\ {"strict", "agent"} \subseteq DOMAIN left'

LEMMA SpendKeeps ==
  ASSUME BasicsOK, NEW what \in {"admin", "rounds", "events", "losses"}, Spend(what)
  PROVE  SceneStays
BY DEF Spend, BasicsOK, SceneStays

(* What a step that brings no reload leaves true.                          *)
SameRuntime ==
  /\ live' = live /\ gen' = gen /\ SceneStays
  /\ clock' \in Nat /\ clock' >= clock
  /\ \A s \in stored : s \in stored'

LEMMA RoundsStayOK ==
  ASSUME SameRuntime, NEW r, RoundOK(r)
  PROVE  RoundOK(r)'
BY DEF SameRuntime, SceneStays, RoundOK, Assignment

LEMMA ExcusesStay ==
  ASSUME BasicsOK, SameRuntime, NEW r, r.ts \in Nat, Excused(r)
  PROVE  Excused(r)'
<1>1. Assignment' = Assignment
  BY DEF SameRuntime, Assignment
<1>2. withinSkew(r)' => withinSkew(r)
  BY FederationAssumption DEF SameRuntime, BasicsOK, withinSkew
<1>3. Doubtful(r)' <=> Doubtful(r)
  BY <1>1 DEF Doubtful
<1>4. (left.strict /\ r.fp = NoFingerprint) => (left.strict /\ r.fp = NoFingerprint)'
  BY DEF SameRuntime, SceneStays
<1>. QED  BY <1>2, <1>3, <1>4 DEF Excused

LEMMA RequestStaysOK ==
  ASSUME BasicsOK, SameRuntime, NEW q \in Slots, RequestOK(q), reqs'[q] = reqs[q]
  PROVE  RequestOK(q)'
<1>1. \A r : RoundOK(r) => RoundOK(r)'
  BY RoundsStayOK
<1>2. \A r : RoundOK(r) /\ Current(r)' => Current(r)
  BY ExcusesStay DEF RoundOK, Current, SameRuntime
<1>3. \A o : OutcomeOK(o) => OutcomeOK(o)'
  BY DEF OutcomeOK, SameRuntime, SceneStays
<1>. QED  BY <1>1, <1>2, <1>3 DEF RequestOK, SameRuntime, OutcomeOf, StoredAs

LEMMA LostStaysOK ==
  ASSUME BasicsOK, SameRuntime, LostOK, lost' = lost
  PROVE  LostOK'
<1>. SUFFICES ASSUME NEW l \in lost
             PROVE  /\ l.round.ts \in Nat /\ l.gen \in 0 .. gen
                    /\ l.gen = gen /\ l.round.gen = gen => Excused(l.round)'
  BY DEF LostOK, SameRuntime
<1>. QED  BY ExcusesStay DEF LostOK

LEMMA MeaningStays ==
  ASSUME SameRuntime, StoredUnderItsMeaning, stored' = stored
  PROVE  StoredUnderItsMeaning'
BY DEF SameRuntime, SceneStays, StoredUnderItsMeaning

LEMMA BufferStaysOK ==
  ASSUME SameRuntime, BufferOK, buf' = buf
  PROVE  BufferOK'
BY RoundsStayOK DEF BufferOK

(* Only one request changes.                                               *)
OthersStay(q) ==
  /\ reqs' = [p \in Slots |-> reqs'[p]]
  /\ \A p \in Slots \ {q} : reqs'[p] = reqs[p]

LEMMA OneRequest ==
  ASSUME BasicsOK, SameRuntime, RequestsOK, NEW q, OthersStay(q),
         q \in Slots => RequestOK(q)'
  PROVE  RequestsOK'
<1>1. ASSUME NEW p \in Slots PROVE RequestOK(p)'
  <2>1. CASE p = q
    BY <2>1
  <2>2. CASE p # q
    BY <2>2, RequestStaysOK DEF RequestsOK, OthersStay
  <2>. QED  BY <2>1, <2>2
<1>. QED  BY <1>1 DEF RequestsOK, OthersStay

(* A request gets to its next phase.                                       *)
Advanced(q, phase, outs) == [reqs EXCEPT ![q].phase = phase, ![q].outs = outs]

LEMMA RequestAdvances ==
  ASSUME RequestsOK, NEW q \in Slots, NEW phase, NEW outs,
         reqs' = Advanced(q, phase, outs)
  PROVE  /\ OthersStay(q)
         /\ reqs'[q] = [phase |-> phase, rounds |-> reqs[q].rounds, outs |-> outs]
<1>. DEFINE one == [reqs EXCEPT ![q].phase = phase]
<1>1. DOMAIN reqs = Slots /\ RequestOK(q)
  BY DEF RequestsOK
<1>2. one[q] = [phase |-> phase, rounds |-> reqs[q].rounds, outs |-> reqs[q].outs]
  BY <1>1 DEF RequestOK
<1>3. DOMAIN one = Slots /\ \A p \in Slots \ {q} : one[p] = reqs[p]
  BY <1>1
<1>. HIDE DEF one
<1>4. reqs' = [one EXCEPT ![q].outs = outs]
  BY DEF one, Advanced
<1>5. reqs'[q] = [one[q] EXCEPT !.outs = outs]
  BY <1>3, <1>4
<1>6. reqs'[q] = [phase |-> phase, rounds |-> reqs[q].rounds, outs |-> outs]
  BY <1>2, <1>5
<1>7. OthersStay(q)
  BY <1>3, <1>4 DEF OthersStay
<1>. QED  BY <1>6, <1>7

LEMMA IdleIsOK ==
  ASSUME NEW q, reqs'[q] = Idle
  PROVE  RequestOK(q)'
BY DEF RequestOK, Idle, Range

-----------------------------------------------------------------------------
(* The agent.                                                              *)
LEMMA MeasureMeaningInv ==
  ASSUME MeaningInv, NEW asg \in held, NEW i \in Ids, NEW reading \in BOOLEAN,
         Measure(asg, i, reading)
  PROVE  MeaningInv'
<1>1. SameRuntime /\ BasicsOK' /\ Assignment' = Assignment
  BY SpendKeeps DEF Measure, hubVars, MeaningInv, SameRuntime, SceneStays, BasicsOK, Assignment
<1>2. PICK r : r = [id |-> i, def |-> asg[i].def, ts |-> clock', reading |-> reading,
                    target |-> IF left.agent = "byId" THEN i ELSE asg[i].name,
                    fp |-> IF left.agent = "bare" THEN NoFingerprint ELSE asg[i].def,
                    gen |-> IF asg = Assignment THEN gen ELSE 0]
  OBVIOUS
<1>3. BufferOK'
  <2>1. buf' = Append(buf, r) /\ i \in DOMAIN asg
    BY <1>2 DEF Measure, BuildJobs
  <2>2. RoundOK(r)'
    <3>1. gen' = gen /\ gen \in Nat \ {0} /\ clock' \in Nat
      BY <1>1 DEF SameRuntime, MeaningInv, BasicsOK
    <3>2. r.id = i /\ r.def = asg[i].def /\ r.ts = clock' /\ r.fp \in {NoFingerprint, r.def}
      BY <1>2
    <3>3. r.gen = IF asg = Assignment THEN gen ELSE 0
      BY <1>2
    <3>4. r.gen \in 0 .. gen /\ (r.gen = gen => asg = Assignment)
      BY <3>1, <3>3
    <3>5. r.def # None
      BY <3>2, FederationAssumption DEF Measure, BuildJobs
    <3>6. /\ left'.agent = left.agent
          /\ r.target = IF left.agent = "byId" THEN i ELSE asg[i].name
          /\ left.agent = "byId" => r.target = r.id /\ r.fp = r.def
      BY <1>1, <1>2 DEF SameRuntime, SceneStays
    <3>7. r.gen = gen => /\ r.id \in DOMAIN Assignment /\ Assignment[r.id].def = r.def
                        /\ r.target \in {r.id, Assignment[r.id].name}
      BY <2>1, <3>2, <3>4, <3>6
    <3>. QED  BY <1>1, <3>1, <3>2, <3>4, <3>5, <3>6, <3>7 DEF RoundOK
  <2>3. buf \in Seq(Range(buf) \cup {r})
    BY DEF MeaningInv, BufferOK
  <2>4. Range(buf') = Range(buf) \cup {r}
    BY <2>1, <2>3, AppendProperties DEF Range
  <2>5. buf' \in Seq(Range(buf'))
    BY <2>1, <2>3, <2>4
  <2>6. \A x \in Range(buf) : RoundOK(x)'
    BY <1>1, RoundsStayOK DEF MeaningInv, BufferOK
  <2>7. \A x \in Range(buf') : RoundOK(x)'
    BY <2>2, <2>4, <2>6
  <2>. QED  BY <2>5, <2>7 DEF BufferOK
<1>4. RequestsOK'
  <2>1. reqs' = reqs
    BY DEF Measure
  <2>. QED  BY <1>1, <2>1, RequestStaysOK DEF MeaningInv, RequestsOK
<1>5. LostOK' /\ StoredUnderItsMeaning'
  BY <1>1, LostStaysOK, MeaningStays DEF Measure, hubVars, MeaningInv
<1>. QED  BY <1>1, <1>3, <1>4, <1>5 DEF MeaningInv

LEMMA BatchPosted ==
  ASSUME RequestsOK, NEW q \in Slots,
         reqs' = [reqs EXCEPT ![q] = [Idle EXCEPT !.phase = "received", !.rounds = buf]]
  PROVE  reqs'[q] = [phase |-> "received", rounds |-> buf, outs |-> {}]
<1>. DEFINE one == [Idle EXCEPT !.phase = "received"]
<1>1. one = [phase |-> "received", rounds |-> Idle.rounds, outs |-> {}]
  BY DEF Idle
<1>. HIDE DEF one
<1>2. reqs'[q] = [one EXCEPT !.rounds = buf]
  BY DEF RequestsOK, one
<1>3. [one EXCEPT !.rounds = buf] = [phase |-> "received", rounds |-> buf, outs |-> {}]
  BY <1>1
<1>. QED  BY <1>2, <1>3

LEMMA PushMeaningInv ==
  ASSUME MeaningInv, PushResults
  PROVE  MeaningInv'
<1>1. SameRuntime /\ BasicsOK'
  BY DEF PushResults, hubVars, MeaningInv, SameRuntime, SceneStays, BasicsOK
<1>2. RequestsOK'
  <2>1. PICK q : reqs' = [reqs EXCEPT ![q] =
                            [Idle EXCEPT !.phase = "received", !.rounds = buf]]
    BY DEF PushResults
  <2>2. OthersStay(q)
    BY <2>1 DEF MeaningInv, RequestsOK, OthersStay
  <2>3. ASSUME q \in Slots PROVE RequestOK(q)'
    <3>1. reqs'[q] = [phase |-> "received", rounds |-> buf, outs |-> {}]
      BY <2>1, <2>3, BatchPosted DEF MeaningInv
    <3>2. \A r \in Range(buf) : RoundOK(r)'
      BY <1>1, RoundsStayOK DEF MeaningInv, BufferOK
    <3>3. Len(buf) \in Nat
      BY LenProperties DEF MeaningInv, BufferOK
    <3>. QED  BY <3>1, <3>2, <3>3 DEF RequestOK
  <2>. QED  BY <1>1, <2>2, <2>3, OneRequest DEF MeaningInv
<1>3. BufferOK' /\ LostOK' /\ StoredUnderItsMeaning'
  BY <1>1, BufferStaysOK, LostStaysOK, MeaningStays DEF PushResults, hubVars, MeaningInv
<1>. QED  BY <1>1, <1>2, <1>3 DEF MeaningInv

(* Paths are unique among the targets of a vantage.                        *)
LEMMA NamesDiffer ==
  ASSUME BasicsOK, NEW i \in DOMAIN Assignment, NEW j \in DOMAIN Assignment, i # j
  PROVE  Assignment[i].name # Assignment[j].name
<1>1. i \in Ids /\ j \in Ids /\ live[i].here /\ live[j].here
  BY DEF Assignment, AssignmentFor
<1>2. live[i] # Absent /\ live[j] # Absent
  BY <1>1 DEF Absent
<1>3. live[i].name # live[j].name
  BY <1>1, <1>2, FederationAssumption DEF BasicsOK
<1>. QED  BY <1>3 DEF Assignment, AssignmentFor

(* What the hub takes a current round to be of, unless it is doubtful.     *)
LEMMA CurrentIsAttributed ==
  ASSUME BasicsOK, NEW r, RoundOK(r), r.gen = gen, ~Doubtful(r)
  PROVE  r.id \in Attribute(Assignment, r)
<1>. DEFINE asg == Assignment
           X == {r.target} \cap DOMAIN asg
           Y == {i \in DOMAIN asg \ X : asg[i].name = r.target}
           match == {i \in X \cup Y : asg[i].def = r.fp}
<1>1. /\ r.id \in DOMAIN asg /\ asg[r.id].def = r.def /\ r.fp \in {NoFingerprint, r.def}
      /\ r.target \in {r.id, asg[r.id].name}
  BY DEF RoundOK
<1>2. r.id \in X \cup Y
  BY <1>1
<1>3. \A i \in X, j \in Y : r.fp # NoFingerprint /\ asg[i].def # asg[j].def
  BY DEF Doubtful
<1>4. CASE X = {} \/ Y = {}
  BY <1>2, <1>4 DEF Attribute
<1>5. CASE X # {} /\ Y # {}
  <2>1. r.fp = r.def /\ r.id \in match
    BY <1>1, <1>2, <1>3, <1>5
  <2>2. match # X \cup Y
    BY <1>3, <1>5
  <2>3. CASE r.id \in X
    BY <1>2, <1>5, <2>1, <2>2, <2>3, <1>3 DEF Attribute
  <2>4. CASE r.id \in Y
    <3>1. Y = {r.id}
      BY <1>1, <2>4, NamesDiffer
    <3>2. match = Y
      BY <1>3, <1>5, <2>1, <3>1
    <3>. QED  BY <1>3, <1>5, <2>1, <2>2, <2>4, <3>2 DEF Attribute
  <2>. QED  BY <1>2, <2>3, <2>4
<1>. QED  BY <1>4, <1>5

(* A round named by its id is taken to be of another target only if its    *)
(* own is not assigned as it was measured.                                 *)
LEMMA IdsComeFirst ==
  ASSUME NEW asg, NEW r, r.target = r.id, r.fp = r.def,
         NEW i \in Attribute(asg, r), i # r.id, r.id \in DOMAIN asg
  PROVE  asg[r.id].def # r.def
<1>. DEFINE X == {r.target} \cap DOMAIN asg
           Y == {j \in DOMAIN asg \ X : asg[j].name = r.target}
           match == {j \in X \cup Y : asg[j].def = r.fp}
<1>1. X = {r.id} /\ r.id \notin Y
  OBVIOUS
<1>2. match = Y
  BY <1>1 DEF Attribute
<1>. QED  BY <1>1, <1>2

LEMMA OutcomesAreOK ==
  ASSUME NEW asg, NEW r, RoundOK(r), NEW o \in Outcomes(asg, r)
  PROVE  OutcomeOK(o)
<1>1. PICK i \in Attribute(asg, r) :
        /\ Verified(asg, i, r)
        /\ o = [id |-> i, fp |-> asg[i].def, round |-> r,
                own |-> IF r.id \in DOMAIN asg THEN asg[r.id].def ELSE None]
  BY DEF Outcomes
<1>2. o.round = r /\ o.fp = asg[i].def /\ o.id = i
  BY <1>1
<1>3. o.own = IF r.id \in DOMAIN asg THEN asg[r.id].def ELSE None
  BY <1>1
<1>4. r.fp \in {NoFingerprint, r.def} /\ r.fp \in {NoFingerprint, asg[i].def}
  BY <1>1 DEF RoundOK, Verified
<1>5. ASSUME left.agent = "byId", i # r.id PROVE o.own # r.def
  <2>1. r.target = r.id /\ r.fp = r.def /\ r.def # None
    BY <1>5 DEF RoundOK
  <2>. QED  BY <1>3, <1>5, <2>1, IdsComeFirst
<1>. QED  BY <1>2, <1>4, <1>5 DEF OutcomeOK

(* The check: a current round that nothing excuses becomes an outcome.     *)
LEMMA AgentResultsMeaningInv ==
  ASSUME MeaningInv, NEW q \in Slots, AgentResults(q)
  PROVE  MeaningInv'
<1>. DEFINE outs == Validate(Assignment, reqs[q].rounds)
<1>1. SameRuntime /\ BasicsOK' /\ Assignment' = Assignment
  BY DEF AgentResults, hubVars, agentVars, MeaningInv, SameRuntime, SceneStays, BasicsOK, Assignment
<1>2. RequestOK(q)
  BY DEF MeaningInv, RequestsOK
<1>3. \A o \in outs : OutcomeOK(o)
  BY <1>2, OutcomesAreOK DEF Validate, RequestOK
<1>4. ASSUME NEW r \in Range(reqs[q].rounds), Current(r)
      PROVE  \E o \in outs : OutcomeOf(o, r)
  <2>1. /\ r.id \in DOMAIN Assignment /\ Assignment[r.id].def = r.def
        /\ r.fp \in {NoFingerprint, r.def}
    BY <1>2, <1>4 DEF RequestOK, RoundOK, Current
  <2>2. r.id \in Attribute(Assignment, r) /\ withinSkew(r)
    BY <1>2, <1>4, CurrentIsAttributed DEF Current, Excused, RequestOK, MeaningInv
  <2>3. Verified(Assignment, r.id, r)
    BY <1>4, <2>1 DEF Current, Excused, Verified
  <2>4. PICK o : o = [id |-> r.id, fp |-> Assignment[r.id].def, round |-> r,
                      own |-> IF r.id \in DOMAIN Assignment
                              THEN Assignment[r.id].def ELSE None]
    OBVIOUS
  <2>5. o \in Outcomes(Assignment, r)
    BY <2>2, <2>3, <2>4 DEF Outcomes
  <2>6. OutcomeOf(o, r)
    BY <2>1, <2>4 DEF OutcomeOf
  <2>. QED  BY <2>5, <2>6 DEF Validate
<1>5. RequestsOK'
  <2>1. reqs' = Advanced(q, "checked", outs)
    BY DEF AgentResults, Advanced
  <2>. HIDE DEF outs
  <2>2. /\ OthersStay(q)
        /\ reqs'[q] = [phase |-> "checked", rounds |-> reqs[q].rounds, outs |-> outs]
    BY <2>1, RequestAdvances DEF MeaningInv
  <2>3. \A r \in Range(reqs[q].rounds) : RoundOK(r)' /\ (Current(r)' => Current(r))
    BY <1>1, <1>2, RoundsStayOK, ExcusesStay
    DEF RequestOK, RoundOK, Current, SameRuntime, MeaningInv
  <2>4. RequestOK(q)'
    <3>1. /\ reqs'[q].phase = "checked" /\ reqs'[q].rounds = reqs[q].rounds
          /\ reqs'[q].outs = outs
      BY <2>2
    <3>2. \A r \in Range(reqs'[q].rounds) :
             Current(r)' => \E o \in reqs'[q].outs : OutcomeOf(o, r)
      BY <1>4, <2>3, <3>1
    <3>3. \A o \in outs : OutcomeOK(o)'
      BY <1>1, <1>3 DEF OutcomeOK, SameRuntime, SceneStays
    <3>. QED  BY <2>2, <2>3, <3>1, <3>2, <3>3 DEF RequestOK, OutcomeOf
  <2>. QED  BY <1>1, <2>2, <2>4, OneRequest DEF MeaningInv
<1>6. BufferOK' /\ LostOK' /\ StoredUnderItsMeaning'
  BY <1>1, BufferStaysOK, LostStaysOK, MeaningStays
  DEF AgentResults, hubVars, agentVars, MeaningInv
<1>. QED  BY <1>1, <1>5, <1>6 DEF MeaningInv

(* The commit: what is kept was checked against the def that is live.      *)
KeepsItsMeaning(s) ==
  /\ s.round.def = s.as \/ s.round.fp = NoFingerprint
  /\ left.agent = "byId" /\ s.id # s.round.id => s.own # s.round.def

LEMMA AllKeepTheirMeaning == StoredUnderItsMeaning <=> \A s \in stored : KeepsItsMeaning(s)
BY DEF StoredUnderItsMeaning, KeepsItsMeaning

LEMMA SamplesKeepTheirMeaning ==
  ASSUME MeaningInv, NEW q \in Slots, NEW blind,
         NEW s \in Samples(Inserted(Kept(reqs[q].outs)), blind)
  PROVE  KeepsItsMeaning(s)
<1>1. PICK o \in Inserted(Kept(reqs[q].outs)) :
        s = [id |-> o.id, round |-> o.round, as |-> live[o.id].def, own |-> o.own,
             blind |-> blind]
  BY DEF Samples
<1>3. o \in reqs[q].outs /\ live[o.id].def = o.fp
  BY DEF Inserted, Kept
<1>4. s.round = o.round /\ s.as = o.fp /\ s.id = o.id /\ s.own = o.own
  BY <1>1, <1>3
<1>2. OutcomeOK(o)
  BY <1>3 DEF MeaningInv, RequestsOK, RequestOK
<1>. QED  BY <1>2, <1>4 DEF OutcomeOK, KeepsItsMeaning

LEMMA MeaningGrows ==
  ASSUME MeaningInv, SceneStays, NEW q \in Slots, NEW blind,
         stored' = stored \cup Samples(Inserted(Kept(reqs[q].outs)), blind)
  PROVE  StoredUnderItsMeaning'
<1>1. \A s \in stored' : KeepsItsMeaning(s)
  BY SamplesKeepTheirMeaning, AllKeepTheirMeaning DEF MeaningInv
<1>. QED  BY <1>1 DEF StoredUnderItsMeaning, KeepsItsMeaning, SceneStays

LEMMA CommitMeaningInv ==
  ASSUME MeaningInv, NEW q \in Slots, CommitRemote(q)
  PROVE  MeaningInv'
<1>. DEFINE kept == Kept(reqs[q].outs)
<1>1. SameRuntime /\ BasicsOK' /\ Assignment' = Assignment
  <2>1. live' = live /\ gen' = gen /\ left' = left /\ clock' = clock
    BY DEF CommitRemote, agentVars
  <2>2. BasicsOK /\ BasicsOK'
    BY <2>1 DEF MeaningInv, BasicsOK
  <2>3. \A s \in stored : s \in stored'
    BY DEF CommitRemote
  <2>4. SameRuntime
    BY <2>1, <2>2, <2>3 DEF SameRuntime, SceneStays, BasicsOK
  <2>5. Assignment' = Assignment
    BY <2>1 DEF Assignment
  <2>. QED  BY <2>2, <2>4, <2>5
<1>2. RequestOK(q)
  BY DEF MeaningInv, RequestsOK
<1>3. stored' = stored \cup Samples(Inserted(kept), FALSE) /\ reqs[q].phase = "checked"
  BY DEF CommitRemote
<1>4. ASSUME NEW r \in Range(reqs[q].rounds), Current(r)
      PROVE  \E s \in stored' : StoredAs(s, r)
  <2>1. PICK o \in reqs[q].outs : OutcomeOf(o, r)
    BY <1>2, <1>3, <1>4 DEF RequestOK
  <2>2. o.id = r.id /\ o.fp = r.def /\ o.round = r
    BY <2>1 DEF OutcomeOf
  <2>3. live[o.id].def = o.fp
    BY <1>2, <1>4, <2>2 DEF RequestOK, RoundOK, Current, Assignment, AssignmentFor
  <2>4. o \in kept
    BY <2>2, <2>3 DEF Kept
  <2>5. CASE o \in Inserted(kept)
    <3>1. PICK s : s = [id |-> o.id, round |-> o.round, as |-> live[o.id].def,
                        own |-> o.own, blind |-> FALSE]
      OBVIOUS
    <3>2. s \in Samples(Inserted(kept), FALSE)
      BY <2>5, <3>1 DEF Samples
    <3>3. StoredAs(s, r)
      BY <2>2, <3>1 DEF StoredAs
    <3>. QED  BY <1>3, <3>2, <3>3
  <2>6. CASE o \notin Inserted(kept)
    BY <1>3, <2>2, <2>4, <2>6 DEF Inserted, StoredAs
  <2>. QED  BY <2>5, <2>6
<1>5. RequestsOK'
  <2>1. reqs' = Advanced(q, "stored", kept)
    BY DEF CommitRemote, Advanced
  <2>2. kept \subseteq reqs[q].outs
    BY DEF Kept
  <2>. HIDE DEF kept
  <2>3. /\ OthersStay(q)
        /\ reqs'[q] = [phase |-> "stored", rounds |-> reqs[q].rounds, outs |-> kept]
    BY <2>1, RequestAdvances DEF MeaningInv
  <2>4. \A r \in Range(reqs[q].rounds) : RoundOK(r)' /\ (Current(r)' => Current(r))
    BY <1>1, <1>2, RoundsStayOK, ExcusesStay
    DEF RequestOK, RoundOK, Current, SameRuntime, MeaningInv
  <2>5. RequestOK(q)'
    <3>1. \A o \in kept : OutcomeOK(o)'
      BY <1>1, <1>2, <2>2 DEF RequestOK, OutcomeOK, SameRuntime, SceneStays
    <3>. QED  BY <1>4, <2>3, <2>4, <3>1 DEF RequestOK, StoredAs
  <2>. QED  BY <1>1, <2>3, <2>5, OneRequest DEF MeaningInv
<1>6. StoredUnderItsMeaning'
  BY <1>1, <1>3, MeaningGrows DEF SameRuntime
<1>7. BufferOK' /\ LostOK'
  BY <1>1, BufferStaysOK, LostStaysOK DEF CommitRemote, agentVars, MeaningInv
<1>. QED  BY <1>1, <1>5, <1>6, <1>7 DEF MeaningInv

(* What is left of the buffer when a batch is released.                    *)
LEMMA ReleaseShortens ==
  ASSUME BufferOK, NEW n \in Nat
  PROVE  LET rest == SubSeq(buf, n + 1, Len(buf))
         IN  rest \in Seq(Range(rest)) /\ \A x \in Range(rest) : x \in Range(buf)
<1>. DEFINE rest == SubSeq(buf, n + 1, Len(buf))
<1>1. buf \in Seq(Range(buf)) /\ Len(buf) \in Nat
  BY LenProperties DEF BufferOK
<1>2. \A k \in n + 1 .. Len(buf) : buf[k] \in Range(buf)
  BY <1>1 DEF Range
<1>3. n + 1 \in Nat \ {0}
  OBVIOUS
<1>4. rest \in Seq(Range(buf))
  BY <1>1, <1>2, <1>3, SubSeqProperties
<1>. HIDE DEF rest
<1>5. \A k \in DOMAIN rest : rest[k] \in Range(buf)
  BY <1>4
<1>6. rest \in Seq(Range(rest))
  BY <1>4, SeqDef, LenProperties DEF Range
<1>. QED  BY <1>5, <1>6 DEF Range, rest

(* The answer: what the agent releases and the hub has not stored was      *)
(* excused.                                                                *)
LEMMA RespondMeaningInv ==
  ASSUME MeaningInv, NEW q \in Slots, Respond(q)
  PROVE  MeaningInv'
<1>1. SameRuntime /\ BasicsOK' /\ Assignment' = Assignment
  BY DEF Respond, MeaningInv, SameRuntime, SceneStays, BasicsOK, Assignment
<1>2. RequestsOK'
  <2>1. reqs' = [reqs EXCEPT ![q] = Idle]
    BY DEF Respond
  <2>2. OthersStay(q) /\ reqs'[q] = Idle
    BY <2>1 DEF MeaningInv, RequestsOK, OthersStay
  <2>. QED  BY <1>1, <2>2, IdleIsOK, OneRequest DEF MeaningInv
<1>3. BufferOK'
  <2>1. buf' = buf \/ buf' = SubSeq(buf, Len(reqs[q].rounds) + 1, Len(buf))
    BY DEF Respond
  <2>2. CASE buf' = buf
    BY <1>1, <2>2, BufferStaysOK DEF MeaningInv
  <2>3. CASE buf' = SubSeq(buf, Len(reqs[q].rounds) + 1, Len(buf))
    <3>1. Len(reqs[q].rounds) \in Nat
      BY DEF MeaningInv, RequestsOK, RequestOK
    <3>2. \A x \in Range(buf') : x \in Range(buf)
      BY <2>3, <3>1, ReleaseShortens DEF MeaningInv
    <3>3. buf' \in Seq(Range(buf'))
      BY <2>3, <3>1, ReleaseShortens DEF MeaningInv
    <3>. QED  BY <1>1, <3>2, <3>3, RoundsStayOK DEF MeaningInv, BufferOK
  <2>. QED  BY <2>1, <2>2, <2>3
<1>4. LostOK'
  <2>1. ASSUME NEW l \in lost'
        PROVE  \/ l \in lost
               \/ /\ l.gen = gen /\ l.round \in Range(reqs[q].rounds)
                  /\ ~\E s \in stored : StoredAs(s, l.round)
    <3>1. CASE lost' = lost
      BY <3>1
    <3>2. CASE lost' = lost \cup {[round |-> r, gen |-> gen] : r \in
                         {r \in Range(reqs[q].rounds) : ~\E s \in stored : StoredAs(s, r)}}
      BY <3>2
    <3>. QED  BY <3>1, <3>2 DEF Respond, StoredAs
  <2>2. ASSUME NEW l \in lost', l \notin lost
        PROVE  l.round.ts \in Nat /\ l.gen \in 0 .. gen /\ (l.round.gen = gen => Excused(l.round))
    BY <2>1, <2>2 DEF Respond, MeaningInv, BasicsOK, RequestsOK, RequestOK, RoundOK, Current
  <2>3. \A l \in lost' : /\ l.round.ts \in Nat /\ l.gen \in 0 .. gen
                         /\ l.gen = gen /\ l.round.gen = gen => Excused(l.round)
    BY <2>2 DEF MeaningInv, LostOK
  <2>. QED  BY <1>1, <2>3, ExcusesStay DEF LostOK, SameRuntime, MeaningInv
<1>5. StoredUnderItsMeaning'
  BY <1>1, MeaningStays DEF Respond, MeaningInv
<1>. QED  BY <1>1, <1>2, <1>3, <1>4, <1>5 DEF MeaningInv

(* The requests that are given up promise nothing.                         *)
LEMMA GivenUp ==
  ASSUME MeaningInv, SameRuntime, NEW q, reqs' = [reqs EXCEPT ![q] = Idle]
  PROVE  RequestsOK'
<1>1. OthersStay(q)
  BY DEF MeaningInv, RequestsOK, OthersStay
<1>2. q \in Slots => reqs'[q] = Idle
  BY DEF MeaningInv, RequestsOK
<1>. QED  BY <1>1, <1>2, IdleIsOK, OneRequest DEF MeaningInv

LEMMA AllGivenUp ==
  ASSUME reqs' = [q \in Slots |-> Idle]
  PROVE  RequestsOK'
BY IdleIsOK DEF RequestsOK

(* What else keeps the runtime: failed writes, the hub's own death, the    *)
(* agent's, polls, lost answers and everything the registry does.          *)
LEMMA CommitFailsMeaningInv ==
  ASSUME MeaningInv, NEW q \in Slots, NEW written \in BOOLEAN, CommitFails(q, written)
  PROVE  MeaningInv'
<1>1. /\ live' = live /\ gen' = gen /\ left' = left /\ clock' = clock
      /\ buf' = buf /\ lost' = lost /\ reqs' = [reqs EXCEPT ![q] = Idle]
  BY DEF CommitFails
<1>2. stored' = stored \/ stored' = stored \cup Samples(Inserted(Kept(reqs[q].outs)), TRUE)
  BY DEF CommitFails
<1>3. \A s \in stored : s \in stored'
  BY <1>2
<1>4. BasicsOK /\ BasicsOK'
  BY <1>1 DEF MeaningInv, BasicsOK
<1>5. SameRuntime
  BY <1>1, <1>3, <1>4 DEF SameRuntime, SceneStays, BasicsOK
<1>6. StoredUnderItsMeaning'
  BY <1>2, <1>5, MeaningGrows, MeaningStays DEF MeaningInv, SameRuntime
<1>. QED  BY <1>1, <1>4, <1>5, <1>6, GivenUp, BufferStaysOK, LostStaysOK DEF MeaningInv

LEMMA RebootMeaningInv ==
  ASSUME MeaningInv, NEW samples, Reboot(samples),
         \A s \in stored : s \in samples,
         \A s \in samples : KeepsItsMeaning(s)
  PROVE  MeaningInv'
<1>1. SameRuntime /\ BasicsOK'
  <2>1. live' = live /\ gen' = gen /\ clock' = clock /\ stored' = samples
    BY DEF Reboot
  <2>2. SceneStays
    BY SpendKeeps DEF Reboot, MeaningInv
  <2>. QED  BY <2>1, <2>2 DEF MeaningInv, SameRuntime, SceneStays, BasicsOK
<1>2. RequestsOK' /\ StoredUnderItsMeaning'
  BY <1>1, AllGivenUp
  DEF Reboot, StoredUnderItsMeaning, KeepsItsMeaning, SameRuntime, SceneStays
<1>. QED  BY <1>1, <1>2, BufferStaysOK, LostStaysOK DEF Reboot, MeaningInv

LEMMA HubDeathMeaningInv ==
  ASSUME MeaningInv, HubRestarts \/ \E q \in Slots : HubDiesInCommit(q)
  PROVE  MeaningInv'
<1>1. CASE HubRestarts
  BY <1>1, RebootMeaningInv, AllKeepTheirMeaning DEF HubRestarts, MeaningInv
<1>2. ASSUME NEW q \in Slots, HubDiesInCommit(q) PROVE MeaningInv'
  <2>1. PICK samples : samples = stored \cup Samples(Inserted(Kept(reqs[q].outs)), FALSE)
    OBVIOUS
  <2>2. Reboot(samples)
    BY <1>2, <2>1 DEF HubDiesInCommit
  <2>3. \A s \in stored : s \in samples
    BY <2>1
  <2>4. \A s \in samples : KeepsItsMeaning(s)
    BY <2>1, SamplesKeepTheirMeaning, AllKeepTheirMeaning DEF MeaningInv
  <2>. QED  BY <2>2, <2>3, <2>4, RebootMeaningInv
<1>. QED  BY <1>1, <1>2

LEMMA RestKeepsMeaningInv ==
  ASSUME MeaningInv,
         live' = live /\ gen' = gen /\ stored' = stored,
         reqs' = reqs /\ buf' = buf /\ clock' = clock /\ lost' = lost,
         SceneStays
  PROVE  MeaningInv'
<1>1. SameRuntime /\ BasicsOK'
  BY DEF MeaningInv, SameRuntime, SceneStays, BasicsOK
<1>2. RequestsOK'
  BY <1>1, RequestStaysOK DEF MeaningInv, RequestsOK
<1>3. StoredUnderItsMeaning'
  BY <1>1, MeaningStays DEF MeaningInv
<1>. QED  BY <1>1, <1>2, <1>3, BufferStaysOK, LostStaysOK DEF MeaningInv

(* A reload: nothing measured or lost before it is current any more.       *)
LEMMA SwapMeaningInv ==
  ASSUME MeaningInv, NEW config \in Configs, SwapRuntime(config)
  PROVE  MeaningInv'
<1>1. /\ gen' = gen + 1 /\ gen \in Nat \ {0} /\ clock' = clock
      /\ reqs' = reqs /\ buf' = buf /\ lost' = lost /\ stored' = stored
  BY DEF SwapRuntime, agentVars, MeaningInv, BasicsOK
<1>8. SceneStays /\ live' = config
  BY SpendKeeps DEF SwapRuntime, MeaningInv
<1>2. BasicsOK'
  BY <1>1, <1>8 DEF MeaningInv, BasicsOK, SceneStays
<1>3. ASSUME NEW r, RoundOK(r) PROVE RoundOK(r)' /\ ~Current(r)'
  BY <1>1, <1>3, <1>8 DEF RoundOK, Current, SceneStays
<1>4. BufferOK'
  BY <1>1, <1>3 DEF MeaningInv, BufferOK
<1>5. RequestsOK'
  BY <1>1, <1>3, <1>8 DEF MeaningInv, RequestsOK, RequestOK, OutcomeOK, SceneStays
<1>6. LostOK'
  BY <1>1 DEF MeaningInv, LostOK
<1>7. StoredUnderItsMeaning'
  BY <1>1, <1>8 DEF MeaningInv, StoredUnderItsMeaning, SceneStays
<1>. QED  BY <1>2, <1>4, <1>5, <1>6, <1>7 DEF MeaningInv

LEMMA NextMeaningInv == MeaningInv /\ [Next]_vars => MeaningInv'
<1>. SUFFICES ASSUME MeaningInv, [Next]_vars PROVE MeaningInv'
  OBVIOUS
<1>1. CASE RegistryNext /\ UNCHANGED <<hubVars, reqs, agentVars>>
  <2>1. left' = left \/ Spend("admin")
    BY <1>1 DEF RegistryNext, New, Register, SelectCA, PersistCA, IssueClientCert, Revoke
  <2>2. SceneStays
    BY <2>1, SpendKeeps DEF MeaningInv, BasicsOK, SceneStays
  <2>. QED  BY <1>1, <2>2, RestKeepsMeaningInv DEF hubVars, agentVars
<1>2. CASE PullAssignment
  BY <1>2, RestKeepsMeaningInv DEF PullAssignment, hubVars, MeaningInv, BasicsOK, SceneStays
<1>3. CASE PushLost
  <2>1. SceneStays
    BY <1>3, SpendKeeps DEF PushLost, MeaningInv
  <2>. QED  BY <1>3, <2>1, RestKeepsMeaningInv DEF PushLost, hubVars
<1>4. CASE AgentRestarts
  <2>1. SceneStays
    BY <1>4, SpendKeeps DEF AgentRestarts, MeaningInv
  <2>. QED  BY <1>4, <2>1, RestKeepsMeaningInv DEF AgentRestarts, AgentStarts, hubVars
<1>5. CASE \E c \in handed : InstallBundle(c)
  BY <1>5, RestKeepsMeaningInv DEF InstallBundle, AgentStarts, hubVars, MeaningInv, BasicsOK, SceneStays
<1>6. CASE HubRestarts \/ \E q \in Slots : HubDiesInCommit(q)
  BY <1>6, HubDeathMeaningInv
<1>7. CASE UNCHANGED vars
  BY <1>7, RestKeepsMeaningInv DEF vars, hubVars, agentVars, MeaningInv, BasicsOK, SceneStays
<1>8. CASE \E asg \in held, i \in Ids, reading \in BOOLEAN : Measure(asg, i, reading)
  BY <1>8, MeasureMeaningInv
<1>9. CASE \E q \in Slots : AgentResults(q) \/ CommitRemote(q) \/ Respond(q)
  BY <1>9, AgentResultsMeaningInv, CommitMeaningInv, RespondMeaningInv
<1>10. CASE \E q \in Slots, written \in BOOLEAN : CommitFails(q, written)
  BY <1>10, CommitFailsMeaningInv
<1>11. CASE \E config \in Configs : SwapRuntime(config)
  BY <1>11, SwapMeaningInv
<1>12. CASE PushResults
  BY <1>12, PushMeaningInv
<1>. QED
  BY <1>1, <1>2, <1>3, <1>4, <1>5, <1>6, <1>7, <1>8, <1>9, <1>10, <1>11, <1>12 DEF Next

(* Whatever reloads, restarts, retries and failed writes fall between its  *)
(* steps, the hub stores a fingerprinted round only under the definition   *)
(* it was measured under; that of an agent reporting ids only under its    *)
(* own target, while that is assigned as it was measured; and a round      *)
(* measured under the live assignment is stored as what it is, or lost for *)
(* a stated reason.                                                        *)
THEOREM IngestKeepsTheMeaning == Spec => []RoundsKeepTheirMeaning
<1>1. MeaningInv => RoundsKeepTheirMeaning
  BY DEF MeaningInv, RoundsKeepTheirMeaning, CurrentRoundsAreStored, LostOK, Excused
<1>. QED  BY <1>1, InitMeaningInv, NextMeaningInv, PTL DEF Spec
-----------------------------------------------------------------------------
(* A round's time names it, in the agent's buffer and in each request; a   *)
(* request's outcomes are of its own rounds, and of one assignment.        *)
Named(R) == \A r, s \in R : r.ts = s.ts => r = s
Agreed(O) == \A o, p \in O : o.round = p.round => o.own = p.own
RoundsNamed ==
  /\ Named(Range(buf)) /\ \A r \in Range(buf) : r.ts \in 1 .. clock
  /\ \A q \in Slots :
       /\ Named(Range(reqs[q].rounds))
       /\ \A r \in Range(reqs[q].rounds) : r.ts \in 1 .. clock
       /\ \A o \in reqs[q].outs : o.round \in Range(reqs[q].rounds)
       /\ Agreed(reqs[q].outs)

(* The store's key.                                                        *)
SamplesOf(i, t) == {s \in stored : s.id = i /\ s.round.ts = t}
StoredOnce == \A a, b \in stored : a.id = b.id /\ a.round.ts = b.round.ts => a = b

(* What the live engine has been given of a key of the store.              *)
Given(i, t) == evals[i][t] + (IF <<i, t>> \in seeded THEN 1 ELSE 0)
GivenOnce ==
  \A i \in Ids, t \in 1 .. MaxRounds :
    /\ evals[i][t] \in Nat /\ Given(i, t) \in {0, 1}
    /\ Given(i, t) = 1 => SamplesOf(i, t) # {}
    /\ \A s \in SamplesOf(i, t) : Given(i, t) = 1 \/ s.blind

OnceInv == RoundsNamed /\ StoredOnce /\ GivenOnce

LEMMA InitOnceInv == Init => OnceInv
<1>. SUFFICES ASSUME Init PROVE OnceInv
  OBVIOUS
<1>1. buf = <<>> /\ stored = {} /\ seeded = {} /\ evals = Never
  BY DEF Init, FederationInit
<1>2. \A q \in Slots : Range(reqs[q].rounds) = {} /\ reqs[q].outs = {}
  BY DEF Init, FederationInit, Idle, Range
<1>3. RoundsNamed
  <2>1. Range(buf) = {}
    BY <1>1 DEF Range
  <2>. QED  BY <1>2, <2>1 DEF RoundsNamed, Named, Agreed
<1>4. GivenOnce
  BY <1>1 DEF GivenOnce, Given, SamplesOf, Never
<1>. QED  BY <1>1, <1>3, <1>4 DEF OnceInv, StoredOnce

(* A round measured is the first of its time.                              *)
LEMMA MeasureNamed ==
  ASSUME MeaningInv, RoundsNamed, NEW asg \in held, NEW i \in Ids, NEW reading \in BOOLEAN,
         Measure(asg, i, reading)
  PROVE  RoundsNamed'
<1>1. clock \in Nat /\ clock' = clock + 1 /\ reqs' = reqs
  BY DEF Measure, MeaningInv, BasicsOK
<1>2. PICK r : r.ts = clock' /\ buf' = Append(buf, r)
  BY DEF Measure
<1>3. Range(buf') = Range(buf) \cup {r}
  BY <1>2, AppendProperties DEF MeaningInv, BufferOK, Range
<1>4. Named(Range(buf')) /\ \A x \in Range(buf') : x.ts \in 1 .. clock'
  BY <1>1, <1>2, <1>3 DEF RoundsNamed, Named
<1>5. \A q \in Slots : \A x \in Range(reqs[q].rounds) : x.ts \in 1 .. clock'
  BY <1>1 DEF RoundsNamed
<1>. QED  BY <1>1, <1>4, <1>5 DEF RoundsNamed

(* Elsewhere requests only take the buffer, go back to idle, or advance    *)
(* with outcomes of their rounds.                                          *)
RequestNamed(q) ==
  \/ reqs'[q] = reqs[q]
  \/ reqs'[q] = Idle
  \/ reqs'[q].rounds = buf /\ reqs'[q].outs = {}
  \/ /\ reqs'[q].rounds = reqs[q].rounds
     /\ \A o \in reqs'[q].outs : o.round \in Range(reqs[q].rounds)
     /\ Agreed(reqs'[q].outs)

LEMMA StaysNamed ==
  ASSUME RoundsNamed, clock' = clock, Range(buf') \subseteq Range(buf),
         \A q \in Slots : RequestNamed(q)
  PROVE  RoundsNamed'
<1>1. Named(Range(buf')) /\ \A r \in Range(buf') : r.ts \in 1 .. clock'
  BY DEF RoundsNamed, Named
<1>2. ASSUME NEW q \in Slots
      PROVE  /\ Named(Range(reqs'[q].rounds))
             /\ \A r \in Range(reqs'[q].rounds) : r.ts \in 1 .. clock'
             /\ \A o \in reqs'[q].outs : o.round \in Range(reqs'[q].rounds)
             /\ Agreed(reqs'[q].outs)
  <2>1. CASE reqs'[q] = Idle
    BY <2>1 DEF Idle, Range, Named, Agreed
  <2>2. CASE reqs'[q] # Idle
    BY <2>2 DEF RequestNamed, RoundsNamed, Agreed
  <2>. QED  BY <2>1, <2>2
<1>. QED  BY <1>1, <1>2 DEF RoundsNamed
LEMMA RespondNamed ==
  ASSUME MeaningInv, RoundsNamed, NEW q \in Slots, Respond(q)
  PROVE  RoundsNamed'
<1>1. clock' = clock /\ \A p \in Slots : reqs'[p] = reqs[p] \/ reqs'[p] = Idle
  BY DEF Respond, MeaningInv, RequestsOK
<1>2. buf' = buf \/ buf' = SubSeq(buf, Len(reqs[q].rounds) + 1, Len(buf))
  BY DEF Respond
<1>3. Len(reqs[q].rounds) \in Nat
  BY DEF MeaningInv, RequestsOK, RequestOK
<1>4. Range(buf') \subseteq Range(buf)
  BY <1>2, <1>3, ReleaseShortens DEF MeaningInv
<1>. QED  BY <1>1, <1>4, StaysNamed DEF RequestNamed

LEMMA HandlerNamed ==
  ASSUME MeaningInv, RoundsNamed, NEW q \in Slots, AgentResults(q) \/ CommitRemote(q)
  PROVE  RoundsNamed'
<1>1. clock' = clock /\ buf' = buf
  BY DEF AgentResults, CommitRemote, agentVars
<1>2. PICK phase, outs : /\ reqs' = Advanced(q, phase, outs)
                         /\ \A o \in outs : o.round \in Range(reqs[q].rounds)
                         /\ Agreed(outs)
  <2>1. CASE AgentResults(q)
    <3>1. /\ \A o \in Validate(Assignment, reqs[q].rounds) : o.round \in Range(reqs[q].rounds)
          /\ Agreed(Validate(Assignment, reqs[q].rounds))
      BY DEF Validate, Outcomes, Agreed
    <3>. QED  BY <2>1, <3>1 DEF AgentResults, Advanced
  <2>2. CASE CommitRemote(q)
    <3>1. /\ \A o \in Kept(reqs[q].outs) : o.round \in Range(reqs[q].rounds)
          /\ Agreed(Kept(reqs[q].outs))
      BY DEF Kept, RoundsNamed, Agreed
    <3>. QED  BY <2>2, <3>1 DEF CommitRemote, Advanced
  <2>. QED  BY <2>1, <2>2
<1>3. \A p \in Slots : RequestNamed(p)
  <2>1. /\ OthersStay(q)
        /\ reqs'[q] = [phase |-> phase, rounds |-> reqs[q].rounds, outs |-> outs]
    BY <1>2, RequestAdvances DEF MeaningInv
  <2>. QED  BY <1>2, <2>1 DEF RequestNamed, OthersStay
<1>. QED  BY <1>1, <1>3, StaysNamed

LEMMA PushNamed ==
  ASSUME MeaningInv, RoundsNamed, PushResults
  PROVE  RoundsNamed'
<1>1. PICK p : reqs' = [reqs EXCEPT ![p] =
                          [Idle EXCEPT !.phase = "received", !.rounds = buf]]
  BY DEF PushResults
<1>2. ASSUME NEW q \in Slots PROVE RequestNamed(q)
  <2>1. CASE q # p
    BY <1>1, <2>1 DEF RequestNamed, MeaningInv, RequestsOK
  <2>2. CASE q = p
    <3>1. reqs'[q] = [phase |-> "received", rounds |-> buf, outs |-> {}]
      BY <1>1, <2>2, BatchPosted DEF MeaningInv
    <3>. QED  BY <3>1 DEF RequestNamed
  <2>. QED  BY <2>1, <2>2
<1>. QED  BY <1>2, StaysNamed DEF PushResults

LEMMA NextNamed == MeaningInv /\ RoundsNamed /\ [Next]_vars => RoundsNamed'
<1>. SUFFICES ASSUME MeaningInv, RoundsNamed, [Next]_vars PROVE RoundsNamed'
  OBVIOUS
<1>1. CASE \E q \in Slots : AgentResults(q) \/ CommitRemote(q) \/ Respond(q)
  BY <1>1, HandlerNamed, RespondNamed
<1>2. CASE PushResults \/ \E asg \in held, i \in Ids, reading \in BOOLEAN : Measure(asg, i, reading)
  BY <1>2, PushNamed, MeasureNamed
<1>3. CASE buf' = buf /\ clock' = clock /\ \A q \in Slots : reqs'[q] = reqs[q] \/ reqs'[q] = Idle
  BY <1>3, StaysNamed DEF RequestNamed
<1>4. CASE \E q \in Slots, written \in BOOLEAN : CommitFails(q, written)
  BY <1>3, <1>4 DEF CommitFails, MeaningInv, RequestsOK
<1>5. CASE HubRestarts \/ \E q \in Slots : HubDiesInCommit(q)
  BY <1>3, <1>5 DEF HubRestarts, HubDiesInCommit, Reboot
<1>6. CASE \/ RegistryNext /\ UNCHANGED <<hubVars, reqs, agentVars>>
           \/ PullAssignment \/ PushLost \/ AgentRestarts \/ UNCHANGED vars
           \/ \E c \in handed : InstallBundle(c)
           \/ \E config \in Configs : SwapRuntime(config)
  BY <1>3, <1>6 DEF PullAssignment, PushLost, AgentRestarts, InstallBundle, AgentStarts,
                    SwapRuntime, vars, agentVars
<1>. QED  BY <1>1, <1>2, <1>4, <1>5, <1>6 DEF Next
(* A commit adds one sample of each key the store had none of.             *)
NewOf(q) == Inserted(Kept(reqs[q].outs))

LEMMA CommitStoresOnce ==
  ASSUME OnceInv, NEW q \in Slots, NEW blind,
         stored' = stored \cup Samples(NewOf(q), blind)
  PROVE  StoredOnce'
<1>. SUFFICES ASSUME NEW a \in stored', NEW b \in stored',
                     a.id = b.id, a.round.ts = b.round.ts
              PROVE  a = b
  BY DEF StoredOnce
<1>. DEFINE made(s) == \E o \in NewOf(q) : s = [id |-> o.id, round |-> o.round,
                                               as |-> live[o.id].def,
                                               own |-> o.own, blind |-> blind]
<1>1. (a \in stored \/ made(a)) /\ (b \in stored \/ made(b))
  BY DEF Samples
<1>2. ASSUME NEW o \in NewOf(q), NEW s \in stored, s.id = o.id, s.round.ts = o.round.ts
      PROVE  FALSE
  BY <1>2 DEF NewOf, Inserted
<1>3. CASE a \in stored \/ b \in stored
  BY <1>1, <1>2, <1>3 DEF OnceInv, StoredOnce
<1>4. CASE made(a) /\ made(b)
  <2>1. PICK o \in NewOf(q) : a = [id |-> o.id, round |-> o.round,
                                   as |-> live[o.id].def,
                                   own |-> o.own, blind |-> blind]
    BY <1>4
  <2>2. PICK p \in NewOf(q) : b = [id |-> p.id, round |-> p.round,
                                   as |-> live[p.id].def,
                                   own |-> p.own, blind |-> blind]
    BY <1>4
  <2>3. o \in reqs[q].outs /\ p \in reqs[q].outs
    BY DEF NewOf, Inserted, Kept
  <2>4. a.id = o.id /\ b.id = p.id /\ a.round = o.round /\ b.round = p.round
    BY <2>1, <2>2
  <2>5. o.round = p.round /\ o.own = p.own
    BY <2>3, <2>4 DEF OnceInv, RoundsNamed, Named, Agreed
  <2>. QED  BY <2>1, <2>2, <2>4, <2>5
<1>. QED  BY <1>1, <1>3, <1>4

(* What a commit does to one key.                                          *)
HasNew(q, i, t) == \E o \in NewOf(q) : o.id = i /\ o.round.ts = t
KeyStays(i, t) == SamplesOf(i, t)' = SamplesOf(i, t)
KeyMade(i, t, blind) ==
  /\ Given(i, t) = 0
  /\ SamplesOf(i, t)' # {} /\ \A s \in SamplesOf(i, t)' : s.blind = blind

LEMMA CommitOfKey ==
  ASSUME OnceInv, NEW q \in Slots, NEW blind, NEW i \in Ids, NEW t \in 1 .. MaxRounds,
         stored' = stored \cup Samples(NewOf(q), blind)
  PROVE  IF HasNew(q, i, t) THEN KeyMade(i, t, blind) ELSE KeyStays(i, t)
<1>1. \A s \in Samples(NewOf(q), blind) :
        s.blind = blind /\ \E o \in NewOf(q) : s.id = o.id /\ s.round = o.round
  BY DEF Samples
<1>2. CASE ~HasNew(q, i, t)
  BY <1>1, <1>2 DEF SamplesOf, HasNew, KeyStays
<1>3. CASE HasNew(q, i, t)
  <2>1. PICK o \in NewOf(q) : o.id = i /\ o.round.ts = t
    BY <1>3 DEF HasNew
  <2>2. PICK s : s = [id |-> o.id, round |-> o.round, as |-> live[o.id].def,
                                                      own |-> o.own, blind |-> blind]
    OBVIOUS
  <2>3. s \in stored' /\ s.id = i /\ s.round.ts = t
    BY <2>1, <2>2 DEF Samples
  <2>4. SamplesOf(i, t) = {}
    BY <2>1 DEF NewOf, Inserted, SamplesOf
  <2>5. Given(i, t) = 0
    BY <2>4 DEF OnceInv, GivenOnce
  <2>6. \A x \in SamplesOf(i, t)' : x.blind = blind
    BY <1>1, <2>4 DEF SamplesOf
  <2>7. SamplesOf(i, t)' # {}
    BY <2>3 DEF SamplesOf
  <2>. QED  BY <1>3, <2>5, <2>6, <2>7 DEF KeyMade
<1>. QED  BY <1>2, <1>3

LEMMA CommitGivesOnce ==
  ASSUME OnceInv, NEW q \in Slots, CommitRemote(q)
  PROVE  StoredOnce' /\ GivenOnce'
<1>1. /\ stored' = stored \cup Samples(NewOf(q), FALSE) /\ seeded' = seeded
      /\ evals' = Eval(Kept(reqs[q].outs))
  BY DEF CommitRemote, NewOf
<1>2. ASSUME NEW i \in Ids, NEW t \in 1 .. MaxRounds
      PROVE  /\ evals'[i][t] \in Nat /\ Given(i, t)' \in {0, 1}
             /\ Given(i, t)' = 1 => SamplesOf(i, t)' # {}
             /\ \A s \in SamplesOf(i, t)' : Given(i, t)' = 1 \/ s.blind
  <2>1. evals'[i][t] = IF HasNew(q, i, t)
                       THEN evals[i][t] + 1 ELSE evals[i][t]
    BY <1>1 DEF Eval, NewOf, HasNew
  <2>2. /\ evals[i][t] \in Nat /\ Given(i, t) \in {0, 1}
        /\ Given(i, t) = 1 => SamplesOf(i, t) # {}
        /\ \A s \in SamplesOf(i, t) : Given(i, t) = 1 \/ s.blind
    BY DEF OnceInv, GivenOnce
  <2>3. CASE ~HasNew(q, i, t)
    <3>1. evals'[i][t] = evals[i][t]
      BY <2>1, <2>3
    <3>2. Given(i, t)' = Given(i, t)
      BY <1>1, <3>1 DEF Given
    <3>3. SamplesOf(i, t)' = SamplesOf(i, t)
      BY <1>1, <2>3, CommitOfKey DEF KeyStays
    <3>. QED  BY <2>2, <3>1, <3>2, <3>3
  <2>4. CASE HasNew(q, i, t)
    <3>1. evals'[i][t] = evals[i][t] + 1
      BY <2>1, <2>4
    <3>2. Given(i, t) = 0 /\ SamplesOf(i, t)' # {}
      BY <1>1, <2>4, CommitOfKey DEF KeyMade
    <3>3. Given(i, t)' = 1
      BY <1>1, <2>2, <3>1, <3>2 DEF Given
    <3>. QED  BY <2>2, <3>1, <3>2, <3>3
  <2>. QED  BY <2>3, <2>4
<1>3. GivenOnce'
  BY <1>2 DEF GivenOnce
<1>. QED  BY <1>1, <1>3, CommitStoresOnce DEF NewOf

(* A write that may have failed stores blindly, and gives nothing.         *)
LEMMA FailureGivesOnce ==
  ASSUME OnceInv, NEW q \in Slots, NEW written \in BOOLEAN, CommitFails(q, written)
  PROVE  StoredOnce' /\ GivenOnce'
<1>1. evals' = evals /\ seeded' = seeded
  BY DEF CommitFails
<1>2. CASE stored' = stored
  BY <1>1, <1>2 DEF OnceInv, StoredOnce, GivenOnce, Given, SamplesOf
<1>3. CASE stored' = stored \cup Samples(NewOf(q), TRUE)
  <2>1. ASSUME NEW i \in Ids, NEW t \in 1 .. MaxRounds
        PROVE  /\ evals'[i][t] \in Nat /\ Given(i, t)' \in {0, 1}
               /\ Given(i, t)' = 1 => SamplesOf(i, t)' # {}
               /\ \A s \in SamplesOf(i, t)' : Given(i, t)' = 1 \/ s.blind
    <3>1. Given(i, t)' = Given(i, t) /\ evals'[i][t] = evals[i][t]
      BY <1>1 DEF Given
    <3>2. IF HasNew(q, i, t) THEN KeyMade(i, t, TRUE) ELSE KeyStays(i, t)
      BY <1>3, CommitOfKey
    <3>. QED  BY <3>1, <3>2 DEF KeyMade, KeyStays, OnceInv, GivenOnce
  <2>. QED  BY <1>3, <2>1, CommitStoresOnce DEF GivenOnce
<1>. QED  BY <1>2, <1>3 DEF CommitFails, NewOf

(* The next hub starts from what is stored, and its engine is given that.  *)
LEMMA RebootGivesOnce ==
  ASSUME NEW samples, Reboot(samples)
  PROVE  GivenOnce'
<1>1. /\ stored' = samples /\ seeded' = {<<s.id, s.round.ts>> : s \in samples}
      /\ evals' = Never
  BY DEF Reboot
<1>2. ASSUME NEW i \in Ids, NEW t \in 1 .. MaxRounds
      PROVE  /\ evals'[i][t] = 0
             /\ <<i, t>> \in seeded' <=> SamplesOf(i, t)' # {}
  <2>1. evals'[i][t] = 0
    BY <1>1 DEF Never
  <2>2. <<i, t>> \in seeded' <=> \E s \in samples : s.id = i /\ s.round.ts = t
    BY <1>1
  <2>. QED  BY <1>1, <2>1, <2>2 DEF SamplesOf
<1>3. ASSUME NEW i \in Ids, NEW t \in 1 .. MaxRounds
      PROVE  Given(i, t)' = IF SamplesOf(i, t)' # {} THEN 1 ELSE 0
  BY <1>2 DEF Given
<1>4. ASSUME NEW i \in Ids, NEW t \in 1 .. MaxRounds
      PROVE  /\ evals'[i][t] \in Nat /\ Given(i, t)' \in {0, 1}
             /\ Given(i, t)' = 1 => SamplesOf(i, t)' # {}
             /\ \A s \in SamplesOf(i, t)' : Given(i, t)' = 1 \/ s.blind
  <2>1. evals'[i][t] = 0 /\ Given(i, t)' = IF SamplesOf(i, t)' # {} THEN 1 ELSE 0
    BY <1>2, <1>3
  <2>. QED  BY <2>1
<1>. QED  BY <1>4 DEF GivenOnce

LEMMA NextOnceInv == MeaningInv /\ OnceInv /\ [Next]_vars => OnceInv'
<1>. SUFFICES ASSUME MeaningInv, OnceInv, [Next]_vars PROVE StoredOnce' /\ GivenOnce'
  BY NextNamed DEF OnceInv
<1>1. CASE \E q \in Slots : CommitRemote(q)
  BY <1>1, CommitGivesOnce
<1>2. CASE \E q \in Slots, written \in BOOLEAN : CommitFails(q, written)
  BY <1>2, FailureGivesOnce
<1>3. CASE HubRestarts
  BY <1>3, RebootGivesOnce DEF HubRestarts, Reboot, OnceInv, StoredOnce
<1>4. ASSUME NEW q \in Slots, HubDiesInCommit(q) PROVE StoredOnce' /\ GivenOnce'
  <2>1. PICK samples : samples = stored \cup Samples(NewOf(q), FALSE)
    OBVIOUS
  <2>2. Reboot(samples)
    BY <1>4, <2>1 DEF HubDiesInCommit, NewOf
  <2>3. stored' = stored \cup Samples(NewOf(q), FALSE)
    BY <2>1, <2>2 DEF Reboot
  <2>. QED  BY <2>2, <2>3, RebootGivesOnce, CommitStoresOnce
<1>5. CASE UNCHANGED <<stored, evals, seeded>>
  BY <1>5 DEF OnceInv, StoredOnce, GivenOnce, Given, SamplesOf
<1>6. CASE \/ RegistryNext /\ UNCHANGED <<hubVars, reqs, agentVars>>
           \/ PullAssignment \/ PushResults \/ PushLost \/ AgentRestarts \/ UNCHANGED vars
           \/ \E asg \in held, i \in Ids, reading \in BOOLEAN : Measure(asg, i, reading)
           \/ \E c \in handed : InstallBundle(c)
           \/ \E q \in Slots : AgentResults(q) \/ Respond(q)
           \/ \E config \in Configs : SwapRuntime(config)
  BY <1>5, <1>6 DEF PullAssignment, PushResults, PushLost, AgentRestarts, InstallBundle,
                    AgentStarts, SwapRuntime, Measure, AgentResults, Respond, vars, hubVars
<1>. QED  BY <1>1, <1>2, <1>3, <1>4, <1>6 DEF Next

(* The engine is given each stored round exactly once, by the seed of its  *)
(* start or by the ingest that stored it, however often a batch is posted  *)
(* and wherever the hub dies, unless the write that stored it was reported *)
(* as failed; and no round that is not stored.                             *)
THEOREM EngineSeesEachRoundOnce == Spec => []AlertsSeeEachRoundOnce
<1>1. OnceInv => AlertsSeeEachRoundOnce
  <2>. SUFFICES ASSUME OnceInv, NEW i \in Ids, NEW t \in 1 .. MaxRounds
                PROVE  /\ Given(i, t) <= Cardinality(SamplesOf(i, t))
                       /\ \A s \in SamplesOf(i, t) : Given(i, t) = 1 \/ s.blind
    BY DEF AlertsSeeEachRoundOnce, Given, SamplesOf
  <2>1. /\ Given(i, t) \in {0, 1}
        /\ Given(i, t) = 1 => SamplesOf(i, t) # {}
        /\ \A s \in SamplesOf(i, t) : Given(i, t) = 1 \/ s.blind
    BY DEF OnceInv, GivenOnce
  <2>2. \A a, b \in SamplesOf(i, t) : a = b
    BY DEF SamplesOf, OnceInv, StoredOnce
  <2>3. CASE SamplesOf(i, t) = {}
    BY <2>1, <2>3, FS_EmptySet
  <2>4. ASSUME NEW s \in SamplesOf(i, t) PROVE Cardinality(SamplesOf(i, t)) = 1
    <3>1. SamplesOf(i, t) = {s}
      BY <2>2
    <3>. QED  BY <3>1, FS_Singleton
  <2>. QED  BY <2>1, <2>3, <2>4
<1>. QED  BY <1>1, InitMeaningInv, NextMeaningInv, InitOnceInv, NextOnceInv, PTL DEF Spec
-----------------------------------------------------------------------------
(* A set of times has a last one.                                          *)
LEMMA LastTime ==
  ASSUME NEW n \in Nat, NEW T \in SUBSET (0 .. n), T # {}
  PROVE  \E x \in T : \A y \in T : y <= x
<1>. DEFINE U == {k \in 0 .. n : \E y \in T : k = n - y}
<1>1. U \in SUBSET Nat /\ U # {}
  <2>1. PICK y \in T : y \in 0 .. n
    OBVIOUS
  <2>2. n - y \in U
    BY <2>1
  <2>3. \A k \in U : k \in Nat
    OBVIOUS
  <2>. HIDE DEF U
  <2>. QED  BY <2>2, <2>3
<1>2. PICK k \in U : \A u \in U : ~(<<u, k>> \in OpToRel(<, Nat))
  BY <1>1, NatLessThanWellFounded, WFMin
<1>3. \A u \in U : k <= u
  <2>. SUFFICES ASSUME NEW u \in U PROVE k <= u
    OBVIOUS
  <2>1. k \in Nat /\ u \in Nat
    OBVIOUS
  <2>2. ~(<<u, k>> \in {ss \in Nat \X Nat : ss[1] < ss[2]})
    BY <1>2 DEF OpToRel
  <2>. QED  BY <2>1, <2>2
<1>4. PICK x \in T : k = n - x
  OBVIOUS
<1>5. \A y \in T : n - x <= n - y
  BY <1>3, <1>4
<1>6. \A y \in T : y <= x
  <2>. SUFFICES ASSUME NEW y \in T PROVE y <= x
    OBVIOUS
  <2>1. x \in 0 .. n /\ y \in 0 .. n /\ n - x <= n - y
    BY <1>5
  <2>. QED  BY <2>1
<1>. QED  BY <1>6

LEMMA MaxIsLast ==
  ASSUME NEW T \in SUBSET Nat, NEW x \in T, \A y \in T : y <= x
  PROVE  Max(T) = x
<1>1. \A y \in T : x >= y
  OBVIOUS
<1>2. \A z \in T : (\A y \in T : z >= y) => z = x
  OBVIOUS
<1>. QED  BY <1>1, <1>2 DEF Max

(* Every agent but the oldest names the def a round was measured under.    *)
Fingerprinted(r) == r.fp = r.def /\ r.fp # NoFingerprint
DefsOK ==
  /\ live \in Boots \cup Configs
  /\ \A asg \in held : \A i \in DOMAIN asg : asg[i].def # NoFingerprint
FingerprintsOK ==
  left.agent # "bare" =>
    /\ \A r \in Range(buf) : Fingerprinted(r)
    /\ \A q \in Slots : \A r \in Range(reqs[q].rounds) : Fingerprinted(r)

(* The reading kept for a target is the newest applied; its server is that *)
(* of the def its round was measured under.                                *)
ReadingOK(i) ==
  /\ newest[i] \in Nat /\ stat[i].ts = newest[i]
  /\ stat[i].set /\ left.agent # "bare" => stat[i].key = StatKey[stat[i].def]
ReadingsOK == \A i \in Ids : ReadingOK(i)

AgentNamed == "agent" \in DOMAIN left
ShownInv == AgentNamed /\ DefsOK /\ FingerprintsOK /\ ReadingsOK

LEMMA InitShownInv == Init => ShownInv
<1>. SUFFICES ASSUME Init PROVE ShownInv
  OBVIOUS
<1>1. AgentNamed
  BY FederationAssumption DEF Init, RegistryInit, AgentNamed
<1>2. DefsOK
  BY DEF Init, FederationInit, DefsOK
<1>3. FingerprintsOK
  <2>1. Range(buf) = {}
    BY DEF Init, FederationInit, Range
  <2>2. \A q \in Slots : Range(reqs[q].rounds) = {}
    BY DEF Init, FederationInit, Idle, Range
  <2>. QED  BY <2>1, <2>2 DEF FingerprintsOK
<1>4. ReadingsOK
  BY DEF Init, FederationInit, ReadingsOK, ReadingOK, NoStat
<1>. QED  BY <1>1, <1>2, <1>3, <1>4 DEF ShownInv

LEMMA SpendKeepsAgent ==
  ASSUME AgentNamed, NEW what \in {"admin", "rounds", "events", "losses"}, Spend(what)
  PROVE  left'.agent = left.agent /\ AgentNamed'
BY DEF Spend, AgentNamed

LEMMA NextKeepsAgent ==
  ASSUME AgentNamed, [Next]_vars
  PROVE  left'.agent = left.agent /\ AgentNamed'
<1>1. left' = left \/ \E what \in {"admin", "rounds", "events", "losses"} : Spend(what)
  BY DEF Next, vars, RegistryNext, New, Register, SelectCA, PersistCA, IssueClientCert, Revoke,
         PullAssignment, PushResults, PushLost, Measure, AgentResults,
         CommitRemote, Respond, HubDiesInCommit, CommitFails, SwapRuntime, HubRestarts,
         Reboot, AgentRestarts, InstallBundle, AgentStarts
<1>. QED  BY <1>1, SpendKeepsAgent DEF AgentNamed

(* The defs an agent holds are ones the hub has run.                       *)
LEMMA NextDefsOK ==
  ASSUME DefsOK, [Next]_vars
  PROVE  DefsOK'
<1>1. CASE PullAssignment
  <2>1. live' = live /\ held' = {Assignment}
    BY <1>1 DEF PullAssignment, hubVars
  <2>2. \A i \in DOMAIN Assignment : Assignment[i].def # NoFingerprint
    BY FederationAssumption DEF DefsOK, Assignment, AssignmentFor
  <2>. QED  BY <2>1, <2>2 DEF DefsOK
<1>2. CASE \E config \in Configs : SwapRuntime(config)
  BY <1>2 DEF SwapRuntime, agentVars, DefsOK
<1>3. CASE live' = live /\ (held' = held \/ held' = {})
  BY <1>3 DEF DefsOK
<1>4. CASE \/ RegistryNext /\ UNCHANGED <<hubVars, reqs, agentVars>>
           \/ PushResults \/ PushLost \/ HubRestarts \/ AgentRestarts \/ UNCHANGED vars
           \/ \E asg \in held, i \in Ids, reading \in BOOLEAN : Measure(asg, i, reading)
           \/ \E q \in Slots : AgentResults(q) \/ CommitRemote(q) \/ Respond(q) \/ HubDiesInCommit(q)
           \/ \E q \in Slots, written \in BOOLEAN : CommitFails(q, written)
           \/ \E c \in handed : InstallBundle(c)
  BY <1>3, <1>4 DEF vars, hubVars, agentVars, PushResults, PushLost, Measure, AgentResults,
         CommitRemote, Respond, HubDiesInCommit, CommitFails, HubRestarts,
         Reboot, AgentRestarts, InstallBundle, AgentStarts
<1>. QED  BY <1>1, <1>2, <1>4 DEF Next

(* Batches are made of buffered rounds.                                    *)
LEMMA NextFingerprintsOK ==
  ASSUME MeaningInv, RoundsNamed, DefsOK, FingerprintsOK, AgentNamed, [Next]_vars
  PROVE  FingerprintsOK'
<1>. SUFFICES ASSUME left.agent # "bare"
              PROVE  /\ \A r \in Range(buf') : Fingerprinted(r)
                     /\ \A q \in Slots : \A r \in Range(reqs'[q].rounds) : Fingerprinted(r)
  BY NextKeepsAgent DEF FingerprintsOK
<1>. DEFINE Carried(q) == Range(reqs'[q].rounds) \subseteq Range(reqs[q].rounds) \cup Range(buf)
<1>1. CASE Range(buf') \subseteq Range(buf) /\ \A q \in Slots : Carried(q)
  BY <1>1 DEF FingerprintsOK
<1>2. CASE \E asg \in held, i \in Ids, reading \in BOOLEAN : Measure(asg, i, reading)
  <2>1. PICK r : buf' = Append(buf, r) /\ Fingerprinted(r) /\ reqs' = reqs
    <3>1. PICK asg \in held, i \in Ids, reading \in BOOLEAN : Measure(asg, i, reading)
      BY <1>2
    <3>2. PICK r : /\ buf' = Append(buf, r) /\ r.def = asg[i].def
                   /\ r.fp = IF left.agent = "bare" THEN NoFingerprint ELSE asg[i].def
      BY <3>1 DEF Measure
    <3>3. asg[i].def # NoFingerprint
      BY <3>1 DEF Measure, BuildJobs, DefsOK
    <3>4. reqs' = reqs
      BY <3>1 DEF Measure
    <3>. QED  BY <3>2, <3>3, <3>4 DEF Fingerprinted
  <2>2. Range(buf') = Range(buf) \cup {r}
    BY <2>1, AppendProperties DEF MeaningInv, BufferOK, Range
  <2>. QED  BY <2>1, <2>2 DEF FingerprintsOK
<1>3. CASE PushResults
  <2>1. buf' = buf /\ \E p : reqs' = [reqs EXCEPT ![p] =
                               [Idle EXCEPT !.phase = "received", !.rounds = buf]]
    BY <1>3 DEF PushResults
  <2>2. \A q \in Slots : reqs'[q].rounds = reqs[q].rounds \/ reqs'[q].rounds = buf
    <3>1. PICK p : reqs' = [reqs EXCEPT ![p] =
                               [Idle EXCEPT !.phase = "received", !.rounds = buf]]
      BY <2>1
    <3>2. ASSUME NEW q \in Slots PROVE reqs'[q].rounds = reqs[q].rounds \/ reqs'[q].rounds = buf
      <4>1. CASE q = p
        <5>1. reqs'[q] = [phase |-> "received", rounds |-> buf, outs |-> {}]
          BY <3>1, <4>1, BatchPosted DEF MeaningInv
        <5>. QED  BY <5>1
      <4>2. CASE q # p
        BY <3>1, <4>2 DEF MeaningInv, RequestsOK
      <4>. QED  BY <4>1, <4>2
    <3>. QED  BY <3>2
  <2>. QED  BY <1>1, <2>1, <2>2
<1>4. ASSUME NEW q \in Slots, Respond(q)
      PROVE  Range(buf') \subseteq Range(buf) /\ \A p \in Slots : Carried(p)
  <2>1. \A p \in Slots : reqs'[p] = reqs[p] \/ reqs'[p] = Idle
    BY <1>4 DEF Respond, MeaningInv, RequestsOK
  <2>2. buf' = buf \/ buf' = SubSeq(buf, Len(reqs[q].rounds) + 1, Len(buf))
    BY <1>4 DEF Respond
  <2>3. Range(buf') \subseteq Range(buf)
    BY <2>2, ReleaseShortens DEF MeaningInv, RequestsOK, RequestOK
  <2>. QED  BY <2>1, <2>3 DEF Idle, Range
<1>5. ASSUME NEW q \in Slots, AgentResults(q) \/ CommitRemote(q)
      PROVE  Range(buf') \subseteq Range(buf) /\ \A p \in Slots : Carried(p)
  <2>1. PICK phase, outs : reqs' = Advanced(q, phase, outs)
    BY <1>5 DEF AgentResults, CommitRemote, Advanced
  <2>2. OthersStay(q) /\ reqs'[q] = [phase |-> phase, rounds |-> reqs[q].rounds, outs |-> outs]
    BY <2>1, RequestAdvances DEF MeaningInv
  <2>3. \A p \in Slots : reqs'[p].rounds = reqs[p].rounds
    BY <2>2 DEF OthersStay
  <2>. QED  BY <1>5, <2>3 DEF AgentResults, CommitRemote, agentVars
<1>6. CASE buf' = buf /\ \A q \in Slots : reqs'[q] = reqs[q] \/ reqs'[q] = Idle
  BY <1>1, <1>6 DEF Idle, Range
<1>7. CASE \E q \in Slots, written \in BOOLEAN : CommitFails(q, written)
  BY <1>6, <1>7 DEF CommitFails, MeaningInv, RequestsOK
<1>8. CASE HubRestarts \/ \E q \in Slots : HubDiesInCommit(q)
  BY <1>6, <1>8 DEF HubRestarts, HubDiesInCommit, Reboot
<1>9. CASE \/ RegistryNext /\ UNCHANGED <<hubVars, reqs, agentVars>>
           \/ PullAssignment \/ PushLost \/ AgentRestarts \/ UNCHANGED vars
           \/ \E c \in handed : InstallBundle(c)
           \/ \E config \in Configs : SwapRuntime(config)
  BY <1>6, <1>9 DEF PullAssignment, PushLost, AgentRestarts, InstallBundle, AgentStarts,
                    SwapRuntime, vars, agentVars
<1>. QED  BY <1>1, <1>2, <1>3, <1>4, <1>5, <1>7, <1>8, <1>9 DEF Next
(* The answer applies the last reading of each target of the batch.        *)
OutsOf(q, i) == {o \in reqs[q].outs : o.id = i}
LastOf(q, i) == CHOOSE o \in OutsOf(q, i) : \A p \in OutsOf(q, i) : p.round.ts <= o.round.ts

LEMMA LastOfIsLast ==
  ASSUME MeaningInv, RoundsNamed, NEW q \in Slots, NEW i, OutsOf(q, i) # {}
  PROVE  /\ LastOf(q, i) \in OutsOf(q, i)
         /\ \A p \in OutsOf(q, i) : p.round.ts <= LastOf(q, i).round.ts
         /\ \A p \in OutsOf(q, i) : p.round.ts \in Nat
<1>. DEFINE T == {o.round.ts : o \in OutsOf(q, i)}
<1>1. clock \in Nat /\ \A o \in OutsOf(q, i) : o.round.ts \in 0 .. clock
  BY DEF MeaningInv, BasicsOK, RoundsNamed, OutsOf
<1>2. T \in SUBSET (0 .. clock) /\ T # {}
  BY <1>1
<1>3. \E x \in T : \A y \in T : y <= x
  <2>. HIDE DEF T
  <2>. QED  BY <1>1, <1>2, LastTime
<1>4. \E o \in OutsOf(q, i) : \A p \in OutsOf(q, i) : p.round.ts <= o.round.ts
  BY <1>3
<1>. QED  BY <1>1, <1>4 DEF LastOf

LEMMA RespondReadingsOK ==
  ASSUME MeaningInv, RoundsNamed, FingerprintsOK, ReadingsOK, NEW q \in Slots, Respond(q),
         NEW i \in Ids
  PROVE  ReadingOK(i)'
<1>1. left' = left
  BY DEF Respond
<1>2. /\ stat'[i] = IF OutsOf(q, i) = {} THEN stat[i]
                    ELSE SetStat(stat[i], LastOf(q, i).round, StatKey[LastOf(q, i).fp])
      /\ newest'[i] = Max({newest[i]} \cup {o.round.ts : o \in OutsOf(q, i)})
  BY DEF Respond, OutsOf, LastOf
<1>3. newest[i] \in Nat /\ ReadingOK(i)
  BY DEF ReadingsOK, ReadingOK
<1>4. CASE OutsOf(q, i) = {}
  <2>1. Max({newest[i]}) = newest[i]
    BY <1>3, MaxIsLast
  <2>2. {newest[i]} \cup {o.round.ts : o \in OutsOf(q, i)} = {newest[i]}
    BY <1>4
  <2>. QED  BY <1>1, <1>2, <1>3, <1>4, <2>1, <2>2 DEF ReadingOK
<1>5. CASE OutsOf(q, i) # {}
  <2>. DEFINE o == LastOf(q, i)
              T == {newest[i]} \cup {p.round.ts : p \in OutsOf(q, i)}
  <2>1. /\ o \in OutsOf(q, i) /\ o.round.ts \in Nat
        /\ \A p \in OutsOf(q, i) : p.round.ts <= o.round.ts /\ p.round.ts \in Nat
    BY <1>5, LastOfIsLast
  <2>2. left.agent # "bare" => o.fp = o.round.def
    BY <2>1 DEF OutsOf, MeaningInv, RequestsOK, RequestOK, OutcomeOK, RoundsNamed,
                FingerprintsOK, Fingerprinted
  <2>3. stat'[i] = SetStat(stat[i], o.round, StatKey[o.fp]) /\ newest'[i] = Max(T)
    BY <1>2, <1>5
  <2>. HIDE DEF o
  <2>4. T \in SUBSET Nat /\ newest[i] \in T /\ o.round.ts \in T
    BY <1>3, <2>1
  <2>5. CASE o.round.ts < stat[i].ts
    <3>1. \A y \in T : y <= newest[i]
      BY <1>3, <2>1, <2>5 DEF ReadingOK
    <3>2. Max(T) = newest[i]
      <4>. HIDE DEF T
      <4>. QED  BY <2>4, <3>1, MaxIsLast
    <3>3. stat'[i] = stat[i]
      BY <2>3, <2>5 DEF SetStat
    <3>. QED  BY <1>1, <1>3, <2>3, <3>2, <3>3 DEF ReadingOK
  <2>6. CASE ~(o.round.ts < stat[i].ts)
    <3>1. \A y \in T : y <= o.round.ts
      BY <1>3, <2>1, <2>6 DEF ReadingOK
    <3>2. Max(T) = o.round.ts
      <4>. HIDE DEF T
      <4>. QED  BY <2>4, <3>1, MaxIsLast
    <3>3. stat'[i] = [ts |-> o.round.ts, key |-> StatKey[o.fp],
                      set |-> o.round.reading, def |-> o.round.def]
      BY <2>3, <2>6 DEF SetStat
    <3>4. stat'[i].ts = o.round.ts /\ stat'[i].key = StatKey[o.fp] /\ stat'[i].def = o.round.def
      BY <3>3
    <3>. QED  BY <1>1, <2>1, <2>2, <2>3, <3>2, <3>4 DEF ReadingOK
  <2>. QED  BY <2>5, <2>6
<1>. QED  BY <1>4, <1>5

LEMMA NextShownInv == MeaningInv /\ RoundsNamed /\ ShownInv /\ [Next]_vars => ShownInv'
<1>. SUFFICES ASSUME MeaningInv, RoundsNamed, ShownInv, [Next]_vars PROVE ReadingsOK'
  BY NextKeepsAgent, NextDefsOK, NextFingerprintsOK DEF ShownInv
<1>1. left'.agent = left.agent
  BY NextKeepsAgent DEF ShownInv
<1>2. CASE UNCHANGED <<stat, newest>>
  BY <1>1, <1>2 DEF ShownInv, ReadingsOK, ReadingOK
<1>3. CASE \E q \in Slots : Respond(q)
  BY <1>3, RespondReadingsOK DEF ShownInv, ReadingsOK
<1>4. CASE HubRestarts \/ \E q \in Slots : HubDiesInCommit(q)
  <2>1. stat' = [i \in Ids |-> NoStat] /\ newest' = [i \in Ids |-> 0]
    BY <1>4 DEF HubRestarts, HubDiesInCommit, Reboot
  <2>. QED  BY <2>1 DEF ReadingsOK, ReadingOK, NoStat
<1>5. CASE \/ RegistryNext /\ UNCHANGED <<hubVars, reqs, agentVars>>
           \/ PullAssignment \/ PushResults \/ PushLost \/ AgentRestarts \/ UNCHANGED vars
           \/ \E asg \in held, i \in Ids, reading \in BOOLEAN : Measure(asg, i, reading)
           \/ \E c \in handed : InstallBundle(c)
           \/ \E q \in Slots : AgentResults(q) \/ CommitRemote(q)
           \/ \E q \in Slots, written \in BOOLEAN : CommitFails(q, written)
           \/ \E config \in Configs : SwapRuntime(config)
  BY <1>2, <1>5 DEF PullAssignment, PushResults, PushLost, AgentRestarts, InstallBundle,
                    AgentStarts, SwapRuntime, Measure, AgentResults, CommitRemote, CommitFails,
                    vars, hubVars
<1>. QED  BY <1>3, <1>4, <1>5 DEF Next

(* However batches overtake each other, the clock reading shown for a      *)
(* target is the newest applied, and of the server the target names now.   *)
THEOREM ReadingsAreNewest == Spec => []ShownReadingIsNewest
<1>1. ShownInv => ShownReadingIsNewest
  BY DEF ShownInv, ReadingsOK, ReadingOK, ShownReadingIsNewest, Shown
<1>2. OnceInv => RoundsNamed
  BY DEF OnceInv
<1>. QED  BY <1>1, <1>2, InitMeaningInv, NextMeaningInv, InitOnceInv, NextOnceInv,
             InitShownInv, NextShownInv, PTL DEF Spec
=============================================================================
