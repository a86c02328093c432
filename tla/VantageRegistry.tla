--------------------------- MODULE VantageRegistry ---------------------------
(***************************************************************************)
(* The registry of one vantage and the authority that signs its client     *)
(* certificates (internal/vantage), as its users reach it: `vantage add`   *)
(* on the command line and in the dashboard (register, then issue, in two  *)
(* transactions), revocation, the schema migration of every start, and the *)
(* agent listener, which trusts the authority it found when it started     *)
(* (internal/api/agentmtls.go) and asks the registry on every request      *)
(* (agentauth.go).  Names other than the vantage's, and the reserved one,  *)
(* never reach the table.                                                  *)
(***************************************************************************)
EXTENDS Naturals, FiniteSets

CONSTANTS
  Issuers,    \* calls of addVantage and runs of `smoked vantage add`, each at most once
  Scenes      \* bounds: how many adds and revocations ("admin"), and how many of the
              \* rounds, events and losses of Federation.tla, a behaviour may have, and the
              \* settings it has there

Hub == "hub"
None == "none"
Processes == Issuers \cup {Hub}

ASSUME RegistryAssumption ==
  /\ IsFiniteSet(Issuers) /\ Issuers \cap {Hub, None, "old"} = {}
  /\ \A s \in Scenes : s.admin \in Nat

VARIABLES
  migrated,   \* has the legacy_certs column been added
  row,        \* the vantage's row: None, "plain" or "legacy" (legacy_certs)
  serials,    \* vantage_certs: the serials recorded for that row
  ca,         \* vantage_ca: None, or the authority, named after the process that made it
  task,       \* each process's call of CA(): how far it is, and the authority it got
  handed,     \* certificates out in the world: [serial, ca]
  revoked,    \* history: those handed out before a revocation
  left        \* the scene, and what is left of its bounds

tables == <<migrated, row, serials, ca>>
registryVars == <<tables, task, handed, revoked>>

Spend(what) == left[what] > 0 /\ left' = [left EXCEPT ![what] = @ - 1]

(* An empty database; or one from before serials were recorded, with its   *)
(* vantage's certificate in use.                                           *)
OldCert == [serial |-> 0, ca |-> "old"]
RegistryInit ==
  /\ \/ row = None /\ ca = None /\ handed = {}
     \/ row = "plain" /\ ca = "old" /\ handed = {OldCert}
  /\ migrated = FALSE /\ serials = {} /\ revoked = {} /\ left \in Scenes
  /\ task = [p \in Processes |-> [at |-> IF p = Hub THEN "started" ELSE "idle", ca |-> None]]

(* A process opens the store: the schema runs every time, and only the     *)
(* first run finds rows from before the column.                            *)
New ==
  /\ migrated' = TRUE
  /\ row' = IF migrated \/ row = None THEN row ELSE "legacy"
  /\ UNCHANGED <<serials, ca, task, handed, revoked, left>>

(* Seeded fault: the column's default is never switched back to false.     *)
RegisterAsLegacy(p) ==
  /\ migrated /\ task[p].at = "idle" /\ Spend("admin")
  /\ row' = IF row = None THEN "legacy" ELSE row
  /\ task' = [task EXCEPT ![p].at = "started"]
  /\ UNCHANGED <<migrated, serials, ca, handed, revoked>>

Register(p) ==
  /\ migrated /\ task[p].at = "idle" /\ Spend("admin")
  /\ row' = IF row = None THEN "plain" ELSE row
  /\ task' = [task EXCEPT ![p].at = "started"]
  /\ UNCHANGED <<migrated, serials, ca, handed, revoked>>

SelectCA(p) ==
  /\ migrated /\ task[p].at = "started"
  /\ task' = [task EXCEPT ![p] = [at |-> IF ca = None THEN "generated" ELSE "ready", ca |-> ca]]
  /\ UNCHANGED <<tables, handed, revoked, left>>

(* INSERT ON CONFLICT DO NOTHING, and the select that follows it.          *)
PersistCA(p) ==
  /\ task[p].at = "generated"
  /\ ca' = IF ca = None THEN p ELSE ca
  /\ task' = [task EXCEPT ![p] = [at |-> "ready", ca |-> ca']]
  /\ UNCHANGED <<migrated, row, serials, handed, revoked, left>>

(* The certificate is signed and its serial recorded last; the foreign key *)
(* refuses the serial of a vantage revoked meanwhile.                      *)
IssueClientCert(p) ==
  LET cert == [serial |-> Cardinality(handed) + 1, ca |-> task[p].ca]
  IN  /\ p \in Issuers /\ task[p].at = "ready"
      /\ task' = [task EXCEPT ![p].at = "done"]
      /\ IF row = None
         THEN UNCHANGED <<serials, handed>>
         ELSE serials' = serials \cup {cert.serial} /\ handed' = handed \cup {cert}
      /\ UNCHANGED <<migrated, row, ca, revoked, left>>

Revoke ==
  /\ migrated /\ row # None /\ Spend("admin")
  /\ row' = None /\ serials' = {} /\ revoked' = handed
  /\ UNCHANGED <<migrated, ca, task, handed>>

IsActive(serial) == row = "legacy" \/ (row # None /\ serial \in serials)

(* The mTLS handshake and requireAgent.                                    *)
Listening == migrated /\ task[Hub].at = "ready"
Accepts(cert) == Listening /\ cert.ca = task[Hub].ca /\ IsActive(cert.serial)

RegistryNext ==
  \/ New \/ Revoke
  \/ \E p \in Processes : SelectCA(p) \/ PersistCA(p)
  \/ \E p \in Issuers : Register(p) \/ IssueClientCert(p)

(* A listening hub accepts exactly the certificates handed out since the   *)
(* last revocation: a revoked one stays out when the name is registered    *)
(* again, and no race for the authority or with a revocation leaves a      *)
(* bundle that cannot connect.                                             *)
CredentialsFollowRegistration ==
  Listening => \A c \in handed : Accepts(c) <=> c \notin revoked

=============================================================================
