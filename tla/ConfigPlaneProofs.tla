------------------------- MODULE ConfigPlaneProofs -------------------------
(***************************************************************************)
(* Theorems about ConfigPlane.tla, for all names, documents, habits and    *)
(* bounds: who writes has read what he overwrites, a hub that is idle runs *)
(* what is stored, a staged edit stays until it is applied, stored history *)
(* keeps its keys, and an exact session's document is not refused.         *)
(*                                                                         *)
(* The second part is about the documents themselves (ConfigDocuments),    *)
(* for all trees and archives: summaries tell every change, edits and      *)
(* imports keep targets and their keys, histories lose no sample they had. *)
(***************************************************************************)
EXTENDS ConfigPlane, ConfigDocuments, FiniteSetTheorems, SequenceTheorems, WellFoundedInduction,
        TLAPS

(* What was read of the row at a version, and edited at some names since.  *)
Basis(ver, doc, names) ==
  /\ ver \in Nat /\ ver <= stored.ver
  /\ ver = stored.ver =>
       \A n \in Names \ names : n \in DOMAIN stored.doc <=> n \in DOMAIN doc

RowOK == stored = [ver |-> stored.ver, doc |-> stored.doc] /\ stored.ver \in Nat

(* The row is left alone, or written once.                                 *)
Grows == stored' = stored \/ (RowOK' /\ stored'.ver = stored.ver + 1)

LEMMA WriteGrows ==
  ASSUME RowOK, NEW doc, Write(doc)
  PROVE  RowOK' /\ Grows /\ stored'.doc = doc /\ stored'.ver = stored.ver + 1
BY DEF RowOK, Write, Grows

LEMMA BasisStays ==
  ASSUME RowOK, Grows, NEW ver, NEW doc, NEW names, Basis(ver, doc, names)
  PROVE  Basis(ver, doc, names)'
BY DEF RowOK, Grows, Basis

-----------------------------------------------------------------------------
(* applyMu: one holder, and what it knows of the row.                      *)
Holds(b) ==
  /\ b.ver \in Nat
  /\ [ver |-> b.ver, doc |-> b.doc] = stored \/ (behind /\ b.ver < stored.ver)

HolderOK(b) ==
  /\ b = Work(b.kind, b.ver, b.doc, b.names)
  /\ b.kind \in IF up THEN {"reload", "set", "swap"} ELSE {"migrate", "boot"}
  /\ b.kind \in {"reload", "swap"} => Holds(b)

LockInv ==
  /\ RowOK
  /\ \A b, c \in busy : b = c
  /\ \A b \in busy : HolderOK(b)
  /\ up /\ (\A b \in busy : b.kind # "swap") => live = stored \/ behind

LEMMA InitLockInv == Init => LockInv
<1>. SUFFICES ASSUME Init PROVE LockInv
  OBVIOUS
<1>1. RowOK
  BY DEF Init, RowOK
<1>2. busy = {} /\ ~up
  BY DEF Init
<1>. QED  BY <1>1, <1>2 DEF LockInv

(* Whoever does not touch the hub and does not write keeps it.             *)
LEMMA OutsidersKeepLock ==
  ASSUME LockInv, UNCHANGED <<stored, behind, live, up, busy>>
  PROVE  LockInv'
BY DEF LockInv, RowOK, HolderOK, Holds

LEMMA BootKeepsLock ==
  ASSUME LockInv, BootReads \/ BootMigrates \/ BootBuilds \/ Stop
  PROVE  LockInv'
<1>1. CASE BootReads
  BY <1>1 DEF BootReads, LockInv, RowOK, HolderOK, Holds, Work, Idle
<1>2. CASE BootMigrates
  <2>1. PICK b \in busy :
          /\ b.kind = "migrate" /\ busy' = {[b EXCEPT !.kind = "boot"]} /\ UNCHANGED <<live, up>>
          /\ Write(b.doc) \/ UNCHANGED stored
    BY <1>2 DEF BootMigrates
  <2>2. RowOK'
    BY <2>1, WriteGrows DEF LockInv, RowOK
  <2>3. ~up /\ b = Work(b.kind, b.ver, b.doc, b.names)
    BY <2>1 DEF LockInv, HolderOK
  <2>4. [b EXCEPT !.kind = "boot"] = Work("boot", b.ver, b.doc, b.names)
    BY <2>3 DEF Work
  <2>5. \A c \in busy' : c = Work("boot", b.ver, b.doc, b.names)
    BY <2>1, <2>4
  <2>. QED  BY <2>1, <2>2, <2>3, <2>5 DEF LockInv, HolderOK, Work
<1>3. CASE BootBuilds
  BY <1>3 DEF BootBuilds, LockInv, RowOK, HolderOK
<1>4. CASE Stop
  BY <1>4 DEF Stop, LockInv, RowOK, HolderOK
<1>. QED  BY <1>1, <1>2, <1>3, <1>4

LEMMA ReloadKeepsLock ==
  ASSUME LockInv, ReloadReads \/ ReloadSwaps
  PROVE  LockInv'
<1>1. CASE ReloadReads
  <2>1. /\ busy' = {Work("reload", stored.ver, stored.doc, {})} /\ busy = {}
        /\ UNCHANGED <<stored, behind, live, up>> /\ up
    BY <1>1 DEF ReloadReads, Idle
  <2>2. \A b \in busy' : HolderOK(b)'
    BY <2>1 DEF LockInv, RowOK, HolderOK, Holds, Work
  <2>. QED  BY <2>1, <2>2 DEF LockInv, RowOK
<1>2. CASE ReloadSwaps
  <2>1. PICK b \in busy :
          /\ b.kind = "reload" /\ busy' = busy \ {b} /\ UNCHANGED <<stored, up>>
          /\ live' = IF Builds(b.doc) THEN [ver |-> b.ver, doc |-> b.doc] ELSE live
          /\ behind' = IF b.ver = stored.ver THEN ~Builds(b.doc) ELSE behind
    <3>1. PICK b \in busy :
            /\ b.kind = "reload" /\ busy' = busy \ {b} /\ UNCHANGED stored
            /\ live' = IF Builds(b.doc) THEN [ver |-> b.ver, doc |-> b.doc] ELSE live
            /\ behind' = IF b.ver = stored.ver THEN ~Builds(b.doc) ELSE behind
      BY <1>2 DEF ReloadSwaps
    <3>2. up' = up
      BY <1>2 DEF ReloadSwaps
    <3>. QED  BY <3>1, <3>2
  <2>2. busy' = {}
    BY <2>1 DEF LockInv
  <2>3. Holds(b) /\ RowOK
    BY <2>1 DEF LockInv, HolderOK
  <2>4. live' = stored \/ behind'
    <3>1. CASE b.ver # stored.ver
      <4>1. behind
        BY <2>3, <3>1 DEF Holds
      <4>2. behind' = behind
        BY <2>1, <3>1
      <4>. QED  BY <4>1, <4>2
    <3>2. CASE b.ver = stored.ver /\ Builds(b.doc)
      <4>1. [ver |-> b.ver, doc |-> b.doc] = stored
        BY <2>3, <3>2 DEF Holds, RowOK
      <4>. QED  BY <2>1, <3>2, <4>1
    <3>3. CASE b.ver = stored.ver /\ ~Builds(b.doc)
      <4>1. behind' = ~Builds(b.doc)
        BY <2>1, <3>3
      <4>. QED  BY <3>3, <4>1, Zenon
    <3>. QED  BY <3>1, <3>2, <3>3
  <2>. QED  BY <2>1, <2>2, <2>3, <2>4 DEF LockInv, RowOK
<1>. QED  BY <1>1, <1>2

(* An apply, or an import, takes the lock.                                 *)
LEMMA SetKeepsLock ==
  ASSUME LockInv, NEW ver, NEW doc, NEW names, up, Idle,
         busy' = {Work("set", ver, doc, names)}, UNCHANGED <<stored, behind, live, up>>
  PROVE  LockInv'
<1>1. \A b \in busy' : HolderOK(b)'
  BY DEF HolderOK, Work
<1>. QED  BY <1>1 DEF LockInv, RowOK, Idle

LEMMA PersistKeepsLock ==
  ASSUME LockInv, ApplyPersists
  PROVE  LockInv'
<1>1. PICK b \in busy :
        /\ b.kind = "set" /\ Write(b.doc) /\ behind' = FALSE /\ UNCHANGED <<live, up>>
        /\ busy' = (busy \ {b}) \cup {[b EXCEPT !.kind = "swap", !.ver = stored'.ver]}
  BY DEF ApplyPersists
<1>2. RowOK' /\ stored'.doc = b.doc
  BY <1>1, WriteGrows DEF LockInv
<1>3. b = Work(b.kind, b.ver, b.doc, b.names) /\ up
  BY <1>1 DEF LockInv, HolderOK
<1>4. ASSUME NEW v
      PROVE  [b EXCEPT !.kind = "swap", !.ver = v] = Work("swap", v, b.doc, b.names)
  <2>1. PICK c : c = [b EXCEPT !.kind = "swap"]
    OBVIOUS
  <2>2. c = Work("swap", b.ver, b.doc, b.names)
    BY <1>3, <2>1 DEF Work
  <2>3. [c EXCEPT !.ver = v] = Work("swap", v, b.doc, b.names)
    BY <2>2 DEF Work
  <2>. QED  BY <2>1, <2>3
<1>5. busy' = {Work("swap", stored'.ver, b.doc, b.names)}
  BY <1>1, <1>4 DEF LockInv
<1>6. \A c \in busy' : HolderOK(c)'
  BY <1>1, <1>2, <1>3, <1>5 DEF HolderOK, Holds, Work, RowOK
<1>. QED  BY <1>1, <1>2, <1>5, <1>6 DEF LockInv, Work

LEMMA AnswersKeepLock ==
  ASSUME LockInv, ApplyConflicts \/ ApplyUnanswered \/ ApplySwaps
  PROVE  LockInv'
<1>1. CASE ApplyConflicts
  BY <1>1 DEF ApplyConflicts, LockInv, RowOK, HolderOK, Holds
<1>2. CASE ApplyUnanswered
  <2>1. PICK b \in busy : Write(b.doc) /\ behind' = TRUE /\ busy' = busy \ {b}
    BY <1>2 DEF ApplyUnanswered
  <2>2. RowOK' /\ busy' = {}
    BY <2>1, WriteGrows DEF LockInv
  <2>. QED  BY <2>1, <2>2 DEF LockInv
<1>3. CASE ApplySwaps
  <2>1. PICK b \in busy : /\ b.kind = "swap" /\ live' = [ver |-> b.ver, doc |-> b.doc]
                          /\ busy' = busy \ {b} /\ UNCHANGED <<stored, behind, up>>
    BY <1>3 DEF ApplySwaps
  <2>2. Holds(b) /\ busy' = {}
    BY <2>1 DEF LockInv, HolderOK
  <2>. QED  BY <2>1, <2>2 DEF LockInv, Holds, RowOK
<1>. QED  BY <1>1, <1>2, <1>3

LEMMA CommandKeepsLock ==
  ASSUME LockInv, CommandWrites
  PROVE  LockInv'
<1>1. PICK c \in command : \/ Write(c.doc) /\ behind' = TRUE
                           \/ UNCHANGED <<stored, behind>>
  BY DEF CommandWrites
<1>2. UNCHANGED <<live, up, busy>>
  BY DEF CommandWrites, hub
<1>3. CASE UNCHANGED <<stored, behind>>
  BY <1>2, <1>3, OutsidersKeepLock
<1>4. CASE Write(c.doc) /\ behind' = TRUE
  <2>1. RowOK' /\ stored'.ver = stored.ver + 1 /\ stored.ver \in Nat
    BY <1>4, WriteGrows DEF LockInv, RowOK
  <2>2. \A b \in busy : HolderOK(b)'
    BY <1>2, <1>4, <2>1 DEF LockInv, HolderOK, Holds, RowOK
  <2>. QED  BY <1>2, <1>4, <2>1, <2>2 DEF LockInv
<1>. QED  BY <1>1, <1>3, <1>4

LEMMA NextLockInv == LockInv /\ [Next]_vars => LockInv'
<1>. SUFFICES ASSUME LockInv, [Next]_vars PROVE LockInv'
  OBVIOUS
<1>1. CASE BootReads \/ BootMigrates \/ BootBuilds \/ Stop
  BY <1>1, BootKeepsLock
<1>2. CASE ReloadReads \/ ReloadSwaps
  BY <1>2, ReloadKeepsLock
<1>3. CASE ApplyPersists
  BY <1>3, PersistKeepsLock
<1>4. CASE ApplyConflicts \/ ApplyUnanswered \/ ApplySwaps
  BY <1>4, AnswersKeepLock
<1>5. CASE CommandWrites
  BY <1>5, CommandKeepsLock
<1>6. CASE \E p \in puts : ApplyBuilds(p)
  BY <1>6, SetKeepsLock DEF ApplyBuilds
<1>7. CASE \E n \in Names : ImportBuilds(n)
  BY <1>7, SetKeepsLock DEF ImportBuilds
<1>8. CASE \E p \in puts : ApplyRejects(p)
  BY <1>8, OutsidersKeepLock DEF ApplyRejects, hub
<1>9. CASE ClientStep /\ ~CommandWrites
  BY <1>9, OutsidersKeepLock
  DEF ClientStep, CommandReads, loadCfgTree, saveDoc, saveDocAnswered, GiveUp, Forget, hub
<1>10. CASE McpStep
  BY <1>10, OutsidersKeepLock
  DEF McpStep, SessionEnds, ensureReads, ensureComposes, StageAdd, StageRemove, StageReplace,
      Stage, Discard, applyStaged, applyStagedAnswered, hub
<1>11. CASE UNCHANGED vars
  BY <1>11, OutsidersKeepLock DEF vars, hub
<1>. QED
  BY <1>1, <1>2, <1>3, <1>4, <1>5, <1>6, <1>7, <1>8, <1>9, <1>10, <1>11 DEF Next, HubStep

(* Whatever reloads, applies, imports, commands and lost answers race, an  *)
(* idle hub runs what is stored, or that was written behind its back.      *)
THEOREM LiveFollowsStore == Spec => []LiveIsLatest
<1>1. LockInv => LiveIsLatest
  BY DEF LockInv, LiveIsLatest, Idle
<1>. QED  BY <1>1, InitLockInv, NextLockInv, PTL DEF Spec

-----------------------------------------------------------------------------
(* Who writes: each has the row as he read it, and edited some names.      *)
SameNames(d, e) == DOMAIN d = DOMAIN e

Applying(p) ==
  \E b \in busy : \/ b.kind = "set" /\ b.ver = p.ver /\ SameNames(b.doc, p.doc)
                  \/ b.kind = "swap" /\ b.ver = p.ver + 1 /\ SameNames(b.doc, p.doc)

PutOK(p) ==
  /\ p.ver \in Nat
  /\ p.state = "sent" => Basis(p.ver, p.doc, p.names)
  /\ p.state = "applying" => Applying(p)
  /\ p.state = "applied" => Basis(p.ver + 1, p.doc, {})
  /\ p = [from |-> p.from, ver |-> p.ver, doc |-> p.doc, names |-> p.names, exact |-> p.exact,
          intent |-> p.intent, same |-> p.same, state |-> p.state]

AuthorsOK == \A a \in Authors : Basis(a.ver, a.doc, a.names)
PutsOK == \A p \in puts : PutOK(p)
CopiesOK ==
  /\ dash.have => Basis(dash.ver, dash.doc, {})
  /\ session.phase # "none" => Basis(session.ver, session.work, session.names)
  /\ session = [phase |-> session.phase, ver |-> session.ver, work |-> session.work,
                file |-> session.file, exact |-> session.exact, names |-> session.names]

WritersInv == LockInv /\ AuthorsOK /\ PutsOK /\ CopiesOK

LEMMA InitWritersInv == Init => WritersInv
BY InitLockInv
DEF Init, WritersInv, AuthorsOK, Authors, PutsOK, CopiesOK, NoCopy, NoSession

LEMMA EditsKeepNames ==
  /\ \A d, v : SameNames(WithNewIDs(d, v), d)
  /\ \A d : SameNames(stampIDs(d), d) /\ SameNames(Shown(d), d)
  /\ \A d, n : DOMAIN With(d, n) = DOMAIN d \cup {n} /\ DOMAIN Without(d, n) = DOMAIN d \ {n}
<1>1. \A d, v : SameNames(WithNewIDs(d, v), d)
  BY DEF SameNames, WithNewIDs
<1>2. \A d : SameNames(stampIDs(d), d) /\ SameNames(Shown(d), d)
  BY DEF SameNames, stampIDs, Shown, RedactSecrets
<1>3. \A d, n : DOMAIN With(d, n) = DOMAIN d \cup {n}
  BY DEF With
<1>4. \A d, n : DOMAIN Without(d, n) = DOMAIN d \ {n}
  BY DEF Without
<1>. QED  BY <1>1, <1>2, <1>3, <1>4

LEMMA BasisOfSameNames ==
  ASSUME NEW ver, NEW d, NEW e, NEW names, Basis(ver, d, names), SameNames(e, d)
  PROVE  Basis(ver, e, names)
BY DEF Basis, SameNames

LEMMA BasisOfEdit ==
  ASSUME NEW ver, NEW d, NEW e, NEW names, NEW more, Basis(ver, d, names),
         \A n \in Names \ more : n \in DOMAIN e <=> n \in DOMAIN d
  PROVE  Basis(ver, e, names \cup more)
BY DEF Basis

LEMMA BasisOfRow ==
  ASSUME RowOK, NEW d, SameNames(d, stored.doc)
  PROVE  Basis(stored.ver, d, {})
BY DEF Basis, RowOK, SameNames

LEMMA BasisOfAddition ==
  ASSUME RowOK, NEW n, NEW d, SameNames(d, With(stored.doc, n))
  PROVE  Basis(stored.ver, d, {n})
<1>1. DOMAIN d = DOMAIN stored.doc \cup {n}
  BY EditsKeepNames DEF SameNames
<1>. QED  BY <1>1 DEF Basis, RowOK

(* What becomes of a request, short of its success.                        *)
LEMMA PutStays ==
  ASSUME RowOK, Grows, NEW p, PutOK(p), p.state = "applying" => Applying(p)'
  PROVE  PutOK(p)'
<1>1. p.state = "sent" => Basis(p.ver, p.doc, p.names)'
  BY BasisStays DEF PutOK
<1>2. p.state = "applied" => Basis(p.ver + 1, p.doc, {})'
  BY BasisStays DEF PutOK
<1>. QED  BY <1>1, <1>2 DEF PutOK

LEMMA PutFails ==
  ASSUME NEW p, PutOK(p), NEW state \in {"invalid", "conflict", "failed"}
  PROVE  PutOK([p EXCEPT !.state = state])'
BY DEF PutOK

LEMMA PutMarked ==
  ASSUME NEW p, PutOK(p), NEW q,
         q = [p EXCEPT !.from = "gone"] \/ q = [p EXCEPT !.same = FALSE]
  PROVE  PutOK(q)
<1>1. /\ q.ver = p.ver /\ q.doc = p.doc /\ q.names = p.names /\ q.state = p.state
      /\ q = [from |-> q.from, ver |-> q.ver, doc |-> q.doc, names |-> q.names,
              exact |-> q.exact, intent |-> q.intent, same |-> q.same, state |-> q.state]
  BY DEF PutOK
<1>. QED  BY <1>1 DEF PutOK, Applying

LEMMA CopiesStay ==
  ASSUME RowOK, Grows, CopiesOK, UNCHANGED <<dash, session>>
  PROVE  CopiesOK'
BY BasisStays DEF CopiesOK

LEMMA AuthorsStay ==
  ASSUME RowOK, Grows, AuthorsOK, Authors' \subseteq Authors
  PROVE  AuthorsOK'
BY BasisStays DEF AuthorsOK

(* While the lock is free, or another holds it, no request is applied.     *)
LEMMA NoneApplying ==
  ASSUME PutsOK, \A b \in busy : b.kind \notin {"set", "swap"}
  PROVE  \A p \in puts : p.state # "applying"
BY DEF PutsOK, PutOK, Applying

LEMMA PutsStay ==
  ASSUME RowOK, Grows, PutsOK, puts' = puts, \A b \in busy : b.kind \notin {"set", "swap"}
  PROVE  PutsOK'
BY NoneApplying, PutStays DEF PutsOK

LEMMA PutsAndLockStay ==
  ASSUME RowOK, Grows, PutsOK, puts' \subseteq puts, busy' = busy
  PROVE  PutsOK'
BY PutStays DEF PutsOK, PutOK, Applying

LEMMA BootKeepsWriters ==
  ASSUME WritersInv, LockInv', BootReads \/ BootMigrates \/ BootBuilds \/ Stop
  PROVE  WritersInv'
<1>1. CASE BootReads
  <2>1. busy = {} /\ UNCHANGED <<stored, command, puts, dash, session>>
    BY <1>1 DEF BootReads, Idle, mcp
  <2>2. busy' = {Work("migrate", stored.ver, stampIDs(stored.doc), {})}
    BY <1>1 DEF BootReads
  <2>3. Basis(stored.ver, stampIDs(stored.doc), {})
    BY BasisOfRow, EditsKeepNames DEF WritersInv, LockInv
  <2>4. AuthorsOK'
    BY <2>1, <2>2, <2>3 DEF WritersInv, AuthorsOK, Authors, Work, Basis
  <2>. QED  BY <2>1, <2>4, PutsStay, CopiesStay DEF WritersInv, LockInv, Grows
<1>2. CASE BootMigrates
  <2>1. PICK b \in busy : /\ b.kind = "migrate" /\ busy' = {[b EXCEPT !.kind = "boot"]}
                          /\ UNCHANGED <<command, puts, dash, session>>
                          /\ Write(b.doc) \/ UNCHANGED stored
    BY <1>2 DEF BootMigrates, mcp
  <2>2. Grows
    BY <2>1, WriteGrows DEF WritersInv, LockInv, Grows
  <2>3. b = Work(b.kind, b.ver, b.doc, b.names) /\ \A c \in busy : c = b
    BY <2>1 DEF WritersInv, LockInv, HolderOK
  <2>4. [b EXCEPT !.kind = "boot"].kind = "boot"
    BY <2>3 DEF Work
  <2>5. Authors' \subseteq Authors
    BY <2>1, <2>4 DEF Authors
  <2>6. \A c \in busy : c.kind \notin {"set", "swap"}
    BY <2>1, <2>3
  <2>. QED  BY <2>1, <2>2, <2>5, <2>6, AuthorsStay, PutsStay, CopiesStay DEF WritersInv, LockInv
<1>3. CASE BootBuilds
  <2>1. PICK b \in busy : b.kind = "boot"
    BY <1>3 DEF BootBuilds
  <2>2. busy' = {} /\ UNCHANGED <<stored, command, puts, dash, session>>
    BY <1>3 DEF BootBuilds, mcp
  <2>3. \A c \in busy : c.kind \notin {"set", "swap"}
    BY <2>1 DEF WritersInv, LockInv
  <2>4. Authors' \subseteq Authors
    BY <2>2 DEF Authors
  <2>. QED  BY <2>2, <2>3, <2>4, AuthorsStay, PutsStay, CopiesStay DEF WritersInv, LockInv, Grows
<1>4. CASE Stop
  <2>1. busy' = {} /\ UNCHANGED <<stored, command, dash, session>>
    BY <1>4 DEF Stop, mcp
  <2>2. ASSUME NEW p \in puts' PROVE PutOK(p)'
    <3>1. PICK o \in puts : p = IF o.state \in {"sent", "applying"}
                                THEN [o EXCEPT !.state = "failed"] ELSE o
      BY <1>4 DEF Stop
    <3>2. PutOK(o)
      BY DEF WritersInv, PutsOK
    <3>. QED  BY <2>1, <3>1, <3>2, PutFails, PutStays DEF WritersInv, LockInv, Grows
  <2>3. Authors' \subseteq Authors
    BY <2>1 DEF Authors
  <2>. QED  BY <2>1, <2>2, <2>3, AuthorsStay, CopiesStay DEF WritersInv, LockInv, Grows, PutsOK
<1>. QED  BY <1>1, <1>2, <1>3, <1>4

LEMMA ReloadKeepsWriters ==
  ASSUME WritersInv, LockInv', ReloadReads \/ ReloadSwaps
  PROVE  WritersInv'
<1>1. UNCHANGED <<stored, command, puts, dash, session>>
  BY DEF ReloadReads, ReloadSwaps, mcp
<1>2. \A b \in busy : b.kind \notin {"set", "swap"}
  BY DEF ReloadReads, ReloadSwaps, Idle, WritersInv, LockInv
<1>3. Authors' \subseteq Authors
  BY <1>1 DEF ReloadReads, ReloadSwaps, Authors, Work
<1>. QED  BY <1>1, <1>2, <1>3, AuthorsStay, PutsStay, CopiesStay DEF WritersInv, LockInv, Grows

(* An apply is what its request's author wrote, with ids.                  *)
LEMMA ApplyBuildsKeepsWriters ==
  ASSUME WritersInv, LockInv', NEW p \in puts, ApplyBuilds(p)
  PROVE  WritersInv'
<1>. DEFINE doc == WithNewIDs(p.doc, p.ver)
            q == [p EXCEPT !.state = "applying"]
<1>1. /\ busy = {} /\ UNCHANGED <<stored, command, dash, session>> /\ p.state = "sent"
      /\ busy' = {Work("set", p.ver, doc, p.names)}
      /\ puts' = (puts \ {p}) \cup {q}
  BY DEF ApplyBuilds, Idle, mcp
<1>2. PutOK(p) /\ Basis(p.ver, p.doc, p.names) /\ SameNames(doc, p.doc)
  BY <1>1, EditsKeepNames DEF WritersInv, PutsOK, PutOK
<1>3. Basis(p.ver, doc, p.names)
  BY <1>2, BasisOfSameNames
<1>4. AuthorsOK'
  BY <1>1, <1>3 DEF WritersInv, AuthorsOK, Authors, Work, Basis
<1>5. PutOK(q)'
  <2>1. /\ q.ver = p.ver /\ q.doc = p.doc /\ q.state = "applying"
        /\ q = [from |-> q.from, ver |-> q.ver, doc |-> q.doc, names |-> q.names,
                exact |-> q.exact, intent |-> q.intent, same |-> q.same, state |-> q.state]
    BY <1>2 DEF PutOK
  <2>2. Applying(q)'
    BY <1>1, <1>2, <2>1 DEF Applying, Work
  <2>. QED  BY <1>2, <2>1, <2>2 DEF PutOK
<1>6. \A o \in puts : PutOK(o)'
  BY <1>1, NoneApplying, PutStays DEF WritersInv, LockInv, PutsOK, Grows
<1>. QED  BY <1>1, <1>4, <1>5, <1>6, CopiesStay DEF WritersInv, LockInv, PutsOK, Grows

LEMMA ImportBuildsKeepsWriters ==
  ASSUME WritersInv, LockInv', NEW n \in Names, ImportBuilds(n)
  PROVE  WritersInv'
<1>. DEFINE doc == WithNewIDs(With(stored.doc, n), stored.ver)
<1>1. /\ busy = {} /\ UNCHANGED <<stored, command, puts, dash, session>>
      /\ busy' = {Work("set", stored.ver, doc, {n})}
  BY DEF ImportBuilds, Idle, mcp
<1>2. Basis(stored.ver, doc, {n})
  BY EditsKeepNames, BasisOfAddition DEF WritersInv, LockInv
<1>3. AuthorsOK'
  BY <1>1, <1>2 DEF WritersInv, AuthorsOK, Authors, Work, Basis
<1>. QED  BY <1>1, <1>3, PutsStay, CopiesStay DEF WritersInv, LockInv, Grows

LEMMA CommandReadsKeepsWriters ==
  ASSUME WritersInv, LockInv', NEW n \in Names, CommandReads(n)
  PROVE  WritersInv'
<1>. DEFINE doc == WithNewIDs(With(stored.doc, n), stored.ver)
<1>1. /\ UNCHANGED <<stored, busy, puts, dash, session>>
      /\ command' = {Work("import", stored.ver, doc, {n})}
  BY DEF CommandReads, hub, mcp
<1>2. Basis(stored.ver, doc, {n})
  BY EditsKeepNames, BasisOfAddition DEF WritersInv, LockInv
<1>3. AuthorsOK'
  BY <1>1, <1>2 DEF WritersInv, AuthorsOK, Authors, Work, Basis
<1>. QED  BY <1>1, <1>3, PutsAndLockStay, CopiesStay DEF WritersInv, LockInv, Grows

LEMMA PersistKeepsWriters ==
  ASSUME WritersInv, LockInv', ApplyPersists
  PROVE  WritersInv'
<1>1. PICK b \in busy :
        /\ b.kind = "set" /\ b.ver = stored.ver /\ Write(b.doc)
        /\ busy' = (busy \ {b}) \cup {[b EXCEPT !.kind = "swap", !.ver = stored'.ver]}
        /\ UNCHANGED <<command, puts, dash, session>>
  BY DEF ApplyPersists, SetSucceeds, mcp
<1>2. /\ RowOK /\ Grows /\ stored'.ver = stored.ver + 1
      /\ b = Work(b.kind, b.ver, b.doc, b.names) /\ \A c \in busy : c = b
  BY <1>1, WriteGrows DEF WritersInv, LockInv, HolderOK
<1>3. PICK c : c = [b EXCEPT !.kind = "swap", !.ver = stored'.ver]
  OBVIOUS
<1>4. busy' = {c} /\ c.kind = "swap" /\ c.ver = b.ver + 1 /\ c.doc = b.doc
  <2>1. PICK d : d = [b EXCEPT !.kind = "swap"]
    OBVIOUS
  <2>2. d = Work("swap", b.ver, b.doc, b.names)
    BY <1>2, <2>1 DEF Work
  <2>3. c = [d EXCEPT !.ver = stored'.ver]
    BY <1>3, <2>1
  <2>4. c = Work("swap", stored'.ver, b.doc, b.names)
    BY <2>2, <2>3 DEF Work
  <2>. QED  BY <1>1, <1>2, <1>3, <2>4 DEF Work
<1>5. Authors' \subseteq Authors
  BY <1>1, <1>4 DEF Authors
<1>6. ASSUME NEW p \in puts PROVE PutOK(p)'
  <2>1. PutOK(p)
    BY DEF WritersInv, PutsOK
  <2>2. p.state = "applying" => Applying(p)'
    BY <1>1, <1>2, <1>4, <2>1 DEF PutOK, Applying
  <2>. QED  BY <1>2, <2>1, <2>2, PutStays
<1>. QED  BY <1>1, <1>2, <1>5, <1>6, AuthorsStay, CopiesStay DEF WritersInv, PutsOK

(* The answers: what was applied is what is stored, names for names.       *)
LEMMA AnswersKeepWriters ==
  ASSUME WritersInv, LockInv', ApplyConflicts \/ ApplyUnanswered \/ ApplySwaps
  PROVE  WritersInv'
<1>1. PICK state \in {"conflict", "failed", "applied"} :
        Answer(state) /\ (state = "applied" => ApplySwaps)
  BY DEF ApplyConflicts, ApplyUnanswered, ApplySwaps
<1>2. Grows /\ RowOK
  <2>1. stored' = stored \/ \E doc : Write(doc)
    BY DEF ApplyConflicts, ApplyUnanswered, ApplySwaps
  <2>. QED  BY <2>1, WriteGrows DEF WritersInv, LockInv, Grows
<1>3. busy' \subseteq busy /\ UNCHANGED <<command, dash, session>>
  BY DEF ApplyConflicts, ApplyUnanswered, ApplySwaps, mcp
<1>4. Authors' \subseteq Authors
  BY <1>3 DEF Authors
<1>5. ASSUME NEW q \in puts' PROVE PutOK(q)'
  <2>1. PICK p \in puts : q = IF p.state = "applying" THEN [p EXCEPT !.state = state] ELSE p
    BY <1>1 DEF Answer
  <2>2. PutOK(p)
    BY DEF WritersInv, PutsOK
  <2>3. CASE p.state # "applying"
    BY <1>2, <2>1, <2>2, <2>3, PutStays
  <2>4. CASE p.state = "applying" /\ state # "applied"
    BY <1>1, <2>1, <2>2, <2>4, PutFails
  <2>5. CASE p.state = "applying" /\ state = "applied"
    <3>1. PICK b \in busy : b.kind = "swap" /\ stored' = stored
      BY <1>1, <2>5 DEF ApplySwaps
    <3>2. Holds(b) /\ \A c \in busy : c = b
      BY <3>1 DEF WritersInv, LockInv, HolderOK
    <3>3. b.ver = p.ver + 1 /\ SameNames(b.doc, p.doc)
      BY <2>2, <2>5, <3>1, <3>2 DEF PutOK, Applying
    <3>4. Basis(p.ver + 1, p.doc, {})
      BY <1>2, <3>2, <3>3 DEF Holds, Basis, RowOK, SameNames
    <3>5. /\ q.ver = p.ver /\ q.doc = p.doc /\ q.state = "applied" /\ q.ver \in Nat
          /\ q = [from |-> q.from, ver |-> q.ver, doc |-> q.doc, names |-> q.names,
                  exact |-> q.exact, intent |-> q.intent, same |-> q.same, state |-> q.state]
      BY <2>1, <2>2, <2>5 DEF PutOK
    <3>. QED  BY <3>1, <3>4, <3>5 DEF PutOK, Basis
  <2>. QED  BY <1>1, <2>3, <2>4, <2>5
<1>. QED  BY <1>2, <1>3, <1>4, <1>5, AuthorsStay, CopiesStay DEF WritersInv, PutsOK

LEMMA CommandWritesKeepsWriters ==
  ASSUME WritersInv, LockInv', CommandWrites
  PROVE  WritersInv'
<1>1. /\ stored' = stored \/ \E doc : Write(doc)
      /\ command' = {} /\ UNCHANGED <<busy, puts, dash, session>>
  BY DEF CommandWrites, hub, mcp
<1>2. RowOK /\ Grows /\ Authors' \subseteq Authors
  BY <1>1, WriteGrows DEF WritersInv, LockInv, Authors, Grows
<1>. QED  BY <1>1, <1>2, AuthorsStay, PutsAndLockStay, CopiesStay DEF WritersInv

(* A request that is sent with a document of a basis.                      *)
LEMMA SentKeepsWriters ==
  ASSUME WritersInv, LockInv', UNCHANGED <<stored, busy, command, dash, session>>,
         NEW from, NEW ver, NEW doc, NEW names, NEW exact, NEW intent,
         Basis(ver, doc, names), Send(from, ver, doc, names, exact, intent)
  PROVE  WritersInv'
<1>1. PICK q : /\ puts' = puts \cup {q}
               /\ q = [from |-> from, ver |-> ver, doc |-> doc, names |-> names, exact |-> exact,
                       intent |-> intent, same |-> TRUE, state |-> "sent"]
  BY DEF Send
<1>2. PutOK(q)'
  BY <1>1 DEF PutOK, Basis
<1>3. \A p \in puts : PutOK(p)'
  BY PutStays DEF WritersInv, LockInv, PutsOK, PutOK, Applying, Grows
<1>4. Authors' \subseteq Authors
  BY DEF Authors
<1>. QED  BY <1>1, <1>2, <1>3, <1>4, AuthorsStay, CopiesStay DEF WritersInv, LockInv, PutsOK, Grows

LEMMA DashboardKeepsWriters ==
  ASSUME WritersInv, LockInv',
         \/ loadCfgTree
         \/ \E n \in Names : saveDoc(n)
         \/ \E p \in puts : saveDocAnswered(p) \/ GiveUp(p) \/ Forget(p)
  PROVE  WritersInv'
<1>1. UNCHANGED <<stored, busy, command, session>> /\ RowOK
  BY DEF loadCfgTree, saveDoc, saveDocAnswered, GiveUp, Forget, hub, mcp, WritersInv, LockInv
<1>2. AuthorsOK'
  BY <1>1, AuthorsStay DEF Authors, WritersInv, Grows
<1>3. CASE loadCfgTree
  <2>1. dash' = [have |-> TRUE, ver |-> stored.ver, doc |-> stored.doc] /\ puts' = puts
    BY <1>3 DEF loadCfgTree
  <2>2. Basis(stored.ver, stored.doc, {})
    BY <1>1, BasisOfRow DEF SameNames
  <2>3. CopiesOK'
    BY <1>1, <2>1, <2>2 DEF WritersInv, CopiesOK, Basis
  <2>. QED  BY <1>1, <1>2, <2>1, <2>3, PutsAndLockStay DEF WritersInv, Grows
<1>4. ASSUME NEW n \in Names, saveDoc(n) PROVE WritersInv'
  <2>1. PICK doc : /\ doc = IF n \in DOMAIN dash.doc THEN Without(dash.doc, n) ELSE With(dash.doc, n)
                   /\ Send("dash", dash.ver, doc, {n}, FALSE, NoEdit)
    BY <1>4 DEF saveDoc
  <2>2. \A m \in Names \ {n} : m \in DOMAIN doc <=> m \in DOMAIN dash.doc
    <3>1. CASE n \in DOMAIN dash.doc
      <4>1. DOMAIN doc = DOMAIN dash.doc \ {n}
        BY <2>1, <3>1, EditsKeepNames
      <4>. QED  BY <4>1
    <3>2. CASE n \notin DOMAIN dash.doc
      <4>1. DOMAIN doc = DOMAIN dash.doc \cup {n}
        BY <2>1, <3>2, EditsKeepNames
      <4>. QED  BY <4>1
    <3>. QED  BY <3>1, <3>2
  <2>3. Basis(dash.ver, doc, {n})
    <3>1. Basis(dash.ver, dash.doc, {})
      BY <1>4 DEF saveDoc, WritersInv, CopiesOK
    <3>2. Basis(dash.ver, doc, {} \cup {n})
      BY <2>2, <3>1, BasisOfEdit
    <3>3. {} \cup {n} = {n}
      OBVIOUS
    <3>. QED  BY <3>2, <3>3
  <2>4. dash' = dash
    BY <1>4 DEF saveDoc
  <2>. QED  BY <1>1, <2>1, <2>3, <2>4, SentKeepsWriters
<1>5. ASSUME NEW p \in puts, saveDocAnswered(p) PROVE WritersInv'
  <2>1. /\ puts' = puts \ {p}
        /\ \/ dash' = NoCopy
           \/ p.state = "applied" /\ dash' = [have |-> TRUE, ver |-> p.ver + 1, doc |-> p.doc]
           \/ dash' = dash
    <3>1. /\ puts' = puts \ {p}
          /\ dash' = CASE p.state = "conflict" \/ (p.state = "applied" /\ habits.rereads) -> NoCopy
                       [] p.state = "applied" /\ ~habits.rereads ->
                            [have |-> TRUE, ver |-> p.ver + 1, doc |-> p.doc]
                       [] OTHER -> dash
      BY <1>5 DEF saveDocAnswered
    <3>2. CASE p.state = "conflict" \/ (p.state = "applied" /\ habits.rereads)
      BY <3>1, <3>2
    <3>3. CASE p.state = "applied" /\ ~habits.rereads
      BY <3>1, <3>3
    <3>4. CASE p.state # "conflict" /\ p.state # "applied"
      BY <3>1, <3>4
    <3>. QED  BY <3>1, <3>2, <3>3, <3>4
  <2>2. p.state = "applied" => Basis(p.ver + 1, p.doc, {})
    BY DEF WritersInv, PutsOK, PutOK
  <2>3. CopiesOK'
    BY <1>1, <2>1, <2>2 DEF WritersInv, CopiesOK, Basis, NoCopy
  <2>. QED  BY <1>1, <1>2, <2>1, <2>3, PutsAndLockStay DEF WritersInv, Grows
<1>6. ASSUME NEW p \in puts, GiveUp(p) \/ Forget(p) PROVE WritersInv'
  <2>1. dash' = dash /\ (puts' = puts \ {p} \/ puts' = (puts \ {p}) \cup {[p EXCEPT !.from = "gone"]})
    BY <1>6 DEF GiveUp, Forget
  <2>2. \A o \in puts : PutOK(o) /\ PutOK(o)'
    BY <1>1, PutStays DEF WritersInv, PutsOK, PutOK, Applying, Grows
  <2>3. PutOK([p EXCEPT !.from = "gone"])'
    <3>1. PICK q : q = [p EXCEPT !.from = "gone"]
      OBVIOUS
    <3>2. PutOK(q)
      BY <2>2, <3>1, PutMarked
    <3>. QED  BY <1>1, <3>1, <3>2, PutStays DEF PutOK, Applying, Grows
  <2>. QED  BY <1>1, <1>2, <2>1, <2>2, <2>3, CopiesStay DEF WritersInv, PutsOK, Grows
<1>. QED  BY <1>3, <1>4, <1>5, <1>6

(* The staging session: its document is what it read, and its edits.       *)
LEMMA TouchKeepsPuts ==
  ASSUME PutsOK, RowOK, stored' = stored, busy' = busy, Touch
  PROVE  PutsOK'
<1>. SUFFICES ASSUME NEW q \in puts' PROVE PutOK(q)'
  BY DEF PutsOK
<1>1. PICK p \in puts : q = [p EXCEPT !.same = FALSE]
  BY DEF Touch
<1>2. PutOK(q)
  BY <1>1, PutMarked DEF PutsOK
<1>. QED  BY <1>2, PutStays DEF PutOK, Applying, Grows

LEMMA StageKeepsWriters ==
  ASSUME WritersInv, LockInv', NEW d, Stage(d)
  PROVE  WritersInv'
<1>. DEFINE changed == (DOMAIN d \ DOMAIN session.work) \cup (DOMAIN session.work \ DOMAIN d)
            work == WithNewIDs(d, session.ver)
<1>1. /\ UNCHANGED <<stored, busy, command, dash>> /\ Touch /\ session.phase = "active"
      /\ session' = [session EXCEPT !.work = work, !.names = session.names \cup changed]
  BY DEF Stage, hub
<1>2. DOMAIN work = DOMAIN d
  BY EditsKeepNames DEF SameNames
<1>3. /\ session = [phase |-> session.phase, ver |-> session.ver, work |-> session.work,
                    file |-> session.file, exact |-> session.exact, names |-> session.names]
      /\ Basis(session.ver, session.work, session.names)
  BY <1>1 DEF WritersInv, CopiesOK
<1>4. \A n \in Names \ changed : n \in DOMAIN work <=> n \in DOMAIN session.work
  BY <1>2
<1>. HIDE DEF changed, work
<1>5. Basis(session.ver, work, session.names \cup changed)
  BY <1>3, <1>4, BasisOfEdit
<1>6. session' = [phase |-> session.phase, ver |-> session.ver, work |-> work,
                  file |-> session.file, exact |-> session.exact,
                  names |-> session.names \cup changed]
  BY <1>1, <1>3
<1>7. CopiesOK'
  BY <1>1, <1>5, <1>6 DEF WritersInv, CopiesOK, Basis
<1>8. AuthorsOK'
  BY <1>1, AuthorsStay DEF Authors, WritersInv, LockInv, Grows
<1>. QED  BY <1>1, <1>7, <1>8, TouchKeepsPuts DEF WritersInv, LockInv

LEMMA SessionKeepsWriters ==
  ASSUME WritersInv, LockInv',
         \/ SessionEnds \/ ensureReads \/ ensureComposes \/ Discard \/ applyStaged
         \/ \E p \in puts : applyStagedAnswered(p)
  PROVE  WritersInv'
<1>1. UNCHANGED <<stored, busy, command, dash>> /\ RowOK
  BY DEF SessionEnds, ensureReads, ensureComposes, Discard, applyStaged, applyStagedAnswered,
         hub, WritersInv, LockInv
<1>2. AuthorsOK'
  BY <1>1, AuthorsStay DEF Authors, WritersInv, Grows
<1>3. CASE SessionEnds
  BY <1>1, <1>2, <1>3, PutsAndLockStay, CopiesStay DEF SessionEnds, WritersInv, Grows
<1>4. CASE ensureReads
  <2>1. PICK doc : doc = Shown(stored.doc)
    OBVIOUS
  <2>2. /\ puts' = puts
        /\ session' = [phase |-> "seeding", ver |-> stored.ver, work |-> doc,
                       file |-> {}, exact |-> FALSE, names |-> {}]
    BY <1>4, <2>1 DEF ensureReads, NoSession
  <2>3. Basis(stored.ver, doc, {})
    BY <1>1, <2>1, BasisOfRow, EditsKeepNames
  <2>4. CopiesOK'
    BY <1>1, <2>2, <2>3 DEF WritersInv, CopiesOK, Basis
  <2>. QED  BY <1>1, <1>2, <2>2, <2>4, PutsAndLockStay DEF WritersInv, Grows
<1>5. CASE ensureComposes
  <2>1. PICK exact, file :
          session' = [session EXCEPT !.phase = "active", !.exact = exact, !.file = file]
    BY <1>5 DEF ensureComposes
  <2>2. /\ session.phase = "seeding" /\ puts' = puts
        /\ session = [phase |-> session.phase, ver |-> session.ver, work |-> session.work,
                      file |-> session.file, exact |-> session.exact, names |-> session.names]
    BY <1>5 DEF ensureComposes, WritersInv, CopiesOK
  <2>3. session' = [phase |-> "active", ver |-> session.ver, work |-> session.work,
                    file |-> file, exact |-> exact, names |-> session.names]
    BY <2>1, <2>2
  <2>4. CopiesOK'
    BY <1>1, <2>2, <2>3 DEF WritersInv, CopiesOK, Basis
  <2>. QED  BY <1>1, <1>2, <2>2, <2>4, PutsAndLockStay DEF WritersInv, Grows
<1>6. CASE Discard
  <2>1. CopiesOK'
    BY <1>1, <1>6 DEF Discard, NoSession, WritersInv, CopiesOK, Basis
  <2>. QED  BY <1>1, <1>2, <1>6, <2>1, TouchKeepsPuts DEF Discard, WritersInv
<1>7. CASE applyStaged
  <2>1. /\ Basis(session.ver, session.work, session.names)
        /\ Send("mcp", session.ver, session.work, session.names, session.exact, owed)
        /\ session' = session
    BY <1>7 DEF applyStaged, WritersInv, CopiesOK
  <2>. QED  BY <1>1, <2>1, SentKeepsWriters
<1>8. ASSUME NEW p \in puts, applyStagedAnswered(p) PROVE WritersInv'
  <2>1. puts' \subseteq puts /\ (session' = session \/ session' = NoSession)
    BY <1>8 DEF applyStagedAnswered, resetIfUnchanged
  <2>2. CopiesOK'
    BY <1>1, <2>1 DEF NoSession, WritersInv, CopiesOK, Basis
  <2>. QED  BY <1>1, <1>2, <2>1, <2>2, PutsAndLockStay DEF WritersInv, Grows
<1>. QED  BY <1>3, <1>4, <1>5, <1>6, <1>7, <1>8

LEMMA NextWritersInv == WritersInv /\ [Next]_vars => WritersInv'
<1>. SUFFICES ASSUME WritersInv, [Next]_vars PROVE WritersInv'
  OBVIOUS
<1>1. LockInv'
  BY NextLockInv DEF WritersInv
<1>2. CASE BootReads \/ BootMigrates \/ BootBuilds \/ Stop
  BY <1>1, <1>2, BootKeepsWriters
<1>3. CASE ReloadReads \/ ReloadSwaps
  BY <1>1, <1>3, ReloadKeepsWriters
<1>4. CASE ApplyPersists
  BY <1>1, <1>4, PersistKeepsWriters
<1>5. CASE ApplyConflicts \/ ApplyUnanswered \/ ApplySwaps
  BY <1>1, <1>5, AnswersKeepWriters
<1>6. CASE CommandWrites
  BY <1>1, <1>6, CommandWritesKeepsWriters
<1>7. CASE \E p \in puts : ApplyBuilds(p)
  BY <1>1, <1>7, ApplyBuildsKeepsWriters
<1>8. CASE \E n \in Names : ImportBuilds(n) \/ CommandReads(n)
  BY <1>1, <1>8, ImportBuildsKeepsWriters, CommandReadsKeepsWriters
<1>9. CASE \E p \in puts : ApplyRejects(p)
  <2>1. PICK p \in puts : /\ puts' = (puts \ {p}) \cup {[p EXCEPT !.state = "invalid"]}
                          /\ UNCHANGED <<stored, busy, command, dash, session>>
    BY <1>9 DEF ApplyRejects, hub, mcp
  <2>2. PutOK([p EXCEPT !.state = "invalid"])'
    BY PutFails DEF WritersInv, PutsOK
  <2>3. \A o \in puts : PutOK(o)'
    BY <2>1, PutStays DEF WritersInv, LockInv, PutsOK, PutOK, Applying, Grows
  <2>4. AuthorsOK'
    BY <2>1, AuthorsStay DEF Authors, WritersInv, LockInv, Grows
  <2>. QED  BY <1>1, <2>1, <2>2, <2>3, <2>4, CopiesStay DEF WritersInv, LockInv, PutsOK, Grows
<1>10. CASE ClientStep /\ ~CommandWrites /\ ~\E n \in Names : CommandReads(n)
  BY <1>1, <1>10, DashboardKeepsWriters DEF ClientStep
<1>11. CASE McpStep
  BY <1>1, <1>11, StageKeepsWriters, SessionKeepsWriters
  DEF McpStep, StageAdd, StageRemove, StageReplace
<1>12. CASE UNCHANGED vars
  <2>1. UNCHANGED <<stored, busy, command, dash, session, puts>>
    BY <1>12 DEF vars, hub, mcp
  <2>2. AuthorsOK'
    BY <2>1, AuthorsStay DEF Authors, WritersInv, LockInv, Grows
  <2>. QED  BY <1>1, <2>1, <2>2, PutsAndLockStay, CopiesStay DEF WritersInv, LockInv, Grows
<1>. QED
  BY <1>2, <1>3, <1>4, <1>5, <1>6, <1>7, <1>8, <1>9, <1>10, <1>11, <1>12
  DEF Next, HubStep, ClientStep

(* Every write is the document of one author and changes the presence of   *)
(* no target he did not edit: an author who read an older version loses.   *)
THEOREM EditsAreNotOverwritten == Spec => NoLostUpdate
<1>. DEFINE Written ==
       \E a \in Authors :
         /\ stored'.doc = a.doc
         /\ \A n \in Names \ a.names : (n \in DOMAIN stored.doc) = (n \in DOMAIN a.doc)
<1>1. ASSUME WritersInv, NEW a \in Authors, a.ver = stored.ver, Write(a.doc)
      PROVE  Written
  <2>1. stored'.doc = a.doc
    BY <1>1 DEF Write
  <2>2. \A n \in Names \ a.names : n \in DOMAIN stored.doc <=> n \in DOMAIN a.doc
    BY <1>1 DEF WritersInv, AuthorsOK, Basis
  <2>. QED  BY <2>1, <2>2
<1>2. ASSUME WritersInv, [Next]_vars PROVE Written \/ stored' = stored
  <2>1. CASE BootMigrates
    BY <1>1, <1>2, <2>1 DEF BootMigrates, SetSucceeds, Authors
  <2>2. CASE ApplyPersists
    BY <1>1, <1>2, <2>2 DEF ApplyPersists, SetSucceeds, Authors
  <2>3. CASE ApplyUnanswered
    BY <1>1, <1>2, <2>3 DEF ApplyUnanswered, SetSucceeds, Authors
  <2>4. CASE CommandWrites
    BY <1>1, <1>2, <2>4 DEF CommandWrites, SetSucceeds, Authors
  <2>5. CASE HubStep /\ ~BootMigrates /\ ~ApplyPersists /\ ~ApplyUnanswered
    BY <2>5 DEF HubStep, BootReads, BootBuilds, Stop, ReloadReads, ReloadSwaps, ApplyBuilds,
                ApplyRejects, ImportBuilds, ApplyConflicts, ApplySwaps
  <2>6. CASE ClientStep /\ ~CommandWrites
    BY <2>6 DEF ClientStep, CommandReads, loadCfgTree, saveDoc, saveDocAnswered, GiveUp, Forget
  <2>7. CASE McpStep
    BY <2>7 DEF McpStep, SessionEnds, ensureReads, ensureComposes, StageAdd, StageRemove,
                StageReplace, Stage, Discard, applyStaged, applyStagedAnswered
  <2>8. CASE UNCHANGED vars
    BY <2>8 DEF vars
  <2>. QED  BY <1>2, <2>1, <2>2, <2>3, <2>4, <2>5, <2>6, <2>7, <2>8 DEF Next
<1>3. WritersInv /\ [Next]_vars => [Written]_stored
  BY <1>2
<1>. QED  BY <1>3, InitWritersInv, NextWritersInv, PTL DEF Spec, NoLostUpdate

-----------------------------------------------------------------------------
(* The staging session's edits: those owed are staged, and an apply of an  *)
(* unchanged session is of all of them.                                    *)
PutForm(p) ==
  p = [from |-> p.from, ver |-> p.ver, doc |-> p.doc, names |-> p.names, exact |-> p.exact,
       intent |-> p.intent, same |-> p.same, state |-> p.state]

AtMostOneMcp == \A p, q \in puts : p.from = "mcp" /\ q.from = "mcp" => p = q

UnchangedIntends == \A p \in puts : p.from = "mcp" /\ p.same = TRUE => p.intent = owed

IntentsOK == (\A p \in puts : PutForm(p)) /\ AtMostOneMcp /\ UnchangedIntends

SessionForm ==
  session = [phase |-> session.phase, ver |-> session.ver, work |-> session.work,
             file |-> session.file, exact |-> session.exact, names |-> session.names]

StagedInv == StagedEditsKept /\ SessionForm /\ IntentsOK

LEMMA InitStagedInv == Init => StagedInv
BY DEF Init, NoEdit, NoSession, StagedInv, StagedEditsKept, SessionForm, IntentsOK,
       AtMostOneMcp, UnchangedIntends

(* What the requests become one by one, which makes none the session's.    *)
LEMMA IntentsStay ==
  ASSUME IntentsOK, owed' = owed, NEW F, puts' \subseteq {F[p] : p \in puts},
         \A p \in puts : /\ PutForm(F[p])
                         /\ F[p].from = "mcp" => p.from = "mcp"
                         /\ F[p].intent = p.intent
                         /\ F[p].same = TRUE => p.same = TRUE
  PROVE  IntentsOK'
<1>1. ASSUME NEW q \in puts' PROVE PutForm(q)
  <2>1. PICK p \in puts : q = F[p]
    OBVIOUS
  <2>. QED  BY <2>1
<1>2. AtMostOneMcp'
  BY DEF IntentsOK, AtMostOneMcp
<1>3. UnchangedIntends'
  BY DEF IntentsOK, UnchangedIntends
<1>. QED  BY <1>1, <1>2, <1>3 DEF IntentsOK, PutForm

LEMMA FewerIntents ==
  ASSUME IntentsOK, owed' = owed, puts' \subseteq puts
  PROVE  IntentsOK'
BY DEF IntentsOK, AtMostOneMcp, UnchangedIntends, PutForm

LEMMA MarkedForm ==
  ASSUME NEW p, PutForm(p), NEW state
  PROVE  LET q == [p EXCEPT !.state = state]
         IN  PutForm(q) /\ q.from = p.from /\ q.intent = p.intent /\ q.same = p.same
BY DEF PutForm

(* The hub answers a request, or gives up on all.                          *)
LEMMA OneMarked ==
  ASSUME IntentsOK, owed' = owed, NEW p \in puts, NEW state,
         puts' = (puts \ {p}) \cup {[p EXCEPT !.state = state]}
  PROVE  IntentsOK'
<1>1. PICK q : q = [p EXCEPT !.state = state]
  OBVIOUS
<1>2. PICK F : F = [o \in puts |-> IF o = p THEN q ELSE o]
  OBVIOUS
<1>3. PutForm(q) /\ q.from = p.from /\ q.intent = p.intent /\ q.same = p.same
  BY <1>1, MarkedForm DEF IntentsOK
<1>4. puts' \subseteq {F[o] : o \in puts}
  BY <1>1, <1>2
<1>5. \A o \in puts : /\ PutForm(F[o])
                      /\ F[o].from = "mcp" => o.from = "mcp"
                      /\ F[o].intent = o.intent
                      /\ F[o].same = TRUE => o.same = TRUE
  BY <1>2, <1>3 DEF IntentsOK
<1>. QED  BY <1>4, <1>5, IntentsStay

LEMMA SomeMarked ==
  ASSUME IntentsOK, owed' = owed, NEW S, NEW state,
         puts' = {IF p.state \in S THEN [p EXCEPT !.state = state] ELSE p : p \in puts}
  PROVE  IntentsOK'
<1>1. PICK F : F = [p \in puts |-> IF p.state \in S THEN [p EXCEPT !.state = state] ELSE p]
  OBVIOUS
<1>2. puts' \subseteq {F[o] : o \in puts}
  BY <1>1
<1>3. ASSUME NEW o \in puts
      PROVE  /\ PutForm(F[o])
             /\ F[o].from = "mcp" => o.from = "mcp"
             /\ F[o].intent = o.intent
             /\ F[o].same = TRUE => o.same = TRUE
  <2>1. CASE o.state \in S
    BY <1>1, <2>1, MarkedForm DEF IntentsOK
  <2>2. CASE o.state \notin S
    BY <1>1, <2>2 DEF IntentsOK
  <2>. QED  BY <2>1, <2>2
<1>. QED  BY <1>2, <1>3, IntentsStay

(* What does not touch the session leaves it, but for its requests.        *)
LEMMA OthersKeepStaged ==
  ASSUME StagedInv, UNCHANGED <<session, owed>>, IntentsOK'
  PROVE  StagedInv'
BY DEF StagedInv, StagedEditsKept, SessionForm

LEMMA SentForm ==
  ASSUME NEW from, NEW ver, NEW doc, NEW names, NEW exact, NEW intent,
         Send(from, ver, doc, names, exact, intent)
  PROVE  \E q : /\ puts' = puts \cup {q} /\ PutForm(q)
                /\ q.from = from /\ q.intent = intent
<1>1. PICK q : q = [from |-> from, ver |-> ver, doc |-> doc, names |-> names, exact |-> exact,
                    intent |-> intent, same |-> TRUE, state |-> "sent"]
  OBVIOUS
<1>2. PutForm(q) /\ q.from = from /\ q.intent = intent
  BY <1>1 DEF PutForm
<1>. QED  BY <1>1, <1>2 DEF Send

LEMMA HubKeepsIntents ==
  ASSUME IntentsOK, owed' = owed, HubStep
  PROVE  IntentsOK'
<1>1. CASE puts' = puts
  BY <1>1, FewerIntents
<1>2. CASE Stop
  BY <1>2, SomeMarked DEF Stop
<1>3. ASSUME NEW p \in puts, ApplyBuilds(p) \/ ApplyRejects(p) PROVE IntentsOK'
  BY <1>3, OneMarked DEF ApplyBuilds, ApplyRejects
<1>4. CASE ApplyConflicts \/ ApplyUnanswered \/ ApplySwaps
  <2>1. PICK state : Answer(state)
    BY <1>4 DEF ApplyConflicts, ApplyUnanswered, ApplySwaps
  <2>2. puts' = {IF p.state \in {"applying"} THEN [p EXCEPT !.state = state] ELSE p : p \in puts}
    BY <2>1 DEF Answer
  <2>. QED  BY <2>2, SomeMarked
<1>5. CASE BootReads \/ BootMigrates \/ BootBuilds \/ ReloadReads \/ ReloadSwaps \/ ApplyPersists
           \/ \E n \in Names : ImportBuilds(n)
  BY <1>1, <1>5 DEF BootReads, BootMigrates, BootBuilds, ReloadReads, ReloadSwaps,
                    ApplyPersists, ImportBuilds
<1>. QED  BY <1>2, <1>3, <1>4, <1>5 DEF HubStep

LEMMA ClientsKeepIntents ==
  ASSUME IntentsOK, owed' = owed, ClientStep
  PROVE  IntentsOK'
<1>1. CASE puts' \subseteq puts
  BY <1>1, FewerIntents
<1>2. ASSUME NEW n \in Names, saveDoc(n) PROVE IntentsOK'
  <2>1. PICK q : puts' = puts \cup {q} /\ PutForm(q) /\ q.from = "dash"
    BY <1>2, SentForm DEF saveDoc
  <2>. QED  BY <2>1 DEF IntentsOK, AtMostOneMcp, UnchangedIntends, PutForm
<1>3. ASSUME NEW p \in puts, GiveUp(p) PROVE IntentsOK'
  <2>1. PICK q : q = [p EXCEPT !.from = "gone"]
    OBVIOUS
  <2>2. puts' = (puts \ {p}) \cup {q}
    BY <1>3, <2>1 DEF GiveUp
  <2>3. PutForm(q) /\ q.from = "gone"
    BY <2>1 DEF IntentsOK, PutForm
  <2>. QED  BY <2>2, <2>3 DEF IntentsOK, AtMostOneMcp, UnchangedIntends, PutForm
<1>4. CASE \/ CommandWrites \/ loadCfgTree
           \/ \E n \in Names : CommandReads(n)
           \/ \E p \in puts : saveDocAnswered(p) \/ Forget(p)
  BY <1>1, <1>4 DEF CommandWrites, loadCfgTree, CommandReads, saveDocAnswered, Forget
<1>. QED  BY <1>2, <1>3, <1>4 DEF ClientStep

-----------------------------------------------------------------------------
(* The session's own steps.                                                *)
LEMMA TouchIntends ==
  ASSUME IntentsOK, Touch
  PROVE  IntentsOK'
<1>1. PICK F : F = [p \in puts |-> [p EXCEPT !.same = FALSE]]
  OBVIOUS
<1>2. puts' = {F[p] : p \in puts}
  BY <1>1 DEF Touch
<1>3. ASSUME NEW p \in puts
      PROVE  PutForm(F[p]) /\ F[p].from = p.from /\ F[p].same = FALSE
  <2>1. PICK q : q = [p EXCEPT !.same = FALSE]
    OBVIOUS
  <2>2. PutForm(p)
    BY DEF IntentsOK
  <2>3. q = [from |-> p.from, ver |-> p.ver, doc |-> p.doc, names |-> p.names,
             exact |-> p.exact, intent |-> p.intent, same |-> FALSE, state |-> p.state]
    BY <2>1, <2>2 DEF PutForm
  <2>4. PutForm(q) /\ q.from = p.from /\ q.same = FALSE
    BY <2>3 DEF PutForm
  <2>. QED  BY <1>1, <2>1, <2>4
<1>4. ASSUME NEW q \in puts' PROVE PutForm(q)' /\ q.same = FALSE
  <2>1. PICK p \in puts : q = F[p]
    BY <1>2
  <2>. QED  BY <1>3, <2>1 DEF PutForm
<1>5. ASSUME NEW q \in puts', NEW r \in puts', q.from = "mcp", r.from = "mcp" PROVE q = r
  <2>1. PICK o \in puts, p \in puts : q = F[o] /\ r = F[p]
    BY <1>2
  <2>2. o.from = "mcp" /\ p.from = "mcp"
    BY <1>3, <1>5, <2>1
  <2>. QED  BY <2>1, <2>2 DEF IntentsOK, AtMostOneMcp
<1>6. UnchangedIntends'
  BY <1>4 DEF UnchangedIntends
<1>. QED  BY <1>4, <1>5, <1>6 DEF IntentsOK, AtMostOneMcp

LEMMA StageKeepsStaged ==
  ASSUME StagedInv, NEW d, Stage(d)
  PROVE  StagedInv'
<1>. DEFINE changed == (DOMAIN d \ DOMAIN session.work) \cup (DOMAIN session.work \ DOMAIN d)
<1>1. PICK work, names :
        /\ work = WithNewIDs(d, session.ver)
        /\ session.phase = "active" /\ Touch
        /\ session' = [session EXCEPT !.work = work, !.names = names]
        /\ owed' = [n \in changed \cup DOMAIN owed |-> IF n \in changed THEN n \in DOMAIN d ELSE owed[n]]
  BY DEF Stage
<1>2. DOMAIN work = DOMAIN d
  BY <1>1 DEF WithNewIDs
<1>3. session' = [phase |-> "active", ver |-> session.ver, work |-> work,
                  file |-> session.file, exact |-> session.exact, names |-> names]
  BY <1>1 DEF StagedInv, SessionForm
<1>4. SessionForm' /\ session'.phase = "active" /\ session'.work = work
  BY <1>3 DEF SessionForm
<1>5. ASSUME NEW n \in DOMAIN owed' PROVE (n \in DOMAIN work) = owed'[n]
  <2>1. CASE n \in changed
    BY <1>1, <1>2, <2>1
  <2>2. CASE n \notin changed
    <3>1. n \in DOMAIN owed /\ owed'[n] = owed[n]
      BY <1>1, <1>5, <2>2
    <3>2. (n \in DOMAIN session.work) = owed[n]
      BY <3>1 DEF StagedInv, StagedEditsKept
    <3>3. n \in DOMAIN d <=> n \in DOMAIN session.work
      BY <2>2
    <3>. QED  BY <1>2, <3>1, <3>2, <3>3
  <2>. QED  BY <2>1, <2>2
<1>6. IntentsOK'
  BY <1>1, TouchIntends DEF StagedInv
<1>. QED  BY <1>4, <1>5, <1>6 DEF StagedInv, StagedEditsKept

LEMMA SessionKeepsStaged ==
  ASSUME StagedInv,
         \/ SessionEnds \/ ensureReads \/ ensureComposes \/ Discard \/ applyStaged
         \/ \E p \in puts : applyStagedAnswered(p)
  PROVE  StagedInv'
<1>1. CASE SessionEnds
  BY <1>1, OthersKeepStaged, FewerIntents DEF SessionEnds, StagedInv
<1>2. CASE ensureReads \/ ensureComposes
  <2>1. session.phase # "active" /\ UNCHANGED <<owed, puts>>
    BY <1>2 DEF ensureReads, ensureComposes
  <2>2. SessionForm'
    BY <1>2 DEF ensureReads, ensureComposes, NoSession, StagedInv, SessionForm
  <2>. QED  BY <2>1, <2>2, FewerIntents DEF StagedInv, StagedEditsKept
<1>3. CASE Discard
  <2>1. session' = NoSession /\ Touch /\ DOMAIN owed' = {}
    BY <1>3 DEF Discard, NoEdit
  <2>. QED  BY <2>1, TouchIntends DEF StagedInv, StagedEditsKept, SessionForm, NoSession
<1>4. CASE applyStaged
  <2>1. PICK q : puts' = puts \cup {q} /\ PutForm(q) /\ q.from = "mcp" /\ q.intent = owed
    BY <1>4, SentForm DEF applyStaged
  <2>2. UNCHANGED <<session, owed>> /\ \A p \in puts : p.from # "mcp"
    BY <1>4 DEF applyStaged, Send
  <2>3. IntentsOK'
    BY <2>1, <2>2 DEF StagedInv, IntentsOK, AtMostOneMcp, UnchangedIntends, PutForm
  <2>. QED  BY <2>2, <2>3, OthersKeepStaged
<1>5. ASSUME NEW p \in puts, applyStagedAnswered(p) PROVE StagedInv'
  <2>1. p.from = "mcp" /\ puts' = puts \ {p}
    BY <1>5 DEF applyStagedAnswered
  <2>2. CASE p.state # "applied"
    BY <1>5, <2>1, <2>2, OthersKeepStaged, FewerIntents DEF applyStagedAnswered, StagedInv
  <2>3. CASE p.state = "applied"
    <3>1. PICK still : still = {m \in DOMAIN owed : m \in DOMAIN p.intent => p.intent[m] # owed[m]}
      OBVIOUS
    <3>2. owed' = [n \in still |-> owed[n]] /\ session' = resetIfUnchanged(p)
      BY <1>5, <2>3, <3>1 DEF applyStagedAnswered
    <3>3. IntentsOK'
      <4>1. \A q \in puts' : q.from # "mcp"
        BY <2>1 DEF StagedInv, IntentsOK, AtMostOneMcp
      <4>. QED  BY <2>1, <4>1 DEF StagedInv, IntentsOK, AtMostOneMcp, UnchangedIntends, PutForm
    <3>4. CASE p.same = TRUE
      <4>1. p.intent = owed
        BY <2>1, <3>4 DEF StagedInv, IntentsOK, UnchangedIntends
      <4>2. still = {}
        BY <3>1, <4>1
      <4>3. session' = NoSession /\ DOMAIN owed' = {}
        BY <3>2, <3>4, <4>2 DEF resetIfUnchanged
      <4>. QED  BY <3>3, <4>3 DEF StagedInv, StagedEditsKept, SessionForm, NoSession
    <3>5. CASE session' = session
      <4>1. \A n \in DOMAIN owed' : n \in DOMAIN owed /\ owed'[n] = owed[n]
        BY <3>1, <3>2
      <4>. QED  BY <3>3, <3>5, <4>1 DEF StagedInv, StagedEditsKept, SessionForm
    <3>6. p.same = TRUE \/ session' = session
      BY <3>2 DEF resetIfUnchanged
    <3>. QED  BY <3>4, <3>5, <3>6
  <2>. QED  BY <2>2, <2>3
<1>. QED  BY <1>1, <1>2, <1>3, <1>4, <1>5

LEMMA NextStagedInv == StagedInv /\ [Next]_vars => StagedInv'
<1>. SUFFICES ASSUME StagedInv, [Next]_vars PROVE StagedInv'
  OBVIOUS
<1>1. CASE HubStep
  <2>1. UNCHANGED <<session, owed>>
    BY <1>1 DEF HubStep, BootReads, BootMigrates, BootBuilds, Stop, ReloadReads, ReloadSwaps,
                ApplyBuilds, ApplyRejects, ImportBuilds, ApplyPersists, ApplyConflicts,
                ApplyUnanswered, ApplySwaps, mcp
  <2>. QED  BY <1>1, <2>1, HubKeepsIntents, OthersKeepStaged DEF StagedInv
<1>2. CASE ClientStep
  <2>1. UNCHANGED <<session, owed>>
    BY <1>2 DEF ClientStep, CommandReads, CommandWrites, loadCfgTree, saveDoc, saveDocAnswered,
                GiveUp, Forget, mcp
  <2>. QED  BY <1>2, <2>1, ClientsKeepIntents, OthersKeepStaged DEF StagedInv
<1>3. CASE McpStep
  BY <1>3, StageKeepsStaged, SessionKeepsStaged DEF McpStep, StageAdd, StageRemove, StageReplace
<1>4. CASE UNCHANGED vars
  BY <1>4, FewerIntents, OthersKeepStaged DEF vars, mcp, StagedInv
<1>. QED  BY <1>1, <1>2, <1>3, <1>4 DEF Next

(* What was staged and neither applied nor discarded is still staged:      *)
(* whatever is answered, and whenever, no edit is lost without an apply.   *)
THEOREM StagedUntilApplied == Spec => []StagedEditsKept
<1>. QED  BY InitStagedInv, NextStagedInv, PTL DEF Spec, StagedInv
-----------------------------------------------------------------------------
(* The keys of stored history.  While the dashboard is read again after a  *)
(* save, a copy of the row's version has the row's ids, where they were    *)
(* not edited and the row has any; and once a start's migration has gone   *)
(* through, every target of the row has an id, so that no later author     *)
(* mints one over it.                                                      *)
DocForm(d) == \A n \in DOMAIN d : d[n] = [id |-> d[n].id, cred |-> d[n].cred]
Minted(d) == DocForm(d) /\ \A n \in DOMAIN d : d[n].id # Unminted

SameIds(d, e) == \A n \in DOMAIN d \cap DOMAIN e : d[n].id = e[n].id

Keyed(ver, doc, names) ==
  /\ DocForm(doc)
  /\ habits.rereads /\ ver = stored.ver =>
       \A n \in (DOMAIN stored.doc \cap DOMAIN doc) \ names :
         \/ doc[n].id = stored.doc[n].id
         \/ ~stamped /\ stored.doc[n].id = Unminted

RowKeys == DocForm(stored.doc) /\ stamped \in BOOLEAN /\ (stamped => Minted(stored.doc))

AuthorKeys ==
  /\ \A b \in busy :
       /\ b.kind = "migrate" =>
            Minted(b.doc) /\ (b.ver = stored.ver => b.doc = stampIDs(stored.doc))
       /\ b.kind = "set" => Minted(b.doc) /\ Keyed(b.ver, b.doc, b.names)
  /\ \A c \in command :
       c.kind # "migrate" /\ Minted(c.doc) /\ Keyed(c.ver, c.doc, c.names)

CopyKeys ==
  /\ \A p \in puts : DocForm(p.doc) /\ (p.state = "sent" => Keyed(p.ver, p.doc, p.names))
  /\ dash.have => Keyed(dash.ver, dash.doc, {})
  /\ session.phase # "none" => Keyed(session.ver, session.work, session.names)

KeysInv == RowKeys /\ AuthorKeys /\ CopyKeys

LEMMA InitKeysInv == Init => KeysInv
<1>. SUFFICES ASSUME Init PROVE KeysInv
  OBVIOUS
<1>1. DocForm(stored.doc)
  <2>1. PICK d \in InitialDocs : stored = [ver |-> IF d = NoDoc THEN 0 ELSE 1, doc |-> d]
    BY DEF Init
  <2>2. d \in [DOMAIN d -> [id : Nat, cred : {"real", "masked"}]]
    BY ConfigAssumption
  <2>. QED  BY <2>1, <2>2 DEF DocForm
<1>. QED  BY <1>1 DEF Init, KeysInv, RowKeys, AuthorKeys, CopyKeys, NoCopy, NoSession

(* What minting does.                                                      *)
LEMMA MintMints ==
  ASSUME NEW d, DocForm(d), NEW ver \in Nat
  PROVE  /\ Minted(WithNewIDs(d, ver)) /\ DOMAIN WithNewIDs(d, ver) = DOMAIN d
         /\ \A n \in DOMAIN d : d[n].id # Unminted => WithNewIDs(d, ver)[n] = d[n]
<1>. DEFINE e == WithNewIDs(d, ver)
<1>1. DOMAIN e = DOMAIN d
  BY DEF WithNewIDs
<1>2. ASSUME NEW n \in DOMAIN d
      PROVE  /\ e[n] = [id |-> e[n].id, cred |-> e[n].cred] /\ e[n].id # Unminted
             /\ d[n].id # Unminted => e[n] = d[n]
  <2>1. e[n] = IF d[n].id = Unminted THEN [d[n] EXCEPT !.id = ver + 2] ELSE d[n]
    BY DEF WithNewIDs
  <2>2. d[n] = [id |-> d[n].id, cred |-> d[n].cred]
    BY DEF DocForm
  <2>3. [d[n] EXCEPT !.id = ver + 2] = [id |-> ver + 2, cred |-> d[n].cred]
    BY <2>2
  <2>. HIDE DEF e
  <2>. QED  BY <2>1, <2>2, <2>3 DEF Unminted
<1>. QED  BY <1>1, <1>2 DEF Minted, DocForm

LEMMA StampMints ==
  ASSUME NEW d, DocForm(d)
  PROVE  /\ Minted(stampIDs(d)) /\ DOMAIN stampIDs(d) = DOMAIN d
         /\ \A n \in DOMAIN d : historyKey(stampIDs(d)[n]) = historyKey(d[n])
<1>. DEFINE e == stampIDs(d)
<1>1. DOMAIN e = DOMAIN d
  BY DEF stampIDs
<1>2. ASSUME NEW n \in DOMAIN d
      PROVE  /\ e[n] = [id |-> e[n].id, cred |-> e[n].cred] /\ e[n].id # Unminted
             /\ historyKey(e[n]) = historyKey(d[n])
  <2>1. e[n] = IF d[n].id = Unminted THEN [d[n] EXCEPT !.id = PathId] ELSE d[n]
    BY DEF stampIDs
  <2>2. d[n] = [id |-> d[n].id, cred |-> d[n].cred]
    BY DEF DocForm
  <2>3. [d[n] EXCEPT !.id = PathId] = [id |-> PathId, cred |-> d[n].cred]
    BY <2>2
  <2>. HIDE DEF e
  <2>. QED  BY <2>1, <2>2, <2>3 DEF Unminted, PathId, historyKey
<1>. QED  BY <1>1, <1>2 DEF Minted, DocForm

(* Edits and masks leave the other targets' ids alone.                     *)
LEMMA EditsKeepIds ==
  ASSUME NEW d, DocForm(d), NEW n
  PROVE  /\ DocForm(With(d, n)) /\ SameIds(With(d, n), d)
         /\ DocForm(Without(d, n)) /\ SameIds(Without(d, n), d)
         /\ DocForm(Shown(d)) /\ SameIds(Shown(d), d)
<1>1. DocForm(With(d, n)) /\ SameIds(With(d, n), d)
  <2>1. \A m \in DOMAIN With(d, n) :
          With(d, n)[m] = IF m \in DOMAIN d THEN d[m] ELSE NewTarget
    BY DEF With
  <2>. QED  BY <2>1 DEF DocForm, SameIds, NewTarget
<1>2. DocForm(Without(d, n)) /\ SameIds(Without(d, n), d)
  BY DEF Without, DocForm, SameIds
<1>3. DocForm(RedactSecrets(d)) /\ SameIds(RedactSecrets(d), d)
  <2>. DEFINE e == RedactSecrets(d)
  <2>1. DOMAIN e = DOMAIN d
    BY DEF RedactSecrets
  <2>2. ASSUME NEW m \in DOMAIN d PROVE e[m] = [id |-> d[m].id, cred |-> "masked"]
    <3>1. d[m] = [id |-> d[m].id, cred |-> d[m].cred]
      BY DEF DocForm
    <3>. QED  BY <3>1 DEF RedactSecrets
  <2>. HIDE DEF e
  <2>3. DocForm(e) /\ SameIds(e, d)
    BY <2>1, <2>2 DEF DocForm, SameIds
  <2>. QED  BY <2>3 DEF e
<1>4. Shown(d) = d \/ Shown(d) = RedactSecrets(d)
  BY DEF Shown
<1>. QED  BY <1>1, <1>2, <1>3, <1>4 DEF SameIds
(* Copies outlive writes, and edits: a migration that goes through without *)
(* a write has found an id in every target.                                *)
Step ==
  /\ RowOK /\ Grows /\ habits' = habits
  /\ stamped' = stamped \/ (stamped' = TRUE /\ Minted(stored'.doc))

LEMMA KeyedStays ==
  ASSUME Step, NEW ver \in Nat, ver <= stored.ver,
         NEW doc, NEW names, Keyed(ver, doc, names)
  PROVE  Keyed(ver, doc, names)'
<1>1. CASE stored' = stored
  BY <1>1 DEF Keyed, Step, Minted
<1>2. CASE stored'.ver = stored.ver + 1
  <2>1. ver # stored'.ver
    BY <1>2 DEF RowOK, Step
  <2>. QED  BY <2>1 DEF Keyed
<1>. QED  BY <1>1, <1>2 DEF Grows, Step

LEMMA KeyedEdit ==
  ASSUME NEW ver, NEW d, NEW e, NEW names, NEW more,
         Keyed(ver, d, names), DocForm(e), SameIds(e, d),
         \A n \in DOMAIN e \ DOMAIN d : n \in more
  PROVE  Keyed(ver, e, names \cup more)
<1>. SUFFICES ASSUME habits.rereads, ver = stored.ver,
                     NEW n \in (DOMAIN stored.doc \cap DOMAIN e) \ (names \cup more)
              PROVE  \/ e[n].id = stored.doc[n].id
                     \/ ~stamped /\ stored.doc[n].id = Unminted
  BY DEF Keyed
<1>1. n \in DOMAIN d
  OBVIOUS
<1>. QED  BY <1>1 DEF Keyed, SameIds

LEMMA KeyedMint ==
  ASSUME RowKeys, NEW ver \in Nat, NEW d, NEW names, Keyed(ver, d, names)
  PROVE  Keyed(ver, WithNewIDs(d, ver), names) /\ Minted(WithNewIDs(d, ver))
<1>. DEFINE e == WithNewIDs(d, ver)
<1>1. /\ Minted(e) /\ DOMAIN e = DOMAIN d
      /\ \A n \in DOMAIN d : d[n].id # Unminted => e[n] = d[n]
  BY MintMints DEF Keyed
<1>. HIDE DEF e
<1>2. ASSUME habits.rereads, ver = stored.ver,
             NEW n \in (DOMAIN stored.doc \cap DOMAIN e) \ names
      PROVE  \/ e[n].id = stored.doc[n].id
             \/ ~stamped /\ stored.doc[n].id = Unminted
  <2>1. /\ n \in DOMAIN d
        /\ d[n].id = stored.doc[n].id \/ (~stamped /\ stored.doc[n].id = Unminted)
    BY <1>1, <1>2 DEF Keyed
  <2>2. stamped => stored.doc[n].id # Unminted
    BY <1>2 DEF RowKeys, Minted
  <2>. QED  BY <1>1, <2>1, <2>2
<1>3. Keyed(ver, e, names)
  BY <1>1, <1>2 DEF Keyed, Minted
<1>. QED  BY <1>1, <1>3 DEF e

LEMMA KeyedRow ==
  ASSUME NEW d, DocForm(d), SameIds(d, stored.doc)
  PROVE  Keyed(stored.ver, d, {})
BY DEF Keyed, SameIds

LEMMA KeyedAddition ==
  ASSUME RowOK, RowKeys, NEW n
  PROVE  LET doc == WithNewIDs(With(stored.doc, n), stored.ver)
         IN  Keyed(stored.ver, doc, {n}) /\ Minted(doc)
<1>1. DocForm(With(stored.doc, n)) /\ SameIds(With(stored.doc, n), stored.doc)
  BY EditsKeepIds DEF RowKeys
<1>2. Keyed(stored.ver, With(stored.doc, n), {n})
  <2>1. Keyed(stored.ver, With(stored.doc, n), {})
    BY <1>1, KeyedRow
  <2>. QED  BY <2>1 DEF Keyed
<1>. QED  BY <1>2, KeyedMint DEF RowOK

-----------------------------------------------------------------------------
(* Who was known stays known; requests keep what they carry.               *)
PutsDerive ==
  \A q \in puts' : \E p \in puts :
    /\ q.ver = p.ver /\ q.doc = p.doc /\ q.names = p.names
    /\ q.state = "sent" => p.state = "sent"

LEMMA OneDerives ==
  ASSUME NEW p, PutOK(p), NEW q,
         \/ q = p \/ q = [p EXCEPT !.from = "gone"] \/ q = [p EXCEPT !.same = FALSE]
         \/ \E state \in {"applying", "invalid", "conflict", "failed", "applied"} :
              q = [p EXCEPT !.state = state]
  PROVE  /\ q.ver = p.ver /\ q.doc = p.doc /\ q.names = p.names
         /\ q.state = "sent" => p.state = "sent"
BY DEF PutOK

LEMMA PutKeysStay ==
  ASSUME WritersInv, Step, CopyKeys, PutsDerive
  PROVE  \A q \in puts' : DocForm(q.doc) /\ (q.state = "sent" => Keyed(q.ver, q.doc, q.names)')
<1>. SUFFICES ASSUME NEW q \in puts'
              PROVE  DocForm(q.doc) /\ (q.state = "sent" => Keyed(q.ver, q.doc, q.names)')
  OBVIOUS
<1>1. PICK p \in puts : /\ q.ver = p.ver /\ q.doc = p.doc /\ q.names = p.names
                        /\ q.state = "sent" => p.state = "sent"
  BY DEF PutsDerive
<1>2. p.state = "sent" => Keyed(p.ver, p.doc, p.names)'
  BY KeyedStays DEF WritersInv, PutsOK, PutOK, Basis, CopyKeys, Step
<1>. QED  BY <1>1, <1>2 DEF CopyKeys

LEMMA DashKeysStay ==
  ASSUME WritersInv, Step, CopyKeys, dash' = dash, dash.have
  PROVE  Keyed(dash.ver, dash.doc, {})'
BY KeyedStays DEF WritersInv, CopiesOK, Basis, CopyKeys, Step

LEMMA SessionKeysStay ==
  ASSUME WritersInv, Step, CopyKeys, session' = session, session.phase # "none"
  PROVE  Keyed(session.ver, session.work, session.names)'
BY KeyedStays DEF WritersInv, CopiesOK, Basis, CopyKeys, Step

LEMMA CopyKeysStay ==
  ASSUME WritersInv, Step, CopyKeys, PutsDerive, UNCHANGED <<dash, session>>
  PROVE  CopyKeys'
BY PutKeysStay, DashKeysStay, SessionKeysStay DEF CopyKeys

LEMMA AuthorKeysStay ==
  ASSUME WritersInv, Step, AuthorKeys, command' \subseteq command,
         \A b \in busy' : b.kind \in {"migrate", "set"} => b \in busy
  PROVE  AuthorKeys'
<1>1. \A a \in Authors : a.ver \in Nat /\ a.ver <= stored.ver
  BY DEF WritersInv, AuthorsOK, Basis
<1>2. ASSUME NEW b \in busy', b.kind = "migrate"
      PROVE  Minted(b.doc) /\ (b.ver = stored'.ver => b.doc = stampIDs(stored'.doc))
  <2>1. b \in Authors /\ b \in busy
    BY <1>2 DEF Authors
  <2>2. b.ver \in Nat /\ b.ver <= stored.ver /\ stored.ver \in Nat
    BY <1>1, <2>1 DEF Step, RowOK
  <2>3. stored' = stored \/ stored'.ver = stored.ver + 1
    BY DEF Step, Grows
  <2>4. b.ver = stored'.ver => stored' = stored
    BY <2>2, <2>3
  <2>. QED  BY <1>2, <2>1, <2>4 DEF AuthorKeys
<1>3. ASSUME NEW b \in busy', b.kind = "set"
      PROVE  Minted(b.doc) /\ Keyed(b.ver, b.doc, b.names)'
  <2>1. b \in Authors /\ b \in busy
    BY <1>3 DEF Authors
  <2>. QED  BY <1>1, <1>3, <2>1, KeyedStays DEF AuthorKeys, Step
<1>4. ASSUME NEW c \in command'
      PROVE  c.kind # "migrate" /\ Minted(c.doc) /\ Keyed(c.ver, c.doc, c.names)'
  <2>1. c \in Authors /\ c \in command
    BY DEF Authors
  <2>. QED  BY <1>1, <2>1, KeyedStays DEF AuthorKeys, Step
<1>. QED  BY <1>2, <1>3, <1>4 DEF AuthorKeys

LEMMA RowKeysStay ==
  ASSUME RowKeys, stored' = stored \/ Minted(stored'.doc),
         stamped' = stamped \/ (stamped' = TRUE /\ Minted(stored'.doc))
  PROVE  RowKeys'
<1>1. DocForm(stored.doc)'
  BY DEF RowKeys, Minted
<1>2. stamped' \in BOOLEAN
  BY DEF RowKeys
<1>3. stamped' => Minted(stored'.doc)
  BY DEF RowKeys
<1>. QED  BY <1>1, <1>2, <1>3 DEF RowKeys, Minted, DocForm
-----------------------------------------------------------------------------
(* The steps that bring no new copy and no new author.                     *)
LEMMA StepKeepsKeys ==
  ASSUME WritersInv, KeysInv, Step, stored' = stored \/ Minted(stored'.doc),
         UNCHANGED <<dash, session>>, PutsDerive, command' \subseteq command,
         \A b \in busy' : b.kind \in {"migrate", "set"} => b \in busy
  PROVE  KeysInv'
<1>1. RowKeys'
  BY RowKeysStay DEF KeysInv, Step
<1>. QED  BY <1>1, AuthorKeysStay, CopyKeysStay DEF KeysInv

LEMMA PutsStayDerived ==
  ASSUME puts' \subseteq puts
  PROVE  PutsDerive
BY DEF PutsDerive

LEMMA HubKeepsKeys ==
  ASSUME WritersInv, KeysInv, habits' = habits,
         \/ BootBuilds \/ Stop \/ ReloadReads \/ ReloadSwaps
         \/ \E p \in puts : ApplyRejects(p)
         \/ ApplyConflicts \/ ApplySwaps
  PROVE  KeysInv'
<1>2. /\ UNCHANGED <<stored, stamped, dash, session, command>>
      /\ \A b \in busy' : b.kind \in {"migrate", "set"} => b \in busy
  BY DEF BootBuilds, Stop, ReloadReads, ReloadSwaps, ApplyRejects, ApplyConflicts, ApplySwaps,
         hub, mcp, Work
<1>3. \A q \in puts' : \E p \in puts :
        q = p \/ \E state \in {"applying", "invalid", "conflict", "failed", "applied"} :
                    q = [p EXCEPT !.state = state]
  BY DEF BootBuilds, Stop, ReloadReads, ReloadSwaps, ApplyRejects, ApplyConflicts, ApplySwaps,
         Answer
<1>4. PutsDerive
  BY <1>3, OneDerives DEF PutsDerive, WritersInv, PutsOK
<1>5. Step
  BY <1>2 DEF Step, Grows, WritersInv, LockInv
<1>. QED  BY <1>2, <1>4, <1>5, StepKeepsKeys

(* The writes.                                                             *)
LEMMA WritesKeepKeys ==
  ASSUME WritersInv, KeysInv, habits' = habits,
         ApplyPersists \/ ApplyUnanswered \/ CommandWrites
  PROVE  KeysInv'
<1>1. PICK doc : Minted(doc) /\ (stored' = stored \/ Write(doc))
  <2>1. CASE ApplyPersists \/ ApplyUnanswered
    BY <2>1 DEF ApplyPersists, ApplyUnanswered, KeysInv, AuthorKeys
  <2>2. CASE CommandWrites
    BY <2>2 DEF CommandWrites, KeysInv, AuthorKeys
  <2>. QED  BY <2>1, <2>2
<1>2. stamped' = stamped
  BY DEF ApplyPersists, ApplyUnanswered, CommandWrites
<1>3. /\ UNCHANGED <<dash, session>> /\ command' \subseteq command
      /\ \A b \in busy' : b.kind \in {"migrate", "set"} => b \in busy
  <2>1. CASE ApplyPersists
    <3>1. PICK b \in busy :
            busy' = (busy \ {b}) \cup {[b EXCEPT !.kind = "swap", !.ver = stored'.ver]}
      BY <2>1 DEF ApplyPersists
    <3>2. b = Work(b.kind, b.ver, b.doc, b.names)
      BY DEF WritersInv, LockInv, HolderOK
    <3>3. PICK d : d = [b EXCEPT !.kind = "swap"]
      OBVIOUS
    <3>4. d = Work("swap", b.ver, b.doc, b.names)
      BY <3>2, <3>3 DEF Work
    <3>5. [d EXCEPT !.ver = stored'.ver].kind = "swap"
      BY <3>4 DEF Work
    <3>6. [b EXCEPT !.kind = "swap", !.ver = stored'.ver].kind = "swap"
      BY <3>3, <3>5
    <3>. QED  BY <2>1, <3>1, <3>6 DEF ApplyPersists, mcp
  <2>2. CASE ApplyUnanswered \/ CommandWrites
    BY <2>2 DEF ApplyUnanswered, CommandWrites, hub, mcp
  <2>. QED  BY <2>1, <2>2
<1>4. PutsDerive
  <2>1. CASE ApplyPersists \/ CommandWrites
    BY <2>1, PutsStayDerived DEF ApplyPersists, CommandWrites
  <2>2. CASE ApplyUnanswered
    <3>1. \A q \in puts' : \E p \in puts : q = p \/ q = [p EXCEPT !.state = "failed"]
      BY <2>2 DEF ApplyUnanswered, Answer
    <3>. QED  BY <3>1, OneDerives DEF PutsDerive, WritersInv, PutsOK
  <2>. QED  BY <2>1, <2>2
<1>5. Step /\ (stored' = stored \/ Minted(stored'.doc))
  BY <1>1, <1>2, WriteGrows DEF Step, Grows, WritersInv, LockInv
<1>. QED  BY <1>3, <1>4, <1>5, StepKeepsKeys

(* The migration of a start, the first one's among them.                   *)
LEMMA MigrationKeepsKeys ==
  ASSUME WritersInv, KeysInv, habits' = habits, BootReads \/ BootMigrates
  PROVE  KeysInv'
<1>1. UNCHANGED <<up, command, puts, dash, session>>
  BY DEF BootReads, BootMigrates, mcp
<1>2. PutsDerive
  BY <1>1, PutsStayDerived
<1>3. CASE BootReads
  <2>1. /\ busy' = {Work("migrate", stored.ver, stampIDs(stored.doc), {})}
        /\ stored' = stored /\ stamped' = stamped
    BY <1>3 DEF BootReads
  <2>2. Step
    BY <2>1 DEF Step, Grows, WritersInv, LockInv
  <2>3. Minted(stampIDs(stored.doc))
    BY StampMints DEF KeysInv, RowKeys
  <2>4. RowKeys'
    BY <2>1, RowKeysStay DEF KeysInv
  <2>5. AuthorKeys'
    <3>1. \A c \in command :
            c.kind # "migrate" /\ Minted(c.doc) /\ Keyed(c.ver, c.doc, c.names)'
      BY <2>1 DEF KeysInv, AuthorKeys, Keyed
    <3>. QED  BY <1>1, <2>1, <2>3, <3>1 DEF AuthorKeys, Work
  <2>. QED  BY <1>1, <1>2, <2>2, <2>4, <2>5, CopyKeysStay DEF KeysInv
<1>4. CASE BootMigrates
  <2>1. PICK b \in busy :
          /\ b.kind = "migrate" /\ busy' = {[b EXCEPT !.kind = "boot"]}
          /\ stamped' = (stamped \/ stored'.doc = b.doc)
          /\ Write(b.doc) \/ stored' = stored
    BY <1>4 DEF BootMigrates
  <2>2. [b EXCEPT !.kind = "boot"].kind = "boot"
    <3>1. b = Work(b.kind, b.ver, b.doc, b.names)
      BY DEF WritersInv, LockInv, HolderOK
    <3>. QED  BY <3>1 DEF Work
  <2>3. Minted(b.doc)
    BY <2>1 DEF KeysInv, AuthorKeys
  <2>4. stored' = stored \/ Minted(stored'.doc)
    BY <2>1, <2>3 DEF Write
  <2>5. stamped' = stamped \/ (stamped' = TRUE /\ Minted(stored'.doc))
    <3>1. CASE stored'.doc = b.doc
      BY <2>1, <2>3, <3>1
    <3>2. CASE stored'.doc # b.doc
      <4>1. stamped' = (stamped \/ FALSE) /\ stamped \in BOOLEAN
        BY <2>1, <3>2 DEF KeysInv, RowKeys
      <4>. QED  BY <4>1
    <3>. QED  BY <3>1, <3>2
  <2>6. Step
    BY <2>1, <2>5, WriteGrows DEF Step, Grows, WritersInv, LockInv
  <2>7. RowKeys'
    BY <2>4, <2>5, RowKeysStay DEF KeysInv
  <2>8. AuthorKeys'
    BY <1>1, <2>1, <2>2, <2>6, AuthorKeysStay DEF KeysInv
  <2>. QED  BY <1>1, <1>2, <2>6, <2>7, <2>8, CopyKeysStay DEF KeysInv
<1>. QED  BY <1>3, <1>4
(* The authors: what is minted over a copy keeps the copy's ids.           *)
LEMMA AuthorsKeepKeys ==
  ASSUME WritersInv, KeysInv, habits' = habits,
         \/ \E p \in puts : ApplyBuilds(p)
         \/ \E n \in Names : ImportBuilds(n) \/ CommandReads(n)
  PROVE  KeysInv'
<1>1. UNCHANGED <<stored, stamped, dash, session>>
  BY DEF ApplyBuilds, ImportBuilds, CommandReads, hub, mcp
<1>2. Step
  BY <1>1 DEF Step, Grows, WritersInv, LockInv
<1>4. \A ver, doc, names : Keyed(ver, doc, names) => Keyed(ver, doc, names)'
  BY <1>1 DEF Keyed
<1>5. ASSUME NEW p \in puts, ApplyBuilds(p) PROVE KeysInv'
  <2>1. /\ busy' = {Work("set", p.ver, WithNewIDs(p.doc, p.ver), p.names)}
        /\ puts' = (puts \ {p}) \cup {[p EXCEPT !.state = "applying"]} /\ command' = command
        /\ p.state = "sent"
    BY <1>5 DEF ApplyBuilds
  <2>2. PutOK(p) /\ Keyed(p.ver, p.doc, p.names)
    BY <2>1 DEF WritersInv, PutsOK, KeysInv, CopyKeys
  <2>3. Keyed(p.ver, WithNewIDs(p.doc, p.ver), p.names) /\ Minted(WithNewIDs(p.doc, p.ver))
    BY <2>2, KeyedMint DEF KeysInv, PutOK
  <2>4. RowKeys'
    BY <1>1, RowKeysStay DEF KeysInv
  <2>5. AuthorKeys'
    BY <1>4, <2>1, <2>3 DEF KeysInv, AuthorKeys, Work
  <2>6. PutsDerive
    <3>1. \A q \in puts' : \E o \in puts : q = o \/ q = [o EXCEPT !.state = "applying"]
      BY <2>1
    <3>. QED  BY <3>1, OneDerives DEF PutsDerive, WritersInv, PutsOK
  <2>. QED  BY <1>1, <1>2, <2>4, <2>5, <2>6, CopyKeysStay DEF KeysInv
<1>6. ASSUME NEW n \in Names, ImportBuilds(n) \/ CommandReads(n) PROVE KeysInv'
  <2>1. PICK ver, doc : /\ ver = stored.ver /\ Keyed(ver, doc, {n}) /\ Minted(doc)
                        /\ doc = WithNewIDs(With(stored.doc, n), stored.ver)
    BY KeyedAddition DEF KeysInv, WritersInv, LockInv
  <2>2. /\ \/ busy' = {Work("set", ver, doc, {n})} /\ command' = command
           \/ busy' = busy /\ command' = {Work("import", ver, doc, {n})}
        /\ puts' = puts
    BY <1>6, <2>1 DEF ImportBuilds, CommandReads, hub
  <2>3. RowKeys'
    BY <1>1, RowKeysStay DEF KeysInv
  <2>4. AuthorKeys'
    <3>1. ASSUME NEW b \in busy
          PROVE  /\ b.kind = "set" => Minted(b.doc) /\ Keyed(b.ver, b.doc, b.names)'
                 /\ b.kind = "migrate" =>
                      Minted(b.doc) /\ (b.ver = stored'.ver => b.doc = stampIDs(stored'.doc))
      <4>1. b.kind = "set" => Minted(b.doc) /\ Keyed(b.ver, b.doc, b.names)
        BY DEF KeysInv, AuthorKeys
      <4>. QED  BY <1>1, <1>4, <4>1 DEF KeysInv, AuthorKeys
    <3>2. \A c \in command :
            c.kind # "migrate" /\ Minted(c.doc) /\ Keyed(c.ver, c.doc, c.names)'
      BY <1>4 DEF KeysInv, AuthorKeys
    <3>3. Minted(doc) /\ Keyed(ver, doc, {n})'
      BY <1>4, <2>1
    <3>4. CASE busy' = {Work("set", ver, doc, {n})} /\ command' = command
      BY <3>2, <3>3, <3>4 DEF AuthorKeys, Work
    <3>5. CASE busy' = busy /\ command' = {Work("import", ver, doc, {n})}
      <4>1. \A c \in command' :
              c.kind = "import" /\ c.ver = ver /\ c.doc = doc /\ c.names = {n}
        BY <3>5 DEF Work
      <4>2. \A c \in command' :
              c.kind # "migrate" /\ Minted(c.doc) /\ Keyed(c.ver, c.doc, c.names)'
        BY <3>3, <4>1
      <4>. QED  BY <3>1, <3>5, <4>2 DEF AuthorKeys
    <3>. QED  BY <2>2, <3>4, <3>5
  <2>. QED  BY <1>1, <1>2, <2>2, <2>3, <2>4, PutsStayDerived, CopyKeysStay DEF KeysInv
<1>. QED  BY <1>5, <1>6

(* The copies: what changes only them.                                     *)
LEMMA ClientKeepsKeys ==
  ASSUME WritersInv, KeysInv, habits' = habits,
         UNCHANGED <<stored, stamped, busy, command>>, CopyKeys'
  PROVE  KeysInv'
<1>1. RowKeys'
  BY RowKeysStay DEF KeysInv
<1>2. Step
  BY DEF Step, Grows, WritersInv, LockInv
<1>. QED  BY <1>1, <1>2, AuthorKeysStay DEF KeysInv

LEMMA SentKeepsCopies ==
  ASSUME WritersInv, CopyKeys, Step, UNCHANGED <<stored, stamped, dash, session>>,
         NEW from, NEW ver, NEW doc, NEW names, NEW exact, NEW intent,
         Keyed(ver, doc, names), Send(from, ver, doc, names, exact, intent)
  PROVE  CopyKeys'
<1>1. PICK q : /\ puts' = puts \cup {q}
               /\ q = [from |-> from, ver |-> ver, doc |-> doc, names |-> names, exact |-> exact,
                       intent |-> intent, same |-> TRUE, state |-> "sent"]
  BY DEF Send
<1>2. \A v, d, ns : Keyed(v, d, ns) => Keyed(v, d, ns)'
  BY DEF Keyed, Step
<1>3. q.ver = ver /\ q.doc = doc /\ q.names = names
  BY <1>1
<1>4. DocForm(q.doc) /\ Keyed(q.ver, q.doc, q.names)'
  BY <1>2, <1>3 DEF Keyed
<1>5. \A p \in puts' : DocForm(p.doc) /\ (p.state = "sent" => Keyed(p.ver, p.doc, p.names)')
  BY <1>1, <1>2, <1>4 DEF CopyKeys
<1>. QED  BY <1>5, DashKeysStay, SessionKeysStay DEF CopyKeys

LEMMA DashboardKeepsKeys ==
  ASSUME WritersInv, KeysInv, habits' = habits,
         \/ loadCfgTree
         \/ \E n \in Names : saveDoc(n)
         \/ \E p \in puts : saveDocAnswered(p) \/ GiveUp(p) \/ Forget(p)
  PROVE  KeysInv'
<1>1. UNCHANGED <<stored, stamped, busy, command, session>>
  BY DEF loadCfgTree, saveDoc, saveDocAnswered, GiveUp, Forget, hub, mcp
<1>2. Step
  BY <1>1 DEF Step, Grows, WritersInv, LockInv
<1>4. CASE loadCfgTree
  <2>1. /\ dash' = [have |-> TRUE, ver |-> stored.ver, doc |-> stored.doc] /\ puts' = puts
    BY <1>4 DEF loadCfgTree
  <2>2. Keyed(stored.ver, stored.doc, {})'
    BY <1>1 DEF KeysInv, RowKeys, Keyed
  <2>3. CopyKeys'
    BY <1>1, <1>2, <2>1, <2>2, PutsStayDerived, PutKeysStay, SessionKeysStay DEF KeysInv, CopyKeys
  <2>. QED  BY <1>1, <2>3, ClientKeepsKeys
<1>5. ASSUME NEW n \in Names, saveDoc(n) PROVE KeysInv'
  <2>1. PICK doc : /\ doc = IF n \in DOMAIN dash.doc THEN Without(dash.doc, n) ELSE With(dash.doc, n)
                   /\ Send("dash", dash.ver, doc, {n}, FALSE, NoEdit)
                   /\ dash.have /\ dash' = dash
    BY <1>5 DEF saveDoc
  <2>2. Keyed(dash.ver, dash.doc, {}) /\ DocForm(dash.doc)
    BY <2>1 DEF KeysInv, CopyKeys, Keyed
  <2>3. DocForm(doc) /\ SameIds(doc, dash.doc)
    BY <2>1, <2>2, EditsKeepIds
  <2>4. \A m \in DOMAIN doc \ DOMAIN dash.doc : m \in {n}
    BY <2>1 DEF With, Without
  <2>5. Keyed(dash.ver, doc, {} \cup {n})
    BY <2>2, <2>3, <2>4, KeyedEdit
  <2>6. {} \cup {n} = {n}
    OBVIOUS
  <2>7. Keyed(dash.ver, doc, {n})
    BY <2>5, <2>6
  <2>8. CopyKeys'
    BY <1>1, <1>2, <2>1, <2>7, SentKeepsCopies DEF KeysInv
  <2>. QED  BY <1>1, <2>8, ClientKeepsKeys
<1>6. ASSUME NEW p \in puts, saveDocAnswered(p) PROVE KeysInv'
  <2>1. puts' \subseteq puts
    BY <1>6 DEF saveDocAnswered
  <2>2. \/ dash' = NoCopy
        \/ ~habits.rereads /\ dash' = [have |-> TRUE, ver |-> p.ver + 1, doc |-> p.doc]
        \/ dash' = dash
    <3>1. dash' = CASE p.state = "conflict" \/ (p.state = "applied" /\ habits.rereads) -> NoCopy
                    [] p.state = "applied" /\ ~habits.rereads ->
                         [have |-> TRUE, ver |-> p.ver + 1, doc |-> p.doc]
                    [] OTHER -> dash
      BY <1>6 DEF saveDocAnswered
    <3>2. CASE p.state = "conflict" \/ (p.state = "applied" /\ habits.rereads)
      BY <3>1, <3>2
    <3>3. CASE p.state = "applied" /\ ~habits.rereads
      BY <3>1, <3>3
    <3>4. CASE p.state # "conflict" /\ p.state # "applied"
      BY <3>1, <3>4
    <3>. QED  BY <3>2, <3>3, <3>4
  <2>3. dash'.have => Keyed(dash.ver, dash.doc, {})'
    <3>1. CASE dash' = NoCopy
      BY <3>1 DEF NoCopy
    <3>2. CASE ~habits.rereads /\ dash' = [have |-> TRUE, ver |-> p.ver + 1, doc |-> p.doc]
      BY <3>2 DEF Keyed, KeysInv, CopyKeys
    <3>3. CASE dash' = dash
      BY <1>2, <3>3, DashKeysStay DEF KeysInv
    <3>. QED  BY <2>2, <3>1, <3>2, <3>3
  <2>4. CopyKeys'
    BY <1>1, <1>2, <2>1, <2>3, PutsStayDerived, PutKeysStay, SessionKeysStay DEF KeysInv, CopyKeys
  <2>. QED  BY <1>1, <2>4, ClientKeepsKeys
<1>7. ASSUME NEW p \in puts, GiveUp(p) \/ Forget(p) PROVE KeysInv'
  <2>1. dash' = dash /\ \A q \in puts' : \E o \in puts : q = o \/ q = [o EXCEPT !.from = "gone"]
    BY <1>7 DEF GiveUp, Forget
  <2>2. PutsDerive
    BY <2>1, OneDerives DEF PutsDerive, WritersInv, PutsOK
  <2>3. CopyKeys'
    BY <1>1, <1>2, <2>1, <2>2, CopyKeysStay DEF KeysInv
  <2>. QED  BY <1>1, <2>3, ClientKeepsKeys
<1>. QED  BY <1>4, <1>5, <1>6, <1>7
(* The staging session.                                                    *)
LEMMA StageKeepsKeys ==
  ASSUME WritersInv, KeysInv, habits' = habits, NEW d, Stage(d),
         DocForm(d), SameIds(d, session.work)
  PROVE  KeysInv'
<1>. DEFINE changed == (DOMAIN d \ DOMAIN session.work) \cup (DOMAIN session.work \ DOMAIN d)
            work == WithNewIDs(d, session.ver)
<1>1. /\ UNCHANGED <<stored, stamped, busy, command, dash>> /\ session.phase = "active"
      /\ session' = [session EXCEPT !.work = work, !.names = session.names \cup changed]
  BY DEF Stage, hub
<1>2. Step
  BY <1>1 DEF Step, Grows, WritersInv, LockInv
<1>3. /\ session = [phase |-> session.phase, ver |-> session.ver, work |-> session.work,
                    file |-> session.file, exact |-> session.exact, names |-> session.names]
      /\ session.ver \in Nat /\ Keyed(session.ver, session.work, session.names)
  BY <1>1 DEF WritersInv, CopiesOK, Basis, KeysInv, CopyKeys
<1>4. \A n \in DOMAIN d \ DOMAIN session.work : n \in changed
  OBVIOUS
<1>. HIDE DEF changed
<1>5. Keyed(session.ver, d, session.names \cup changed)
  BY <1>3, <1>4, KeyedEdit
<1>6. Keyed(session.ver, work, session.names \cup changed)
  BY <1>3, <1>5, KeyedMint DEF KeysInv
<1>. HIDE DEF work
<1>7. session'.ver = session.ver /\ session'.work = work /\ session'.names = session.names \cup changed
  BY <1>1, <1>3
<1>8. Keyed(session.ver, session.work, session.names)'
  BY <1>1, <1>6, <1>7 DEF Keyed
<1>9. PutsDerive
  <2>1. \A q \in puts' : \E p \in puts : q = [p EXCEPT !.same = FALSE]
    BY DEF Stage, Touch
  <2>. QED  BY <2>1, OneDerives DEF PutsDerive, WritersInv, PutsOK
<1>10. CopyKeys'
  BY <1>1, <1>2, <1>8, <1>9, PutKeysStay, DashKeysStay DEF KeysInv, CopyKeys
<1>. QED  BY <1>1, <1>2, <1>10, ClientKeepsKeys

LEMMA StagingKeepsKeys ==
  ASSUME WritersInv, KeysInv, habits' = habits,
         \/ \E n \in Names : StageAdd(n) \/ StageRemove(n)
         \/ \E gone, new \in Names : StageReplace(gone, new)
  PROVE  KeysInv'
<1>1. session.phase = "active" => DocForm(session.work)
  BY DEF KeysInv, CopyKeys, Keyed
<1>2. ASSUME NEW n \in Names, StageAdd(n) \/ StageRemove(n) PROVE KeysInv'
  <2>1. PICK d \in {With(session.work, n), Without(session.work, n)} : Stage(d)
    BY <1>2 DEF StageAdd, StageRemove
  <2>2. DocForm(d) /\ SameIds(d, session.work)
    BY <1>1, <2>1, EditsKeepIds DEF Stage
  <2>. QED  BY <2>1, <2>2, StageKeepsKeys
<1>3. ASSUME NEW gone \in Names, NEW new \in Names, StageReplace(gone, new) PROVE KeysInv'
  <2>1. PICK e, d : e = Without(session.work, gone) /\ d = With(e, new)
    OBVIOUS
  <2>2. Stage(d) /\ new \notin DOMAIN session.work
    BY <1>3, <2>1 DEF StageReplace
  <2>3. DocForm(e) /\ SameIds(e, session.work)
    BY <1>1, <2>1, <2>2, EditsKeepIds DEF Stage
  <2>4. DocForm(d) /\ SameIds(d, e)
    BY <2>1, <2>3, EditsKeepIds
  <2>5. DOMAIN d = DOMAIN e \cup {new}
    BY <2>1, EditsKeepNames
  <2>6. SameIds(d, session.work)
    BY <2>2, <2>3, <2>4, <2>5 DEF SameIds
  <2>. QED  BY <2>2, <2>4, <2>6, StageKeepsKeys
<1>. QED  BY <1>2, <1>3

LEMMA SessionKeepsKeys ==
  ASSUME WritersInv, KeysInv, habits' = habits,
         \/ ensureReads \/ ensureComposes \/ Discard \/ applyStaged
         \/ \E p \in puts : applyStagedAnswered(p)
  PROVE  KeysInv'
<1>1. UNCHANGED <<stored, stamped, busy, command, dash>>
  BY DEF ensureReads, ensureComposes, Discard, applyStaged, applyStagedAnswered, hub
<1>2. Step
  BY <1>1 DEF Step, Grows, WritersInv, LockInv
<1>. SUFFICES CopyKeys'
  BY <1>1, ClientKeepsKeys
<1>4. CASE ensureReads
  <2>1. PICK doc : doc = Shown(stored.doc)
    OBVIOUS
  <2>2. /\ puts' = puts
        /\ session' = [phase |-> "seeding", ver |-> stored.ver, work |-> doc,
                       file |-> {}, exact |-> FALSE, names |-> {}]
    BY <1>4, <2>1 DEF ensureReads, NoSession
  <2>3. Keyed(stored.ver, doc, {})
    BY <2>1, KeyedRow, EditsKeepIds DEF KeysInv, RowKeys
  <2>4. Keyed(session.ver, session.work, session.names)'
    BY <1>1, <2>2, <2>3 DEF Keyed
  <2>. QED  BY <1>1, <1>2, <2>2, <2>4, PutsStayDerived, PutKeysStay, DashKeysStay DEF KeysInv, CopyKeys
<1>5. CASE ensureComposes
  <2>1. PICK exact, file :
          session' = [session EXCEPT !.phase = "active", !.exact = exact, !.file = file]
    BY <1>5 DEF ensureComposes
  <2>2. /\ session.phase = "seeding" /\ puts' = puts
        /\ session = [phase |-> session.phase, ver |-> session.ver, work |-> session.work,
                      file |-> session.file, exact |-> session.exact, names |-> session.names]
    BY <1>5 DEF ensureComposes, WritersInv, CopiesOK
  <2>3. session' = [phase |-> "active", ver |-> session.ver, work |-> session.work,
                    file |-> file, exact |-> exact, names |-> session.names]
    BY <2>1, <2>2
  <2>4. Keyed(session.ver, session.work, session.names)
    BY <2>2 DEF KeysInv, CopyKeys
  <2>5. Keyed(session.ver, session.work, session.names)'
    BY <1>1, <2>3, <2>4 DEF Keyed
  <2>. QED  BY <1>1, <1>2, <2>2, <2>5, PutsStayDerived, PutKeysStay, DashKeysStay DEF KeysInv, CopyKeys
<1>6. CASE Discard
  <2>1. session'.phase = "none" /\ \A q \in puts' : \E p \in puts : q = [p EXCEPT !.same = FALSE]
    BY <1>6 DEF Discard, NoSession, Touch
  <2>2. PutsDerive
    BY <2>1, OneDerives DEF PutsDerive, WritersInv, PutsOK
  <2>. QED  BY <1>1, <1>2, <2>1, <2>2, PutKeysStay, DashKeysStay DEF KeysInv, CopyKeys
<1>7. CASE applyStaged
  <2>1. /\ Send("mcp", session.ver, session.work, session.names, session.exact, owed)
        /\ Keyed(session.ver, session.work, session.names) /\ session' = session
    BY <1>7 DEF applyStaged, KeysInv, CopyKeys
  <2>. QED  BY <1>1, <1>2, <2>1, SentKeepsCopies DEF KeysInv
<1>8. ASSUME NEW p \in puts, applyStagedAnswered(p) PROVE CopyKeys'
  <2>1. puts' \subseteq puts /\ (session' = session \/ session'.phase = "none")
    BY <1>8 DEF applyStagedAnswered, resetIfUnchanged, NoSession
  <2>2. session'.phase # "none" => Keyed(session.ver, session.work, session.names)'
    BY <1>2, <2>1, SessionKeysStay DEF KeysInv
  <2>. QED  BY <1>1, <1>2, <2>1, <2>2, PutsStayDerived, PutKeysStay, DashKeysStay DEF KeysInv, CopyKeys
<1>. QED  BY <1>4, <1>5, <1>6, <1>7, <1>8

LEMMA NextKeysInv == WritersInv /\ KeysInv /\ [Next]_vars => KeysInv'
<1>. SUFFICES ASSUME WritersInv, KeysInv, [Next]_vars PROVE KeysInv'
  OBVIOUS
<1>1. habits' = habits
  BY DEF Next, HubStep, ClientStep, McpStep, vars, BootReads, BootMigrates, BootBuilds, Stop,
         ReloadReads, ReloadSwaps, ApplyBuilds, ApplyRejects, ImportBuilds, ApplyPersists,
         ApplyConflicts, ApplyUnanswered, ApplySwaps, CommandReads, CommandWrites, loadCfgTree,
         saveDoc, saveDocAnswered, GiveUp, Forget, SessionEnds, ensureReads, ensureComposes,
         StageAdd, StageRemove, StageReplace, Stage, Discard, applyStaged, applyStagedAnswered
<1>2. CASE HubStep
  BY <1>1, <1>2, HubKeepsKeys, WritesKeepKeys, MigrationKeepsKeys, AuthorsKeepKeys DEF HubStep
<1>3. CASE ClientStep
  BY <1>1, <1>3, WritesKeepKeys, AuthorsKeepKeys, DashboardKeepsKeys DEF ClientStep
<1>4. CASE McpStep /\ ~SessionEnds
  BY <1>1, <1>4, StagingKeepsKeys, SessionKeepsKeys DEF McpStep
<1>5. CASE SessionEnds \/ UNCHANGED vars
  <2>1. UNCHANGED <<habits, stored, stamped, busy, puts, dash, command, session>>
    BY <1>5 DEF SessionEnds, vars, hub, mcp
  <2>2. RowKeys' /\ AuthorKeys' /\ CopyKeys'
    BY <2>1 DEF KeysInv, RowKeys, AuthorKeys, CopyKeys, Keyed
  <2>. QED  BY <2>2 DEF KeysInv
<1>. QED  BY <1>2, <1>3, <1>4, <1>5 DEF Next

(* The key a target's history is stored under survives every write whose   *)
(* author did not touch the target, while the dashboard is read again      *)
(* after a save: the migration re-keys nobody, and minting and imports     *)
(* only who has no id in a row that no migration has got to.               *)
THEOREM HistoryStaysKeyed == Spec => HistoryKeysKept
<1>. DEFINE Kept == habits.rereads => KeysKept
<1>1. ASSUME KeysInv, NEW a \in Authors, SetSucceeds(a.ver), Write(a.doc)
      PROVE  Kept
  <2>1. stored'.doc = a.doc /\ a.ver = stored.ver /\ stored.ver < MaxVersion
    BY <1>1 DEF Write, SetSucceeds
  <2>2. CASE a.kind = "migrate" /\ a \in busy
    <3>1. a.doc = stampIDs(stored.doc) /\ DocForm(stored.doc)
      BY <1>1, <2>1, <2>2 DEF KeysInv, AuthorKeys, RowKeys
    <3>2. \A n \in DOMAIN stored.doc : historyKey(a.doc[n]) = historyKey(stored.doc[n])
      BY <3>1, StampMints
    <3>. QED  BY <2>1, <3>2 DEF KeysKept
  <2>3. CASE a \in command \/ a.kind = "set"
    <3>1. Keyed(a.ver, a.doc, a.names)
      BY <1>1, <2>3 DEF KeysInv, AuthorKeys, Authors
    <3>2. habits.rereads => \A n \in (DOMAIN stored.doc \cap DOMAIN a.doc) \ a.names :
                              \/ a.doc[n].id = stored.doc[n].id
                              \/ ~stamped /\ stored.doc[n].id = Unminted
      BY <2>1, <3>1 DEF Keyed
    <3>3. a.kind # "migrate"
      BY <1>1, <2>3 DEF KeysInv, AuthorKeys
    <3>. QED  BY <2>1, <3>2, <3>3 DEF KeysKept, historyKey
  <2>. QED  BY <2>2, <2>3 DEF Authors
<1>2. ASSUME KeysInv, [Next]_vars PROVE Kept \/ stored' = stored
  <2>1. CASE BootMigrates
    BY <1>1, <1>2, <2>1 DEF BootMigrates, Authors
  <2>2. CASE ApplyPersists \/ ApplyUnanswered
    BY <1>1, <1>2, <2>2 DEF ApplyPersists, ApplyUnanswered, Authors
  <2>3. CASE CommandWrites
    BY <1>1, <1>2, <2>3 DEF CommandWrites, Authors
  <2>4. CASE HubStep /\ ~BootMigrates /\ ~ApplyPersists /\ ~ApplyUnanswered
    BY <2>4 DEF HubStep, BootReads, BootBuilds, Stop, ReloadReads, ReloadSwaps, ApplyBuilds,
                ApplyRejects, ImportBuilds, ApplyConflicts, ApplySwaps
  <2>5. CASE ClientStep /\ ~CommandWrites
    BY <2>5 DEF ClientStep, CommandReads, loadCfgTree, saveDoc, saveDocAnswered, GiveUp, Forget
  <2>6. CASE McpStep
    BY <2>6 DEF McpStep, SessionEnds, ensureReads, ensureComposes, StageAdd, StageRemove,
                StageReplace, Stage, Discard, applyStaged, applyStagedAnswered
  <2>7. CASE UNCHANGED vars
    BY <2>7 DEF vars
  <2>. QED  BY <1>2, <2>1, <2>2, <2>3, <2>4, <2>5, <2>6, <2>7 DEF Next
<1>3. KeysInv /\ [Next]_vars => [Kept]_stored
  BY <1>2
<1>. QED  BY <1>3, InitWritersInv, NextWritersInv, InitKeysInv, NextKeysInv, PTL
          DEF Spec, HistoryKeysKept
-----------------------------------------------------------------------------
(* What an exact session validates: the document that runs composes, so    *)
(* the names that run beside a verbatim copy include the file config's.    *)
PutComposes(p) == p.exact => Builds(p.doc) /\ p.state # "invalid"
ComposeInv ==
  /\ up => Builds(live.doc)
  /\ \A b \in busy : b.kind \in {"set", "swap"} => Builds(b.doc)
  /\ session.exact => Builds(session.work) /\ FileNames \subseteq session.file
  /\ \A p \in puts : PutComposes(p)

LEMMA InitComposeInv == Init => ComposeInv
BY DEF Init, ComposeInv, NoSession

LEMMA SameNamesBuild ==
  ASSUME NEW d, NEW e, SameNames(d, e)
  PROVE  Builds(d) <=> Builds(e)
BY DEF SameNames, Builds

(* A request's document and exactness stay as they were sent.              *)
LEMMA PutsCompose ==
  ASSUME WritersInv, ComposeInv,
         \A q \in puts' : \E p \in puts :
           \/ q = p \/ q = [p EXCEPT !.from = "gone"] \/ q = [p EXCEPT !.same = FALSE]
           \/ \E state \in {"applying", "conflict", "failed", "applied"} :
                q = [p EXCEPT !.state = state]
           \/ ~Builds(p.doc) /\ q = [p EXCEPT !.state = "invalid"]
  PROVE  \A q \in puts' : PutComposes(q)
<1>. SUFFICES ASSUME NEW q \in puts' PROVE PutComposes(q)
  OBVIOUS
<1>1. PICK p \in puts :
         \/ q = p \/ q = [p EXCEPT !.from = "gone"] \/ q = [p EXCEPT !.same = FALSE]
         \/ \E state \in {"applying", "conflict", "failed", "applied"} :
              q = [p EXCEPT !.state = state]
         \/ ~Builds(p.doc) /\ q = [p EXCEPT !.state = "invalid"]
  OBVIOUS
<1>2. /\ q.doc = p.doc /\ q.exact = p.exact
      /\ q.state = "invalid" => p.state = "invalid" \/ ~Builds(p.doc)
  BY <1>1 DEF WritersInv, PutsOK, PutOK
<1>. QED  BY <1>2 DEF ComposeInv, PutComposes

LEMMA HubComposes ==
  ASSUME WritersInv, ComposeInv, HubStep
  PROVE  ComposeInv'
<1>1. session' = session
  BY DEF HubStep, BootReads, BootMigrates, BootBuilds, Stop, ReloadReads, ReloadSwaps,
         ApplyBuilds, ApplyRejects, ImportBuilds, ApplyPersists, ApplyConflicts,
         ApplyUnanswered, ApplySwaps, mcp
<1>2. \A q \in puts' : PutComposes(q)
  <2>1. CASE puts' = puts
    BY <2>1, PutsCompose
  <2>2. CASE Stop \/ ApplyConflicts \/ ApplyUnanswered \/ ApplySwaps
    BY <2>2, PutsCompose DEF Stop, ApplyConflicts, ApplyUnanswered, ApplySwaps, Answer
  <2>3. CASE \E p \in puts : ApplyBuilds(p) \/ ApplyRejects(p)
    BY <2>3, PutsCompose DEF ApplyBuilds, ApplyRejects
  <2>. QED  BY <2>1, <2>2, <2>3
            DEF HubStep, BootReads, BootMigrates, BootBuilds, ReloadReads, ReloadSwaps,
                ImportBuilds, ApplyPersists
<1>3. up' => Builds(live'.doc)
  <2>1. CASE UNCHANGED <<live, up>> \/ ~up'
    BY <2>1 DEF ComposeInv
  <2>2. CASE BootBuilds
    BY <2>2 DEF BootBuilds, ComposeInv
  <2>3. CASE ReloadSwaps
    <3>1. PICK b : /\ live' = IF Builds(b.doc) THEN [ver |-> b.ver, doc |-> b.doc] ELSE live
                   /\ up' = up
      BY <2>3 DEF ReloadSwaps
    <3>. QED  BY <3>1 DEF ComposeInv
  <2>4. CASE ApplySwaps
    <3>1. PICK b \in busy : b.kind = "swap" /\ live' = [ver |-> b.ver, doc |-> b.doc]
      BY <2>4 DEF ApplySwaps
    <3>2. Builds(b.doc)
      BY <3>1 DEF ComposeInv
    <3>. QED  BY <3>1, <3>2
  <2>. QED  BY <2>1, <2>2, <2>3, <2>4
            DEF HubStep, BootReads, BootMigrates, Stop, ReloadReads, ApplyBuilds,
                ApplyRejects, ImportBuilds, ApplyPersists, ApplyConflicts, ApplyUnanswered, hub
<1>4. \A b \in busy' : b.kind \in {"set", "swap"} => Builds(b.doc)
  <2>1. CASE \E p \in puts : ApplyBuilds(p)
    <3>1. PICK p \in puts : /\ Builds(p.doc)
                            /\ busy' = {Work("set", p.ver, WithNewIDs(p.doc, p.ver), p.names)}
      BY <2>1 DEF ApplyBuilds
    <3>2. Builds(WithNewIDs(p.doc, p.ver))
      BY <3>1, EditsKeepNames, SameNamesBuild
    <3>. QED  BY <3>1, <3>2 DEF Work
  <2>2. CASE \E n \in Names : ImportBuilds(n)
    <3>1. PICK n \in Names :
            /\ Builds(With(stored.doc, n))
            /\ busy' = {Work("set", stored.ver, WithNewIDs(With(stored.doc, n), stored.ver), {n})}
      BY <2>2 DEF ImportBuilds
    <3>2. Builds(WithNewIDs(With(stored.doc, n), stored.ver))
      BY <3>1, EditsKeepNames, SameNamesBuild
    <3>. QED  BY <3>1, <3>2 DEF Work
  <2>3. CASE ApplyPersists
    <3>1. PICK b \in busy :
            /\ b.kind = "set"
            /\ busy' = (busy \ {b}) \cup {[b EXCEPT !.kind = "swap", !.ver = stored'.ver]}
      BY <2>3 DEF ApplyPersists
    <3>2. b = Work(b.kind, b.ver, b.doc, b.names)
      BY DEF WritersInv, LockInv, HolderOK
    <3>3. PICK d : d = [b EXCEPT !.kind = "swap"]
      OBVIOUS
    <3>4. d = Work("swap", b.ver, b.doc, b.names)
      BY <3>2, <3>3 DEF Work
    <3>5. [d EXCEPT !.ver = stored'.ver].doc = b.doc
      BY <3>4 DEF Work
    <3>6. [b EXCEPT !.kind = "swap", !.ver = stored'.ver].doc = b.doc
      BY <3>3, <3>5
    <3>. QED  BY <3>1, <3>6 DEF ComposeInv
  <2>4. CASE BootMigrates
    <3>1. PICK b \in busy : b.kind = "migrate" /\ busy' = {[b EXCEPT !.kind = "boot"]}
      BY <2>4 DEF BootMigrates
    <3>2. [b EXCEPT !.kind = "boot"].kind = "boot"
      <4>1. b = Work(b.kind, b.ver, b.doc, b.names)
        BY DEF WritersInv, LockInv, HolderOK
      <4>. QED  BY <4>1 DEF Work
    <3>. QED  BY <3>1, <3>2
  <2>5. CASE HubStep /\ ~BootMigrates /\ ~ApplyPersists
             /\ ~(\E n \in Names : ImportBuilds(n)) /\ ~(\E p \in puts : ApplyBuilds(p))
    BY <2>5 DEF HubStep, BootReads, BootBuilds, Stop, ReloadReads, ReloadSwaps, ApplyRejects,
                ApplyConflicts, ApplyUnanswered, ApplySwaps, hub, Work, ComposeInv
  <2>. QED  BY <2>1, <2>2, <2>3, <2>4, <2>5
<1>. QED  BY <1>1, <1>2, <1>3, <1>4 DEF ComposeInv

LEMMA ClientsCompose ==
  ASSUME WritersInv, ComposeInv, ClientStep
  PROVE  ComposeInv'
<1>1. UNCHANGED <<live, up, busy, session>>
  BY DEF ClientStep, CommandReads, CommandWrites, loadCfgTree, saveDoc, saveDocAnswered,
         GiveUp, Forget, hub, mcp
<1>2. \A q \in puts' : PutComposes(q)
  <2>1. CASE puts' \subseteq puts
    BY <2>1 DEF ComposeInv
  <2>2. CASE \E p \in puts : GiveUp(p)
    BY <2>2, PutsCompose DEF GiveUp
  <2>3. CASE \E n \in Names : saveDoc(n)
    BY <2>3 DEF saveDoc, Send, ComposeInv, PutComposes
  <2>. QED  BY <2>1, <2>2, <2>3
            DEF ClientStep, CommandReads, CommandWrites, loadCfgTree, saveDocAnswered, Forget
<1>. QED  BY <1>1, <1>2 DEF ComposeInv

LEMMA StageComposes ==
  ASSUME WritersInv, ComposeInv, NEW d, Stage(d)
  PROVE  ComposeInv'
<1>. DEFINE work == WithNewIDs(d, session.ver)
<1>1. UNCHANGED <<live, up, busy>> /\ session.phase = "active"
  BY DEF Stage, hub
<1>2. \A q \in puts' : PutComposes(q)
  BY PutsCompose DEF Stage, Touch
<1>3. PICK names : session' = [session EXCEPT !.work = work, !.names = names]
  BY DEF Stage
<1>4. session = [phase |-> session.phase, ver |-> session.ver, work |-> session.work,
                 file |-> session.file, exact |-> session.exact, names |-> session.names]
  BY DEF WritersInv, CopiesOK
<1>. HIDE DEF work
<1>5. session'.work = work /\ session'.file = session.file /\ session'.exact = session.exact
  BY <1>3, <1>4
<1>6. session.exact => Builds(d)
  BY DEF Stage, ComposeInv, Builds
<1>7. session.exact => Builds(work)
  BY <1>6, EditsKeepNames, SameNamesBuild DEF work
<1>. QED  BY <1>1, <1>2, <1>5, <1>7 DEF ComposeInv

LEMMA SessionComposes ==
  ASSUME WritersInv, ComposeInv,
         \/ SessionEnds \/ ensureReads \/ ensureComposes \/ Discard \/ applyStaged
         \/ \E p \in puts : applyStagedAnswered(p)
  PROVE  ComposeInv'
<1>1. UNCHANGED <<live, up, busy>>
  BY DEF SessionEnds, ensureReads, ensureComposes, Discard, applyStaged, applyStagedAnswered, hub
<1>2. CASE SessionEnds
  BY <1>1, <1>2 DEF SessionEnds, ComposeInv
<1>3. CASE ensureReads
  <2>1. session'.exact = FALSE /\ puts' = puts
    BY <1>3 DEF ensureReads, NoSession
  <2>. QED  BY <1>1, <2>1 DEF ComposeInv
<1>4. CASE ensureComposes
  <2>1. PICK exact, file :
          /\ session' = [session EXCEPT !.phase = "active", !.exact = exact, !.file = file]
          /\ exact = (up /\ RunsVerbatim(session.work, Shown(live.doc)))
          /\ exact => file = (FileNames \cup DOMAIN live.doc) \ DOMAIN session.work
    BY <1>4 DEF ensureComposes
  <2>2. session = [phase |-> session.phase, ver |-> session.ver, work |-> session.work,
                   file |-> session.file, exact |-> session.exact, names |-> session.names]
    BY DEF WritersInv, CopiesOK
  <2>3. session'.work = session.work /\ session'.file = file /\ session'.exact = exact
    BY <2>1, <2>2
  <2>4. ASSUME exact PROVE Builds(session.work) /\ FileNames \subseteq file
    <3>1. DOMAIN Shown(live.doc) = DOMAIN live.doc
      BY EditsKeepNames DEF SameNames
    <3>2. DOMAIN session.work \subseteq DOMAIN live.doc
      BY <2>1, <2>4, <3>1 DEF RunsVerbatim
    <3>3. DOMAIN live.doc \cap FileNames = {}
      BY <2>1, <2>4 DEF ComposeInv, Builds
    <3>. QED  BY <2>1, <2>4, <3>2, <3>3 DEF Builds
  <2>. QED  BY <1>1, <1>4, <2>3, <2>4 DEF ensureComposes, ComposeInv
<1>5. CASE Discard
  <2>1. session'.exact = FALSE
    BY <1>5 DEF Discard, NoSession
  <2>2. \A q \in puts' : PutComposes(q)
    BY <1>5, PutsCompose DEF Discard, Touch
  <2>. QED  BY <1>1, <2>1, <2>2 DEF ComposeInv
<1>6. CASE applyStaged
  <2>1. PICK q :
          /\ puts' = puts \cup {q} /\ session' = session
          /\ q = [from |-> "mcp", ver |-> session.ver, doc |-> session.work,
                  names |-> session.names, exact |-> session.exact, intent |-> owed,
                  same |-> TRUE, state |-> "sent"]
    BY <1>6 DEF applyStaged, Send
  <2>2. q.doc = session.work /\ q.exact = session.exact /\ q.state = "sent"
    BY <2>1
  <2>. QED  BY <1>1, <2>1, <2>2 DEF ComposeInv, PutComposes
<1>7. ASSUME NEW p \in puts, applyStagedAnswered(p) PROVE ComposeInv'
  <2>1. puts' \subseteq puts /\ (session' = session \/ session'.exact = FALSE)
    BY <1>7 DEF applyStagedAnswered, resetIfUnchanged, NoSession
  <2>. QED  BY <1>1, <2>1 DEF ComposeInv
<1>. QED  BY <1>2, <1>3, <1>4, <1>5, <1>6, <1>7

LEMMA NextComposeInv == WritersInv /\ ComposeInv /\ [Next]_vars => ComposeInv'
<1>. SUFFICES ASSUME WritersInv, ComposeInv, [Next]_vars PROVE ComposeInv'
  OBVIOUS
<1>1. CASE HubStep
  BY <1>1, HubComposes
<1>2. CASE ClientStep
  BY <1>2, ClientsCompose
<1>3. CASE McpStep
  BY <1>3, StageComposes, SessionComposes DEF McpStep, StageAdd, StageRemove, StageReplace
<1>4. CASE UNCHANGED vars
  BY <1>4 DEF vars, hub, mcp, ComposeInv, PutComposes
<1>. QED  BY <1>1, <1>2, <1>3, <1>4 DEF Next

(* What a session validated against the hub's own file config the hub does *)
(* not refuse as invalid, whatever was stored, reloaded or restarted since.*)
THEOREM ExactSessionsAreAccepted == Spec => []ExactMeansAccepted
<1>1. ComposeInv => ExactMeansAccepted
  BY DEF ComposeInv, PutComposes, ExactMeansAccepted
<1>. QED  BY <1>1, InitWritersInv, NextWritersInv, InitComposeInv, NextComposeInv, PTL DEF Spec

-----------------------------------------------------------------------------
(* The second part: config documents as trees.  Induction is by the least  *)
(* counterexample.                                                         *)
LEMMA Induction ==
  ASSUME NEW K, 0 \in K, \A k \in Nat : k \in K => k + 1 \in K
  PROVE  \A k \in Nat : k \in K
<1> DEFINE T == {k \in Nat : k \notin K}
<1>1. ASSUME T # {} PROVE FALSE
  <2>1. PICK x \in T : \A y \in T : ~(<<y, x>> \in OpToRel(<, Nat))
    BY <1>1, NatLessThanWellFounded, WFMin
  <2>2. x \in Nat /\ x # 0
    OBVIOUS
  <2>3. x - 1 \in Nat /\ x - 1 < x /\ x = (x - 1) + 1
    BY <2>2
  <2>4. <<x - 1, x>> \in OpToRel(<, Nat)
    BY <2>2, <2>3 DEF OpToRel
  <2>5. x - 1 \in K
    BY <2>1, <2>3, <2>4
  <2>. QED  BY <2>3, <2>5
<1>. QED  BY <1>1

(* Settings as they are inherited along a path.                            *)
Inherit(t, root, p, g, i) ==
  IF i = 0 THEN root ELSE Overlay(g[i - 1], t[SubSeq(p, 1, i)])

UpTo(t, root, p) ==
  CHOOSE g : g = [i \in 0 .. Len(p) |-> IF i = 0 THEN root
                                        ELSE Overlay(g[i - 1], t[SubSeq(p, 1, i)])]

LEMMA InheritanceExists ==
  ASSUME NEW t, NEW root, NEW p, Len(p) \in Nat
  PROVE  /\ Effective(t, root, p) = UpTo(t, root, p)[Len(p)]
         /\ \A i \in 0 .. Len(p) : UpTo(t, root, p)[i] = Inherit(t, root, p, UpTo(t, root, p), i)
<1> DEFINE n == Len(p)
           Next1(g) == [i \in 0 .. n |-> Inherit(t, root, p, g, i)]
           Right(g, k) == \A i \in 0 .. n : i <= k => g[i] = Inherit(t, root, p, g, i)
           K == {k \in Nat : \E g : Right(g, k)}
<1>1. 0 \in K
  <2>1. Right(Next1(<<>>), 0)
    BY DEF Inherit
  <2>. QED  BY <2>1
<1>2. ASSUME NEW k \in Nat, k \in K PROVE k + 1 \in K
  <2>1. PICK g : Right(g, k)
    BY <1>2
  <2>2. PICK h : h = Next1(g)
    OBVIOUS
  <2>3. ASSUME NEW i \in 0 .. n, i <= k + 1
        PROVE  h[i] = Inherit(t, root, p, h, i)
    <3>1. h[i] = Inherit(t, root, p, g, i)
      BY <2>2
    <3>2. CASE i = 0
      BY <3>1, <3>2 DEF Inherit
    <3>3. CASE i # 0
      <4>1. i - 1 \in 0 .. n /\ i - 1 <= k
        BY <2>3, <3>3
      <4>2. g[i - 1] = Inherit(t, root, p, g, i - 1)
        BY <2>1, <4>1
      <4>3. h[i - 1] = g[i - 1]
        BY <2>2, <4>1, <4>2
      <4>. QED  BY <3>1, <3>3, <4>3 DEF Inherit
    <3>. QED  BY <3>2, <3>3
  <2>4. Right(h, k + 1)
    BY <2>3
  <2>. QED  BY <2>4
<1>3. n \in K
  <2>. HIDE DEF K
  <2>. QED  BY <1>1, <1>2, Induction
<1>4. PICK g : Right(g, n)
  BY <1>3
<1>5. PICK h : h = Next1(g)
  OBVIOUS
<1>6. \A i \in 0 .. n : h[i] = g[i]
  BY <1>4, <1>5
<1>7. ASSUME NEW i \in 0 .. n
      PROVE  Inherit(t, root, p, g, i) = Inherit(t, root, p, h, i)
  <2>1. CASE i = 0
    BY <2>1 DEF Inherit
  <2>2. CASE i # 0
    <3>1. i - 1 \in 0 .. n
      BY <2>2
    <3>. QED  BY <1>6, <2>2, <3>1 DEF Inherit
  <2>. QED  BY <2>1, <2>2
<1>8. h = Next1(h)
  BY <1>5, <1>7
<1>9. UpTo(t, root, p) = [i \in 0 .. n |-> IF i = 0 THEN root
                          ELSE Overlay(UpTo(t, root, p)[i - 1], t[SubSeq(p, 1, i)])]
  BY <1>8 DEF Inherit, UpTo
<1>10. Effective(t, root, p) = UpTo(t, root, p)[n]
  BY DEF Effective, UpTo
<1>. QED  BY <1>9, <1>10 DEF Inherit

(* What two nodes give their targets is the same.                          *)
SameOwn(m, n) == m.probe = n.probe /\ m.params = n.params /\ m.vantages = n.vantages

LEMMA InheritanceAgrees ==
  ASSUME NEW t, NEW u, NEW root, NEW p, Len(p) \in Nat,
         \A i \in 1 .. Len(p) : SameOwn(t[SubSeq(p, 1, i)], u[SubSeq(p, 1, i)])
  PROVE  Effective(t, root, p) = Effective(u, root, p)
<1> DEFINE n == Len(p)
           K == {k \in Nat : k <= n => UpTo(t, root, p)[k] = UpTo(u, root, p)[k]}
<1>1. \A i \in 0 .. n : /\ UpTo(t, root, p)[i] = Inherit(t, root, p, UpTo(t, root, p), i)
                        /\ UpTo(u, root, p)[i] = Inherit(u, root, p, UpTo(u, root, p), i)
  BY InheritanceExists
<1>2. 0 \in K
  BY <1>1 DEF Inherit
<1>3. ASSUME NEW k \in Nat, k \in K PROVE k + 1 \in K
  <2>1. ASSUME k + 1 <= n PROVE UpTo(t, root, p)[k + 1] = UpTo(u, root, p)[k + 1]
    <3>1. k + 1 \in 0 .. n /\ k + 1 # 0 /\ (k + 1) - 1 = k /\ k <= n /\ k + 1 \in 1 .. n
      BY <2>1
    <3>2. PICK g : g = UpTo(t, root, p)[k] /\ g = UpTo(u, root, p)[k]
      BY <1>3, <3>1
    <3>3. PICK a, b : a = t[SubSeq(p, 1, k + 1)] /\ b = u[SubSeq(p, 1, k + 1)] /\ SameOwn(a, b)
      BY <3>1
    <3>4. UpTo(t, root, p)[k + 1] = Overlay(g, a)
      <4>1. UpTo(t, root, p)[k + 1] = Inherit(t, root, p, UpTo(t, root, p), k + 1)
        BY <1>1, <3>1
      <4>. QED  BY <3>1, <3>2, <3>3, <4>1 DEF Inherit
    <3>5. UpTo(u, root, p)[k + 1] = Overlay(g, b)
      <4>1. UpTo(u, root, p)[k + 1] = Inherit(u, root, p, UpTo(u, root, p), k + 1)
        BY <1>1, <3>1
      <4>. QED  BY <3>1, <3>2, <3>3, <4>1 DEF Inherit
    <3>6. Overlay(g, a) = Overlay(g, b)
      BY <3>3 DEF Overlay, SameOwn
    <3>. QED  BY <3>4, <3>5, <3>6
  <2>. QED  BY <2>1
<1>4. n \in K
  <2>. HIDE DEF K
  <2>. QED  BY <1>2, <1>3, Induction
<1>. QED  BY <1>4, InheritanceExists

(* A behaviour examines one input.                                         *)
LEMMA ExaminesOne == SpecDocuments => [](input \in Inputs)
<1>1. input \in Inputs /\ [FALSE]_input => (input \in Inputs)'
  OBVIOUS
<1>. QED  BY <1>1, PTL DEF SpecDocuments, InitDocuments

(* Paths and trees.                                                        *)
LEMMA WholePath ==
  ASSUME NEW p \in Seq(Keys)
  PROVE  SubSeq(p, 1, Len(p)) = p
OBVIOUS

LEMMA OnThePath ==
  ASSUME NEW t, IsTree(t), NEW p \in DOMAIN t
  PROVE  /\ p \in Seq(Keys) /\ Len(p) \in Nat /\ Len(p) # 0
         /\ \A i \in 1 .. Len(p) : SubSeq(p, 1, i) \in DOMAIN t
<1>1. p \in Seq(Keys) /\ p # <<>> /\ Chain(p) \subseteq DOMAIN t
  BY DEF IsTree
<1>2. Len(p) \in Nat /\ Len(p) # 0
  BY <1>1
<1>3. \A i \in 1 .. Len(p) : SubSeq(p, 1, i) \in Chain(p)
  BY Zenon DEF Chain
<1>. QED  BY <1>1, <1>2, <1>3

(* A summary without entries.                                              *)
LEMMA NothingToSay ==
  ASSUME NEW b, NEW w, IsTree(b), IsTree(w)
  PROVE  SaysNothing(diffDocs(b, w)) <=> b = w
<1> DEFINE Targets == Hosts(b) \cap Hosts(w)
           GB == DOMAIN b \ Hosts(b)
           GW == DOMAIN w \ Hosts(w)
<1>1. SaysNothing(diffDocs(b, w)) <=>
        /\ Hosts(w) \ Hosts(b) = {} /\ Hosts(b) \ Hosts(w) = {}
        /\ {p \in Targets : inheritedSettings(b, p) # inheritedSettings(w, p)} = {}
        /\ GW \ GB = {} /\ GB \ GW = {} /\ {p \in GB \cap GW : b[p] # w[p]} = {}
  <2>. DEFINE Changed == {p \in Targets : inheritedSettings(b, p) # inheritedSettings(w, p)}
              GC == {p \in GB \cap GW : b[p] # w[p]}
  <2>1. PICK cs : /\ cs = diffDocs(b, w)
                  /\ cs = [Added |-> Hosts(w) \ Hosts(b), Removed |-> Hosts(b) \ Hosts(w),
                           Changed |-> Changed, GroupsAdded |-> GW \ GB,
                           GroupsRemoved |-> GB \ GW, GroupsChanged |-> GC]
    BY DEF diffDocs
  <2>2. /\ DOMAIN cs = {"Added", "Removed", "Changed", "GroupsAdded", "GroupsRemoved",
                         "GroupsChanged"}
        /\ cs["Added"] = Hosts(w) \ Hosts(b) /\ cs["Removed"] = Hosts(b) \ Hosts(w)
        /\ cs["Changed"] = Changed /\ cs["GroupsAdded"] = GW \ GB
        /\ cs["GroupsRemoved"] = GB \ GW /\ cs["GroupsChanged"] = GC
    <3>. HIDE DEF Changed, GC, GB, GW
    <3>. QED  BY <2>1
  <2>3. SaysNothing(cs) <=> /\ cs["Added"] = {} /\ cs["Removed"] = {} /\ cs["Changed"] = {}
                            /\ cs["GroupsAdded"] = {} /\ cs["GroupsRemoved"] = {}
                            /\ cs["GroupsChanged"] = {}
    BY <2>2, Zenon DEF SaysNothing
  <2>. QED  BY <2>1, <2>2, <2>3, Zenon
<1>2. ASSUME SaysNothing(diffDocs(b, w)) PROVE b = w
  <2>1. Hosts(b) = Hosts(w) /\ Hosts(b) \subseteq DOMAIN b /\ Hosts(w) \subseteq DOMAIN w
    BY <1>1, <1>2 DEF Hosts
  <2>2. GB = GW
    <3>. HIDE DEF GB, GW
    <3>. QED  BY <1>1, <1>2
  <2>3. DOMAIN b = DOMAIN w
    BY <2>1, <2>2
  <2>4. ASSUME NEW p \in DOMAIN b PROVE b[p] = w[p]
    <3>1. CASE p \in Hosts(b)
      <4>1. inheritedSettings(b, p) = inheritedSettings(w, p)
        BY <1>1, <1>2, <2>1, <3>1
      <4>2. p \in Seq(Keys) /\ Len(p) \in 1 .. Len(p)
        BY OnThePath
      <4>3. inheritedSettings(b, p)[Len(p)] = b[p] /\ inheritedSettings(w, p)[Len(p)] = w[p]
        BY <4>2, WholePath DEF inheritedSettings
      <4>. QED  BY <4>1, <4>3
    <3>2. CASE p \notin Hosts(b)
      BY <1>1, <1>2, <2>2, <3>2
    <3>. QED  BY <3>1, <3>2
  <2>5. b = [p \in DOMAIN b |-> b[p]] /\ w = [p \in DOMAIN w |-> w[p]]
    BY DEF IsTree
  <2>. QED  BY <2>3, <2>4, <2>5
<1>3. ASSUME b = w PROVE SaysNothing(diffDocs(b, w))
  BY <1>1, <1>3
<1>. QED  BY <1>2, <1>3

(* What a target's monitor is made of is what its own path says.           *)
LEMMA ChangesAreTold ==
  ASSUME NEW b, NEW w, IsTree(b), IsTree(w), NEW root,
         NEW p \in Hosts(b) \cap Hosts(w), inheritedSettings(b, p) = inheritedSettings(w, p)
  PROVE  Monitors(b, root)[p] = Monitors(w, root)[p]
<1>1. p \in DOMAIN b /\ p \in DOMAIN w
  BY DEF Hosts
<1>2. p \in Seq(Keys) /\ Len(p) \in Nat /\ Len(p) \in 1 .. Len(p)
  BY <1>1, OnThePath
<1>3. \A i \in 1 .. Len(p) : b[SubSeq(p, 1, i)] = w[SubSeq(p, 1, i)]
  <2>. TAKE i \in 1 .. Len(p)
  <2>1. inheritedSettings(b, p)[i] = inheritedSettings(w, p)[i]
    OBVIOUS
  <2>. QED  BY <2>1 DEF inheritedSettings
<1>4. b[p] = w[p]
  BY <1>2, <1>3, WholePath
<1>5. Effective(b, root, p) = Effective(w, root, p)
  <2>1. \A i \in 1 .. Len(p) : SameOwn(b[SubSeq(p, 1, i)], w[SubSeq(p, 1, i)])
    BY <1>3 DEF SameOwn
  <2>. QED  BY <1>2, <2>1, InheritanceAgrees
<1>. QED  BY <1>4, <1>5 DEF Monitors

(* The summary of a session, for every two trees and tree-wide defaults:   *)
(* nothing a target measures by changes untold (diffDocs, and the          *)
(* inheritedSettings it compares instead of a target's own).               *)
THEOREM SummariesTellAll == SpecDocuments => []DiffTellsAll
<1>1. ASSUME input \in Inputs PROVE DiffTellsAll
  <2>. SUFFICES ASSUME input.kind = "diff" PROVE DiffTellsAll
    BY DEF DiffTellsAll
  <2>1. PICK b, w : b = input.t /\ w = input.u /\ IsTree(b) /\ IsTree(w)
    BY <1>1, DocumentAssumption
  <2>2. ASSUME NEW p \in DOMAIN Monitors(b, Root) \cap DOMAIN Monitors(w, Root),
               Monitors(b, Root)[p] # Monitors(w, Root)[p]
        PROVE  p \in diffDocs(b, w).Changed
    <3>1. p \in Hosts(b) \cap Hosts(w)
      BY DEF Monitors
    <3>2. inheritedSettings(b, p) # inheritedSettings(w, p)
      BY <2>1, <2>2, <3>1, ChangesAreTold
    <3>. QED  BY <3>1, <3>2 DEF diffDocs
  <2>3. SaysNothing(diffDocs(b, w)) <=> b = w
    BY <2>1, NothingToSay
  <2>. QED  BY <2>1, <2>2, <2>3 DEF DiffTellsAll
<1>2. SpecDocuments => [](input \in Inputs)
  BY ExaminesOne
<1>. QED  BY <1>1, <1>2, PTL

-----------------------------------------------------------------------------
(* Edits.  First paths, their prefixes and what replaces one.              *)
Paths == Seq(Keys)

LEMMA PrefixIs ==
  ASSUME NEW s \in Paths, NEW t \in Paths
  PROVE  IsPrefix(s, t) <=> Len(s) <= Len(t) /\ \A i \in 1 .. Len(s) : s[i] = t[i]
<1>1. Len(s) \in Nat /\ Len(t) \in Nat
  BY DEF Paths
<1>2. SubSeq(s, 1, Len(s)) = s
  BY SubSeqFull DEF Paths
<1>3. CASE Len(s) <= Len(t)
  <2>1. \A i \in 1 .. Len(s) : t[i] \in Keys
    BY <1>1, <1>3 DEF Paths
  <2>2. PICK u \in Paths : /\ u = SubSeq(t, 1, Len(s)) /\ Len(u) = Len(s)
                           /\ \A i \in 1 .. Len(s) : u[i] = t[i]
    <3>1. /\ SubSeq(t, 1, Len(s)) \in Paths
          /\ Len(SubSeq(t, 1, Len(s))) = IF 1 <= Len(s) THEN Len(s) - 1 + 1 ELSE 0
          /\ \A i \in 1 .. Len(s) - 1 + 1 : SubSeq(t, 1, Len(s))[i] = t[1 + i - 1]
      BY <1>1, <2>1, SubSeqProperties DEF Paths
    <3>2. Len(s) - 1 + 1 = Len(s) /\ \A i \in 1 .. Len(s) : 1 + i - 1 = i
      BY <1>1
    <3>3. Len(SubSeq(t, 1, Len(s))) = Len(s)
      BY <1>1, <3>1
    <3>4. ASSUME NEW i \in 1 .. Len(s) PROVE SubSeq(t, 1, Len(s))[i] = t[i]
      <4>1. i \in 1 .. Len(s) - 1 + 1 /\ 1 + i - 1 = i
        BY <3>2
      <4>. QED  BY <3>1, <4>1
    <3>. QED  BY <3>1, <3>3, <3>4, Zenon
  <2>3. s = u <=> \A i \in 1 .. Len(s) : s[i] = u[i]
    BY <2>2, SeqEqual DEF Paths
  <2>4. IsPrefix(s, t) <=> s = u
    BY <1>2, <1>3, <2>2 DEF IsPrefix
  <2>. QED  BY <1>3, <2>2, <2>3, <2>4
<1>4. CASE ~(Len(s) <= Len(t))
  BY <1>4 DEF IsPrefix
<1>. QED  BY <1>3, <1>4

LEMMA ChainIs ==
  ASSUME NEW p \in Paths
  PROVE  /\ \A c \in Chain(p) : c \in Paths /\ c # <<>> /\ IsPrefix(c, p)
         /\ \A c \in Paths : c # <<>> /\ IsPrefix(c, p) => c \in Chain(p)
<1>1. PICK n \in Nat : n = Len(p)
  BY DEF Paths
<1>2. ASSUME NEW i \in 1 .. n
      PROVE  /\ SubSeq(p, 1, i) \in Paths /\ Len(SubSeq(p, 1, i)) = i
             /\ \A j \in 1 .. i : SubSeq(p, 1, i)[j] = p[j]
  <2>1. \A j \in 1 .. i : p[j] \in Keys
    BY <1>1 DEF Paths
  <2>2. /\ SubSeq(p, 1, i) \in Paths
        /\ Len(SubSeq(p, 1, i)) = IF 1 <= i THEN i - 1 + 1 ELSE 0
        /\ \A j \in 1 .. i - 1 + 1 : SubSeq(p, 1, i)[j] = p[1 + j - 1]
    BY <2>1, SubSeqProperties DEF Paths
  <2>3. i - 1 + 1 = i /\ \A j \in 1 .. i : 1 + j - 1 = j
    OBVIOUS
  <2>. QED  BY <2>2, <2>3
<1>3. ASSUME NEW c \in Chain(p) PROVE c \in Paths /\ c # <<>> /\ IsPrefix(c, p)
  <2>1. PICK i \in 1 .. n : c = SubSeq(p, 1, i)
    BY <1>1 DEF Chain
  <2>2. c \in Paths /\ Len(c) = i /\ \A j \in 1 .. i : c[j] = p[j]
    BY <1>2, <2>1
  <2>3. IsPrefix(c, p)
    BY <1>1, <2>2, PrefixIs
  <2>. QED  BY <2>2, <2>3 DEF Paths
<1>4. ASSUME NEW c \in Paths, c # <<>>, IsPrefix(c, p) PROVE c \in Chain(p)
  <2>1. PICK i \in Nat : i = Len(c) /\ i # 0
    BY <1>4, EmptySeq DEF Paths
  <2>2. i <= n /\ \A j \in 1 .. i : c[j] = p[j]
    BY <1>1, <1>4, <2>1, PrefixIs
  <2>3. PICK d \in Paths : d = SubSeq(p, 1, i) /\ Len(d) = i /\ \A j \in 1 .. i : d[j] = p[j]
    <3>1. i \in 1 .. n
      BY <2>1, <2>2
    <3>2. /\ SubSeq(p, 1, i) \in Paths /\ Len(SubSeq(p, 1, i)) = i
          /\ \A j \in 1 .. i : SubSeq(p, 1, i)[j] = p[j]
      BY <1>2, <3>1
    <3>. QED  BY <3>2, Zenon
  <2>4. c = d
    BY <2>1, <2>2, <2>3, SeqEqual DEF Paths
  <2>. QED  BY <1>1, <2>1, <2>2, <2>3, <2>4 DEF Chain
<1>. QED  BY <1>3, <1>4

LEMMA PrefixOrder ==
  /\ \A p \in Paths : IsPrefix(p, p)
  /\ \A a, b, c \in Paths : IsPrefix(a, b) /\ IsPrefix(b, c) => IsPrefix(a, c)
  /\ \A a, b, c \in Paths : IsPrefix(a, c) /\ IsPrefix(b, c) /\ Len(a) <= Len(b) => IsPrefix(a, b)
  /\ \A a, b \in Paths : IsPrefix(a, b) /\ Len(b) <= Len(a) => a = b
<1>0. \A p \in Paths : Len(p) \in Nat
  BY DEF Paths
<1>1. ASSUME NEW p \in Paths PROVE IsPrefix(p, p)
  BY <1>0, PrefixIs
<1>2. ASSUME NEW a \in Paths, NEW b \in Paths, NEW c \in Paths, IsPrefix(a, b), IsPrefix(b, c)
      PROVE  IsPrefix(a, c)
  <2>1. /\ Len(a) <= Len(b) /\ \A i \in 1 .. Len(a) : a[i] = b[i]
        /\ Len(b) <= Len(c) /\ \A i \in 1 .. Len(b) : b[i] = c[i]
    BY <1>2, PrefixIs
  <2>2. \A i \in 1 .. Len(a) : i \in 1 .. Len(b)
    BY <1>0, <2>1
  <2>3. Len(a) <= Len(c) /\ \A i \in 1 .. Len(a) : a[i] = c[i]
    BY <1>0, <2>1, <2>2
  <2>. QED  BY <2>3, PrefixIs
<1>3. ASSUME NEW a \in Paths, NEW b \in Paths, NEW c \in Paths, IsPrefix(a, c), IsPrefix(b, c),
             Len(a) <= Len(b)
      PROVE  IsPrefix(a, b)
  <2>1. /\ Len(a) <= Len(c) /\ \A i \in 1 .. Len(a) : a[i] = c[i]
        /\ Len(b) <= Len(c) /\ \A i \in 1 .. Len(b) : b[i] = c[i]
    BY <1>3, PrefixIs
  <2>2. \A i \in 1 .. Len(a) : i \in 1 .. Len(b)
    BY <1>0, <1>3
  <2>3. \A i \in 1 .. Len(a) : a[i] = b[i]
    BY <2>1, <2>2
  <2>. QED  BY <1>3, <2>3, PrefixIs
<1>4. ASSUME NEW a \in Paths, NEW b \in Paths, IsPrefix(a, b), Len(b) <= Len(a) PROVE a = b
  <2>1. Len(a) <= Len(b) /\ \A i \in 1 .. Len(a) : a[i] = b[i]
    BY <1>4, PrefixIs
  <2>2. Len(a) = Len(b)
    BY <1>0, <1>4, <2>1
  <2>. QED  BY <2>1, <2>2, SeqEqual DEF Paths
<1>. QED  BY <1>1, <1>2, <1>3, <1>4

(* The prefix p of a path replaced by d.                                   *)
Rebased(p, d, r) == d \o SubSeq(r, Len(p) + 1, Len(r))

LEMMA RebasedIs ==
  ASSUME NEW p \in Paths, NEW d \in Paths, NEW r \in Paths, Len(p) <= Len(r)
  PROVE  /\ Rebased(p, d, r) \in Paths
         /\ Len(Rebased(p, d, r)) = Len(d) + (Len(r) - Len(p))
         /\ \A i \in 1 .. Len(d) : Rebased(p, d, r)[i] = d[i]
         /\ \A i \in 1 .. Len(r) - Len(p) : Rebased(p, d, r)[Len(d) + i] = r[Len(p) + i]
         /\ IsPrefix(d, Rebased(p, d, r))
<1>1. PICK a \in Nat, b \in Nat, c \in Nat : a = Len(p) /\ b = Len(d) /\ c = Len(r) /\ a <= c
  BY DEF Paths
<1>2. PICK n \in Nat : n = c - a
  BY <1>1
<1>3. PICK s \in Paths : /\ s = SubSeq(r, Len(p) + 1, Len(r)) /\ Len(s) = n
                         /\ \A i \in 1 .. n : s[i] = r[a + i]
  <2>1. \A i \in a + 1 .. c : r[i] \in Keys
    <3>1. \A i \in a + 1 .. c : i \in 1 .. c
      BY <1>1
    <3>. QED  BY <1>1, <3>1 DEF Paths
  <2>2. /\ SubSeq(r, a + 1, c) \in Paths
        /\ Len(SubSeq(r, a + 1, c)) = IF a + 1 <= c THEN c - (a + 1) + 1 ELSE 0
        /\ \A i \in 1 .. c - (a + 1) + 1 : SubSeq(r, a + 1, c)[i] = r[a + 1 + i - 1]
    BY <1>1, <2>1, SubSeqProperties DEF Paths
  <2>3. c - (a + 1) + 1 = n /\ (IF a + 1 <= c THEN n ELSE 0) = n
        /\ \A i \in 1 .. n : a + 1 + i - 1 = a + i
    BY <1>1, <1>2
  <2>4. Len(SubSeq(r, a + 1, c)) = n /\ \A i \in 1 .. n : SubSeq(r, a + 1, c)[i] = r[a + i]
    BY <2>2, <2>3
  <2>. QED  BY <1>1, <2>2, <2>4
<1>4. PICK e \in Paths : /\ e = Rebased(p, d, r) /\ Len(e) = b + n
                         /\ \A i \in 1 .. b + n : e[i] = IF i <= b THEN d[i] ELSE s[i - b]
  <2>1. /\ d \o s \in Paths /\ Len(d \o s) = Len(d) + Len(s)
        /\ \A i \in 1 .. Len(d) + Len(s) : (d \o s)[i] = IF i <= Len(d) THEN d[i] ELSE s[i - Len(d)]
    BY ConcatProperties DEF Paths
  <2>. QED  BY <1>1, <1>3, <2>1 DEF Rebased
<1>5. \A i \in 1 .. b : e[i] = d[i]
  BY <1>4
<1>6. ASSUME NEW i \in 1 .. n PROVE e[b + i] = r[a + i]
  <2>1. b + i \in 1 .. b + n /\ ~(b + i <= b) /\ (b + i) - b = i
    OBVIOUS
  <2>2. e[b + i] = s[i]
    BY <1>4, <2>1
  <2>. QED  BY <1>3, <2>2
<1>7. IsPrefix(d, e)
  BY <1>1, <1>4, <1>5, PrefixIs
<1>. QED  BY <1>1, <1>2, <1>4, <1>5, <1>6, <1>7

LEMMA RebasedBack ==
  ASSUME NEW p \in Paths, NEW d \in Paths, NEW r \in Paths, IsPrefix(p, r)
  PROVE  Rebased(d, p, Rebased(p, d, r)) = r
<1>1. PICK a \in Nat, b \in Nat, c \in Nat :
        /\ a = Len(p) /\ b = Len(d) /\ c = Len(r) /\ a <= c /\ \A i \in 1 .. a : p[i] = r[i]
  <2>1. Len(p) \in Nat /\ Len(d) \in Nat /\ Len(r) \in Nat
    BY DEF Paths
  <2>. QED  BY <2>1, PrefixIs
<1>2. PICK e \in Paths : /\ e = Rebased(p, d, r) /\ Len(e) = b + (c - a)
                         /\ \A i \in 1 .. c - a : e[b + i] = r[a + i]
  <2>1. /\ Rebased(p, d, r) \in Paths
        /\ Len(Rebased(p, d, r)) = Len(d) + (Len(r) - Len(p))
        /\ \A i \in 1 .. Len(r) - Len(p) : Rebased(p, d, r)[Len(d) + i] = r[Len(p) + i]
    BY <1>1, RebasedIs
  <2>. QED  BY <1>1, <2>1, Zenon
<1>3. PICK f \in Paths : /\ f = Rebased(d, p, e) /\ Len(f) = a + (Len(e) - b)
                         /\ \A i \in 1 .. a : f[i] = p[i]
                         /\ \A i \in 1 .. Len(e) - b : f[a + i] = e[b + i]
  <2>1. Len(d) <= Len(e)
    BY <1>1, <1>2
  <2>2. /\ Rebased(d, p, e) \in Paths
        /\ Len(Rebased(d, p, e)) = Len(p) + (Len(e) - Len(d))
        /\ \A i \in 1 .. Len(p) : Rebased(d, p, e)[i] = p[i]
        /\ \A i \in 1 .. Len(e) - Len(d) : Rebased(d, p, e)[Len(p) + i] = e[Len(d) + i]
    BY <2>1, RebasedIs
  <2>. QED  BY <1>1, <2>2, Zenon
<1>4. Len(f) = c /\ Len(e) - b = c - a
  BY <1>1, <1>2, <1>3
<1>5. ASSUME NEW i \in 1 .. c PROVE f[i] = r[i]
  <2>1. CASE i <= a
    <3>1. i \in 1 .. a
      BY <2>1
    <3>. QED  BY <1>1, <1>3, <3>1
  <2>2. CASE ~(i <= a)
    <3>1. i - a \in 1 .. c - a /\ a + (i - a) = i
      BY <1>1, <2>2
    <3>. QED  BY <1>2, <1>3, <1>4, <3>1
  <2>. QED  BY <2>1, <2>2
<1>. QED  BY <1>1, <1>2, <1>3, <1>4, <1>5, SeqEqual DEF Paths

LEMMA RebasedPrefix ==
  ASSUME NEW p \in Paths, NEW d \in Paths, NEW r \in Paths, NEW c \in Paths,
         IsPrefix(p, r), IsPrefix(d, c), IsPrefix(c, Rebased(p, d, r))
  PROVE  \E s \in Paths : IsPrefix(p, s) /\ IsPrefix(s, r) /\ c = Rebased(p, d, s)
<1>1. /\ Len(p) \in Nat /\ Len(d) \in Nat /\ Len(r) \in Nat /\ Len(c) \in Nat
      /\ Len(p) <= Len(r) /\ Len(d) <= Len(c) /\ \A i \in 1 .. Len(p) : p[i] = r[i]
  <2>1. /\ Len(p) <= Len(r) /\ \A i \in 1 .. Len(p) : p[i] = r[i]
        /\ Len(d) <= Len(c)
    BY PrefixIs
  <2>. QED  BY <2>1 DEF Paths
<1>2. PICK a \in Nat, b \in Nat, n \in Nat, l \in Nat :
        a = Len(p) /\ b = Len(d) /\ Len(c) = b + n /\ Len(r) = a + l
  <2>1. Len(c) - Len(d) \in Nat /\ Len(c) = Len(d) + (Len(c) - Len(d))
        /\ Len(r) - Len(p) \in Nat /\ Len(r) = Len(p) + (Len(r) - Len(p))
    BY <1>1
  <2>. QED  BY <1>1, <2>1, Zenon
<1>3. PICK q \in Paths : /\ q = Rebased(p, d, r) /\ Len(q) = b + l
                         /\ \A i \in 1 .. l : q[b + i] = r[a + i]
  <2>1. /\ Rebased(p, d, r) \in Paths
        /\ Len(Rebased(p, d, r)) = Len(d) + (Len(r) - Len(p))
        /\ \A i \in 1 .. Len(r) - Len(p) : Rebased(p, d, r)[Len(d) + i] = r[Len(p) + i]
    BY <1>1, RebasedIs
  <2>2. Len(r) - Len(p) = l
    BY <1>2
  <2>. QED  BY <1>2, <2>1, <2>2, Zenon
<1>4. PICK s \in Paths : /\ s = Rebased(d, p, c) /\ Len(s) = a + n
                         /\ IsPrefix(p, s) /\ \A i \in 1 .. n : s[a + i] = c[b + i]
  <2>1. /\ Rebased(d, p, c) \in Paths /\ IsPrefix(p, Rebased(d, p, c))
        /\ Len(Rebased(d, p, c)) = Len(p) + (Len(c) - Len(d))
        /\ \A i \in 1 .. Len(c) - Len(d) : Rebased(d, p, c)[Len(p) + i] = c[Len(d) + i]
    BY <1>1, RebasedIs
  <2>2. Len(c) - Len(d) = n
    BY <1>2
  <2>. QED  BY <1>2, <2>1, <2>2, Zenon
<1>5. c = Rebased(p, d, s)
  BY <1>4, RebasedBack
<1>6. Len(c) <= Len(q) /\ \A i \in 1 .. Len(c) : c[i] = q[i]
  BY <1>3, PrefixIs
<1>7. n <= l
  BY <1>2, <1>3, <1>6
<1>8. ASSUME NEW i \in 1 .. a + n PROVE s[i] = r[i]
  <2>1. CASE i <= a
    <3>1. i \in 1 .. a
      BY <2>1
    <3>2. s[i] = p[i] /\ p[i] = r[i]
      BY <1>1, <1>2, <1>4, <3>1, PrefixIs
    <3>. QED  BY <3>2
  <2>2. CASE ~(i <= a)
    <3>1. PICK j \in 1 .. n : i = a + j
      <4>1. i - a \in 1 .. n /\ i = a + (i - a)
        BY <2>2
      <4>. QED  BY <4>1
    <3>2. j \in 1 .. l /\ b + j \in 1 .. b + n
      BY <1>7
    <3>3. s[a + j] = c[b + j] /\ c[b + j] = q[b + j] /\ q[b + j] = r[a + j]
      BY <1>2, <1>3, <1>4, <1>6, <3>2
    <3>. QED  BY <3>1, <3>3
  <2>. QED  BY <2>1, <2>2
<1>9. IsPrefix(s, r)
  <2>1. Len(s) <= Len(r) /\ \A i \in 1 .. Len(s) : s[i] = r[i]
    BY <1>2, <1>4, <1>7, <1>8
  <2>. QED  BY <2>1, PrefixIs
<1>. QED  BY <1>4, <1>5, <1>9

(* Trees without their settings: whatever is above a node is there.        *)
Closed(g) ==
  \A q \in DOMAIN g :
    /\ q \in Paths /\ q # <<>>
    /\ \A c \in Paths : c # <<>> /\ IsPrefix(c, q) => c \in DOMAIN g

LEMMA ClosedChains ==
  ASSUME NEW g, Closed(g)
  PROVE  \A p \in DOMAIN g : Chain(p) \subseteq DOMAIN g
<1>. TAKE p \in DOMAIN g
<1>1. p \in Paths /\ \A c \in Paths : c # <<>> /\ IsPrefix(c, p) => c \in DOMAIN g
  BY DEF Closed
<1>. QED  BY <1>1, ChainIs

LEMMA TreeIsClosed ==
  ASSUME NEW t, IsTree(t)
  PROVE  Closed(t)
<1>. SUFFICES ASSUME NEW q \in DOMAIN t
              PROVE  /\ q \in Paths /\ q # <<>>
                     /\ \A c \in Paths : c # <<>> /\ IsPrefix(c, q) => c \in DOMAIN t
  BY DEF Closed
<1>1. q \in Paths /\ q # <<>> /\ Chain(q) \subseteq DOMAIN t
  BY DEF IsTree, Paths
<1>. QED  BY <1>1, ChainIs

(* What a path becomes when the subtree at p is attached at d instead.     *)
Moved(p, d, q) == IF IsPrefix(p, q) THEN Rebased(p, d, q) ELSE q

LEMMA AppendIs ==
  ASSUME NEW to \in Paths, NEW k \in Keys
  PROVE  /\ Append(to, k) \in Paths /\ Append(to, k) # <<>>
         /\ Len(Append(to, k)) = Len(to) + 1 /\ Len(to) \in Nat
         /\ IsPrefix(to, Append(to, k)) /\ Front(Append(to, k)) = to
<1>1. PICK n \in Nat : n = Len(to)
  BY DEF Paths
<1>2. PICK d \in Paths : /\ d = Append(to, k) /\ Len(d) = n + 1 /\ d[n + 1] = k
                         /\ \A i \in 1 .. n : d[i] = to[i]
  <2>1. /\ Append(to, k) \in Paths /\ Len(Append(to, k)) = n + 1 /\ Append(to, k)[n + 1] = k
        /\ \A i \in 1 .. n : Append(to, k)[i] = to[i]
    BY <1>1 DEF Paths
  <2>. QED  BY <2>1, Zenon
<1>3. IsPrefix(to, d)
  <2>1. Len(to) <= Len(d) /\ \A i \in 1 .. Len(to) : to[i] = d[i]
    BY <1>1, <1>2
  <2>. QED  BY <2>1, PrefixIs
<1>4. Front(d) = to
  <2>1. Front(d) = SubSeq(d, 1, n)
    BY <1>2 DEF Front
  <2>2. SubSeq(to, 1, n) = to
    BY <1>1, SubSeqFull DEF Paths
  <2>3. SubSeq(to, 1, Len(to)) = SubSeq(d, 1, Len(to))
    BY <1>3 DEF IsPrefix
  <2>. QED  BY <1>1, <2>1, <2>2, <2>3
<1>5. d # <<>>
  BY <1>2
<1>. QED  BY <1>1, <1>2, <1>3, <1>4, <1>5

(* m has what g has, at the paths it has moved to.                         *)
MovesAll(m, g, p, dst) ==
  /\ DOMAIN m = {Moved(p, dst, q) : q \in DOMAIN g}
  /\ \A q \in DOMAIN g : m[Moved(p, dst, q)] = g[q]
  /\ \A q, r \in DOMAIN g : Moved(p, dst, q) = Moved(p, dst, r) => q = r
  /\ Closed(m)

LEMMA MoveIs ==
  ASSUME NEW g, Closed(g), NEW p \in DOMAIN g, NEW to \in Paths, NEW k \in Keys,
         NEW dst, dst = Append(to, k), ~IsPrefix(p, to), Chain(to) \subseteq DOMAIN g,
         dst \in DOMAIN g => dst = p
  PROVE  MovesAll(Move(g, p, dst), g, p, dst)
<1> DEFINE U == Under(g, p)
           rest == Restricted(g, DOMAIN g \ U)
           moved == [q \in {Rebased(p, dst, r) : r \in U} |-> g[Rebased(dst, p, q)]]
           m == Joined(moved, rest)
<1>1. /\ p \in Paths /\ p # <<>> /\ dst \in Paths /\ dst # <<>> /\ Front(dst) = to
      /\ Len(dst) = Len(to) + 1 /\ Len(to) \in Nat /\ IsPrefix(to, dst)
  BY AppendIs DEF Closed
<1>2. Move(g, p, dst) = m
  BY <1>1 DEF Move, Rebased
<1>3. \A q : q \in U <=> q \in DOMAIN g /\ IsPrefix(p, q)
  BY DEF Under
<1>4. \A q \in DOMAIN g : q \in Paths /\ q # <<>>
  BY DEF Closed
<1>5. ASSUME NEW r \in U
      PROVE  /\ Rebased(p, dst, r) \in Paths /\ IsPrefix(dst, Rebased(p, dst, r))
             /\ Rebased(dst, p, Rebased(p, dst, r)) = r
  <2>1. r \in Paths /\ IsPrefix(p, r) /\ Len(p) <= Len(r)
    BY <1>1, <1>3, <1>4, PrefixIs
  <2>. QED  BY <1>1, <2>1, RebasedIs, RebasedBack
<1>6. ASSUME NEW q \in DOMAIN g, IsPrefix(dst, q) PROVE q \in U
  <2>1. dst \in DOMAIN g
    BY <1>1, <1>6 DEF Closed
  <2>. QED  BY <1>3, <1>6, <2>1
<1>7. DOMAIN rest = DOMAIN g \ U /\ \A q \in DOMAIN g \ U : rest[q] = g[q]
  BY DEF Restricted
<1>8. /\ DOMAIN moved = {Rebased(p, dst, r) : r \in U}
      /\ \A r \in U : moved[Rebased(p, dst, r)] = g[r]
  <2>1. \A q \in {Rebased(p, dst, r) : r \in U} : moved[q] = g[Rebased(dst, p, q)]
    OBVIOUS
  <2>2. \A r \in U : moved[Rebased(p, dst, r)] = g[Rebased(dst, p, Rebased(p, dst, r))]
    BY <2>1
  <2>. QED  BY <1>5, <2>2
<1>9. \A q \in DOMAIN g \ U : q \notin DOMAIN moved
  BY <1>5, <1>6, <1>8
<1>10. DOMAIN m = DOMAIN moved \cup (DOMAIN g \ U)
  <2>. HIDE DEF moved, rest
  <2>. QED  BY <1>7 DEF Joined
<1>11. /\ \A r \in U : m[Rebased(p, dst, r)] = g[r]
       /\ \A q \in DOMAIN g \ U : m[q] = g[q]
  <2>1. \A q \in DOMAIN m : m[q] = IF q \in DOMAIN moved THEN moved[q] ELSE rest[q]
    <3>. HIDE DEF moved, rest
    <3>. QED  BY DEF Joined
  <2>2. \A r \in U : Rebased(p, dst, r) \in DOMAIN moved
    BY <1>8
  <2>. HIDE DEF moved, rest, m
  <2>. QED  BY <1>7, <1>8, <1>9, <1>10, <2>1, <2>2
<1>12. \A q \in DOMAIN g : Moved(p, dst, q) = IF q \in U THEN Rebased(p, dst, q) ELSE q
  BY <1>3 DEF Moved
<1>13. DOMAIN m = {Moved(p, dst, q) : q \in DOMAIN g}
  <2>1. \A q \in U : q \in DOMAIN g
    BY <1>3
  <2>. HIDE DEF m, moved, U
  <2>. QED  BY <1>8, <1>10, <1>12, <2>1
<1>14. \A q \in DOMAIN g : m[Moved(p, dst, q)] = g[q]
  <2>. HIDE DEF m, U
  <2>. QED  BY <1>11, <1>12
<1>15. ASSUME NEW q \in DOMAIN g, NEW r \in DOMAIN g, Moved(p, dst, q) = Moved(p, dst, r)
       PROVE  q = r
  <2>. HIDE DEF m, moved, U
  <2>1. CASE q \in U /\ r \in U
    BY <1>5, <1>12, <1>15, <2>1
  <2>2. CASE q \in U /\ r \notin U
    BY <1>5, <1>6, <1>12, <1>15, <2>2
  <2>3. CASE q \notin U /\ r \in U
    BY <1>5, <1>6, <1>12, <1>15, <2>3
  <2>4. CASE q \notin U /\ r \notin U
    BY <1>12, <1>15, <2>4
  <2>. QED  BY <2>1, <2>2, <2>3, <2>4
<1>16. ASSUME NEW q \in DOMAIN m
       PROVE  /\ q \in Paths /\ q # <<>>
              /\ \A c \in Paths : c # <<>> /\ IsPrefix(c, q) => c \in DOMAIN m
  <2>1. CASE q \in DOMAIN g \ U
    <3>1. q \in Paths /\ q # <<>>
      BY <1>4, <2>1
    <3>2. ASSUME NEW c \in Paths, c # <<>>, IsPrefix(c, q) PROVE c \in DOMAIN m
      <4>1. c \in DOMAIN g
        BY <2>1, <3>2 DEF Closed
      <4>2. ~IsPrefix(p, c)
        BY <1>1, <1>3, <2>1, <3>1, <3>2, PrefixOrder
      <4>. QED  BY <1>3, <1>10, <4>1, <4>2
    <3>. QED  BY <3>1, <3>2
  <2>2. CASE q \in DOMAIN moved
    <3>1. PICK r \in U : q = Rebased(p, dst, r)
      BY <1>8, <2>2
    <3>2. /\ q \in Paths /\ IsPrefix(dst, q) /\ r \in Paths /\ r \in DOMAIN g
          /\ IsPrefix(p, r) /\ Len(p) <= Len(r) /\ Len(dst) <= Len(q)
      BY <1>1, <1>3, <1>4, <1>5, <3>1, PrefixIs
    <3>3. q # <<>>
      BY <1>1, <3>2, EmptySeq DEF Paths
    <3>4. ASSUME NEW c \in Paths, c # <<>>, IsPrefix(c, q) PROVE c \in DOMAIN m
      <4>1. CASE Len(c) <= Len(to)
        <5>1. IsPrefix(to, q)
          BY <1>1, <3>2, PrefixOrder
        <5>2. IsPrefix(c, to)
          BY <3>2, <3>4, <4>1, <5>1, PrefixOrder
        <5>3. c \in DOMAIN g
          BY <3>4, <5>2, ChainIs
        <5>4. ~IsPrefix(p, c)
          BY <1>1, <5>2, PrefixOrder
        <5>. QED  BY <1>3, <1>10, <5>3, <5>4
      <4>2. CASE ~(Len(c) <= Len(to))
        <5>1. Len(c) \in Nat /\ Len(dst) <= Len(c)
          BY <1>1, <4>2 DEF Paths
        <5>2. IsPrefix(dst, c)
          BY <1>1, <3>2, <3>4, <5>1, PrefixOrder
        <5>3. PICK s \in Paths : IsPrefix(p, s) /\ IsPrefix(s, r) /\ c = Rebased(p, dst, s)
          <6>1. p \in Paths /\ dst \in Paths /\ IsPrefix(c, Rebased(p, dst, r))
            BY <1>1, <3>1, <3>4
          <6>. QED  BY <3>2, <5>2, <6>1, RebasedPrefix
        <5>4. s # <<>>
          <6>1. Len(p) \in Nat /\ Len(p) # 0 /\ Len(p) <= Len(s)
            BY <1>1, <5>3, PrefixIs, EmptySeq DEF Paths
          <6>. QED  BY <6>1
        <5>5. s \in U
          <6>1. s \in DOMAIN g
            BY <3>2, <5>3, <5>4 DEF Closed
          <6>. QED  BY <1>3, <5>3, <6>1
        <5>6. c \in DOMAIN moved
          BY <1>8, <5>3, <5>5
        <5>. QED  BY <1>10, <5>6
      <4>. QED  BY <4>1, <4>2
    <3>. QED  BY <3>2, <3>3, <3>4
  <2>. QED  BY <1>10, <2>1, <2>2
<1>17. Closed(m)
  <2>. HIDE DEF m
  <2>. QED  BY <1>16 DEF Closed
<1>. HIDE DEF m
<1>. QED  BY <1>2, <1>13, <1>14, <1>15, <1>17 DEF MovesAll

(* Pruning takes groups only.                                              *)
LEMMA PruneIs ==
  ASSUME NEW m, Closed(m)
  PROVE  /\ Hosts(pruneEmpty(m)) = Hosts(m) /\ Closed(pruneEmpty(m))
         /\ DOMAIN pruneEmpty(m) \subseteq DOMAIN m
         /\ \A q \in DOMAIN pruneEmpty(m) : pruneEmpty(m)[q] = m[q]
<1> DEFINE kept == {q \in DOMAIN m : Under(m, q) \cap Hosts(m) # {}}
<1>1. PICK u : /\ u = pruneEmpty(m) /\ DOMAIN u = kept
               /\ \A q \in kept : u[q] = m[q]
  <2>1. PICK u : u = pruneEmpty(m)
    OBVIOUS
  <2>2. u = [q \in DOMAIN m \cap kept |-> m[q]]
    BY <2>1 DEF pruneEmpty, Restricted
  <2>3. DOMAIN m \cap kept = kept
    OBVIOUS
  <2>. QED  BY <2>1, <2>2, <2>3
<1>2. \A q \in kept : q \in DOMAIN m
  OBVIOUS
<1>3. \A q \in DOMAIN m : q \in Paths
  BY DEF Closed
<1>4. Hosts(u) = Hosts(m)
  <2>1. \A q \in Hosts(m) : q \in kept
    <3>. TAKE q \in Hosts(m)
    <3>1. q \in DOMAIN m /\ q \in Under(m, q)
      BY <1>3, PrefixOrder DEF Hosts, Under
    <3>. QED  BY <3>1
  <2>. HIDE DEF kept
  <2>. QED  BY <1>1, <1>2, <2>1 DEF Hosts
<1>5. ASSUME NEW q \in kept, NEW c \in Paths, c # <<>>, IsPrefix(c, q) PROVE c \in kept
  <2>1. PICK h \in Hosts(m) : h \in DOMAIN m /\ IsPrefix(q, h)
    BY DEF Under
  <2>2. c \in DOMAIN m
    BY <1>2, <1>5 DEF Closed
  <2>3. IsPrefix(c, h)
    BY <1>2, <1>3, <1>5, <2>1, PrefixOrder
  <2>. QED  BY <2>1, <2>2, <2>3 DEF Under
<1>6. Closed(u)
  <2>1. \A q \in kept : q \in Paths /\ q # <<>>
    BY <1>2 DEF Closed
  <2>. HIDE DEF kept
  <2>. QED  BY <1>1, <1>5, <2>1 DEF Closed
<1>. QED  BY <1>1, <1>2, <1>4, <1>6

(* The groups on the way, made where they are missing.                     *)
LEMMA EnsureGroupIs ==
  ASSUME NEW t, Closed(t), NEW group \in Paths
  PROVE  /\ Closed(ensureGroup(t, group)) /\ Hosts(ensureGroup(t, group)) = Hosts(t)
         /\ DOMAIN ensureGroup(t, group) = DOMAIN t \cup Chain(group)
         /\ \A q \in DOMAIN t : ensureGroup(t, group)[q] = t[q]
<1>1. PICK u : /\ u = ensureGroup(t, group) /\ DOMAIN u = DOMAIN t \cup Chain(group)
               /\ \A q \in DOMAIN u : u[q] = IF q \in DOMAIN t THEN t[q] ELSE EmptyNode
  <2>1. PICK u : u = ensureGroup(t, group)
    OBVIOUS
  <2>2. u = [q \in DOMAIN t \cup Chain(group) |-> IF q \in DOMAIN t THEN t[q] ELSE EmptyNode]
    BY <2>1 DEF ensureGroup
  <2>. QED  BY <2>1, <2>2
<1>2. Hosts(u) = Hosts(t)
  <2>1. EmptyNode.host = ""
    BY DEF EmptyNode
  <2>. QED  BY <1>1, <2>1 DEF Hosts
<1>3. ASSUME NEW q \in DOMAIN u
      PROVE  /\ q \in Paths /\ q # <<>>
             /\ \A c \in Paths : c # <<>> /\ IsPrefix(c, q) => c \in DOMAIN u
  <2>1. CASE q \in DOMAIN t
    BY <1>1, <2>1 DEF Closed
  <2>2. CASE q \in Chain(group)
    <3>1. q \in Paths /\ q # <<>> /\ IsPrefix(q, group)
      BY <2>2, ChainIs
    <3>2. \A c \in Paths : c # <<>> /\ IsPrefix(c, q) => c \in Chain(group)
      BY <3>1, ChainIs, PrefixOrder
    <3>. QED  BY <1>1, <3>1, <3>2
  <2>. QED  BY <1>1, <2>1, <2>2
<1>4. Closed(u)
  BY <1>3 DEF Closed
<1>. QED  BY <1>1, <1>2, <1>4

(* A node's new own settings leave it its host and its id.                 *)
LEMMA SettingsLeaveIdentity ==
  ASSUME NEW own \in Settings, NEW n, IsNode(n), n.host # ""
  PROVE  Joined(own, n).host # "" /\ Joined(own, n).id = n.id
<1>1. "id" \notin DOMAIN own /\ ("host" \in DOMAIN own => own.host # "")
  BY DocumentAssumption
<1>2. "host" \in DOMAIN n /\ "id" \in DOMAIN n
  BY DEF IsNode, EmptyNode
<1>. QED  BY <1>1, <1>2 DEF Joined

(* A tree after one of its targets has been edited, before it is moved.    *)
SameIdentity(e, t) ==
  /\ Closed(e) /\ DOMAIN e = DOMAIN t /\ Hosts(e) = Hosts(t)
  /\ \A q \in Hosts(t) : e[q].id = t[q].id

LEMMA EditIs ==
  ASSUME NEW t, IsTree(t), NEW p \in Hosts(t), NEW own \in Settings
  PROVE  SameIdentity([t EXCEPT ![p] = Joined(own, t[p])], t)
<1>1. PICK u : /\ u = [t EXCEPT ![p] = Joined(own, t[p])] /\ DOMAIN u = DOMAIN t
               /\ \A q \in DOMAIN t : u[q] = IF q = p THEN Joined(own, t[p]) ELSE t[q]
  <2>1. p \in DOMAIN t /\ t = [q \in DOMAIN t |-> t[q]]
    BY DEF Hosts, IsTree
  <2>2. PICK u : u = [t EXCEPT ![p] = Joined(own, t[p])]
    OBVIOUS
  <2>3. u = [q \in DOMAIN t |-> IF q = p THEN Joined(own, t[p]) ELSE t[q]]
    BY <2>1, <2>2
  <2>. QED  BY <2>2, <2>3
<1>2. p \in DOMAIN t /\ IsNode(t[p]) /\ t[p].host # ""
  BY DEF Hosts, IsTree
<1>3. u[p].host # "" /\ u[p].id = t[p].id
  BY <1>1, <1>2, SettingsLeaveIdentity
<1>4. Hosts(u) = Hosts(t) /\ \A q \in Hosts(t) : u[q].id = t[q].id
  BY <1>1, <1>2, <1>3 DEF Hosts
<1>5. Closed(u)
  BY <1>1, TreeIsClosed DEF Closed
<1>6. SameIdentity(u, t)
  BY <1>1, <1>4, <1>5 DEF SameIdentity
<1>. QED  BY <1>1, <1>6

(* A target moved takes its subtree along, and nothing is lost or made.    *)
KeepsTargets(u, g) ==
  IdsOf(u) = IdsOf(g) /\ Cardinality(Hosts(u)) = Cardinality(Hosts(g)) /\ Closed(u)

LEMMA MoveKeeps ==
  ASSUME NEW g, Closed(g), IsFiniteSet(Hosts(g)), NEW p \in DOMAIN g, NEW to \in Paths, NEW k \in Keys,
         NEW dst, dst = Append(to, k), ~IsPrefix(p, to), Chain(to) \subseteq DOMAIN g,
         dst \in DOMAIN g => dst = p
  PROVE  KeepsTargets(pruneEmpty(Move(g, p, dst)), g)
<1>1. PICK m : /\ m = Move(g, p, dst) /\ DOMAIN m = {Moved(p, dst, q) : q \in DOMAIN g}
               /\ \A q \in DOMAIN g : m[Moved(p, dst, q)] = g[q]
               /\ \A q, r \in DOMAIN g : Moved(p, dst, q) = Moved(p, dst, r) => q = r
               /\ Closed(m)
  <2>1. MovesAll(Move(g, p, dst), g, p, dst)
    BY MoveIs
  <2>. QED  BY <2>1, Zenon DEF MovesAll
<1>2. PICK u : /\ u = pruneEmpty(m) /\ Hosts(u) = Hosts(m) /\ Closed(u)
               /\ DOMAIN u \subseteq DOMAIN m /\ \A q \in DOMAIN u : u[q] = m[q]
  BY <1>1, PruneIs
<1>3. Hosts(m) = {Moved(p, dst, q) : q \in Hosts(g)}
  <2>1. ASSUME NEW x \in Hosts(m) PROVE \E q \in Hosts(g) : x = Moved(p, dst, q)
    <3>1. x \in DOMAIN m /\ m[x].host # ""
      BY DEF Hosts
    <3>2. PICK q \in DOMAIN g : x = Moved(p, dst, q)
      BY <1>1, <3>1
    <3>. QED  BY <1>1, <3>1, <3>2 DEF Hosts
  <2>2. ASSUME NEW q \in Hosts(g) PROVE Moved(p, dst, q) \in Hosts(m)
    BY <1>1 DEF Hosts
  <2>. QED  BY <2>1, <2>2
<1>4. IdsOf(u) = IdsOf(g)
  <2>1. \A q \in Hosts(u) : u[q].id = m[q].id
    BY <1>2 DEF Hosts
  <2>2. \A q \in Hosts(g) : m[Moved(p, dst, q)].id = g[q].id
    BY <1>1 DEF Hosts
  <2>. QED  BY <1>2, <1>3, <2>1, <2>2 DEF IdsOf
<1>5. Cardinality(Hosts(u)) = Cardinality(Hosts(g))
  <2>1. PICK f : f = [q \in Hosts(g) |-> Moved(p, dst, q)]
    OBVIOUS
  <2>2. f \in Bijection(Hosts(g), Hosts(m))
    <3>1. f \in [Hosts(g) -> Hosts(m)]
      BY <1>3, <2>1
    <3>2. \A q, r \in Hosts(g) : f[q] = f[r] => q = r
      BY <1>1, <2>1 DEF Hosts
    <3>3. \A x \in Hosts(m) : \E q \in Hosts(g) : f[q] = x
      BY <1>3, <2>1
    <3>. QED  BY <3>1, <3>2, <3>3 DEF Bijection, Injection, Surjection, IsInjective
  <2>3. ExistsBijection(Hosts(g), Hosts(m))
    BY <2>2 DEF ExistsBijection
  <2>. QED  BY <1>2, <2>3, FS_Bijection
<1>6. KeepsTargets(u, g)
  BY <1>2, <1>4, <1>5 DEF KeepsTargets
<1>. QED  BY <1>1, <1>2, <1>6

LEMMA FindsNodes ==
  ASSUME NEW t, NEW ref
  PROVE  findNode(t, ref) \subseteq DOMAIN t
BY DEF findNode, Hosts

LEMMA OnlyIs ==
  /\ \A d : Only({}, d) = d
  /\ \A e, d : Only({e}, d) = e
BY DEF Only

LEMMA EditKeeps ==
  ASSUME NEW t, IsTree(t), NEW ref, NEW own \in Settings,
         NEW group \in {{}} \cup {{g} : g \in ToGroups},
         NEW name \in {{}} \cup {{k} : k \in NewNames},
         NEW u \in stageEditTarget(t, ref, own, group, name)
  PROVE  /\ IdsOf(u) = IdsOf(t) /\ Cardinality(Hosts(u)) = Cardinality(Hosts(t))
         /\ \A p \in DOMAIN u : Chain(p) \subseteq DOMAIN u
<1>1. PICK p, to, dst, e, grown :
        /\ p \in findNode(t, ref)
        /\ to = Only(group, Front(p)) /\ dst = Append(to, Only(name, Last(p)))
        /\ e = [t EXCEPT ![p] = Joined(own, t[p])] /\ grown = ensureGroup(e, to)
        /\ t[p].host # "" /\ ~(group # {} /\ groupPathEnters(to, p))
        /\ ~(dst \in DOMAIN grown /\ dst # p)
        /\ u = pruneEmpty(Move(grown, p, dst))
  <2>1. PICK p \in findNode(t, ref) :
          LET to    == Only(group, Front(p))
              dst   == Append(to, Only(name, Last(p)))
              grown == ensureGroup([t EXCEPT ![p] = Joined(own, t[p])], to) IN
            u \in IF \/ t[p].host = ""
                     \/ group # {} /\ groupPathEnters(to, p)
                     \/ dst \in DOMAIN grown /\ dst # p
                 THEN {}
                 ELSE {pruneEmpty(Move(grown, p, dst))}
    BY Zenon DEF stageEditTarget
  <2>2. PICK to, dst, e, grown :
          /\ to = Only(group, Front(p)) /\ dst = Append(to, Only(name, Last(p)))
          /\ e = [t EXCEPT ![p] = Joined(own, t[p])] /\ grown = ensureGroup(e, to)
    OBVIOUS
  <2>3. u \in IF \/ t[p].host = ""
                 \/ group # {} /\ groupPathEnters(to, p)
                 \/ dst \in DOMAIN grown /\ dst # p
             THEN {}
             ELSE {pruneEmpty(Move(grown, p, dst))}
    BY <2>1, <2>2, Zenon
  <2>4. /\ t[p].host # "" /\ ~(group # {} /\ groupPathEnters(to, p))
        /\ ~(dst \in DOMAIN grown /\ dst # p)
        /\ u = pruneEmpty(Move(grown, p, dst))
    BY <2>3
  <2>. QED  BY <2>1, <2>2, <2>4, Zenon
<1>2. /\ p \in DOMAIN t /\ p \in Hosts(t) /\ p \in Paths /\ p # <<>>
      /\ Closed(t) /\ IsFiniteSet(DOMAIN t)
  BY <1>1, FindsNodes, TreeIsClosed DEF Hosts, Closed, IsTree
<1>3. PICK n \in Nat \ {0} : n = Len(p)
  BY <1>2, EmptySeq DEF Paths
<1>4. Front(p) \in Paths /\ Len(Front(p)) = n - 1
  <2>1. \A i \in 1 .. n - 1 : p[i] \in Keys
    <3>1. \A i \in 1 .. n - 1 : i \in 1 .. n
      OBVIOUS
    <3>. QED  BY <1>2, <1>3, <3>1 DEF Paths
  <2>2. /\ SubSeq(p, 1, n - 1) \in Paths
        /\ Len(SubSeq(p, 1, n - 1)) = IF 1 <= n - 1 THEN n - 1 - 1 + 1 ELSE 0
    BY <2>1, SubSeqProperties DEF Paths
  <2>3. (IF 1 <= n - 1 THEN n - 1 - 1 + 1 ELSE 0) = n - 1
    OBVIOUS
  <2>. QED  BY <1>3, <2>2, <2>3 DEF Front
<1>5. Last(p) \in Keys
  BY <1>2, <1>3 DEF Last, Paths
<1>6. to \in Paths /\ ~IsPrefix(p, to)
  <2>1. CASE group = {}
    <3>1. to = Front(p)
      BY <1>1, <2>1, OnlyIs
    <3>2. ~IsPrefix(p, Front(p))
      BY <1>2, <1>3, <1>4, PrefixIs
    <3>. QED  BY <1>4, <3>1, <3>2
  <2>2. CASE group # {}
    <3>1. PICK g \in ToGroups : group = {g}
      BY <2>2
    <3>2. to = g
      BY <1>1, <3>1, OnlyIs
    <3>. QED  BY <1>1, <2>2, <3>2, DocumentAssumption DEF Paths, groupPathEnters
  <2>. QED  BY <2>1, <2>2
<1>7. PICK k \in Keys : dst = Append(to, k)
  <2>1. CASE name = {}
    <3>1. Only(name, Last(p)) = Last(p)
      BY <2>1, OnlyIs
    <3>. QED  BY <1>1, <1>5, <3>1
  <2>2. CASE name # {}
    <3>1. PICK k \in NewNames : name = {k}
      BY <2>2
    <3>2. Only(name, Last(p)) = k /\ k \in Keys
      BY <3>1, OnlyIs, DocumentAssumption
    <3>. QED  BY <1>1, <3>2
  <2>. QED  BY <2>1, <2>2
<1>8. /\ Closed(e) /\ DOMAIN e = DOMAIN t
      /\ Hosts(e) = Hosts(t) /\ \A q \in Hosts(t) : e[q].id = t[q].id
  <2>1. SameIdentity(e, t)
    BY <1>1, <1>2, EditIs
  <2>. QED  BY <2>1 DEF SameIdentity
<1>9. /\ Closed(grown) /\ Hosts(grown) = Hosts(t) /\ DOMAIN grown = DOMAIN t \cup Chain(to)
      /\ \A q \in DOMAIN t : grown[q] = e[q]
  BY <1>1, <1>6, <1>8, EnsureGroupIs
<1>10. IdsOf(grown) = IdsOf(t)
  <2>1. Hosts(t) \subseteq DOMAIN t
    BY DEF Hosts
  <2>2. \A q \in Hosts(t) : grown[q].id = t[q].id
    BY <1>8, <1>9, <2>1
  <2>. QED  BY <1>9, <2>2 DEF IdsOf
<1>11. IsFiniteSet(Hosts(grown))
  <2>1. Hosts(t) \subseteq DOMAIN t
    BY DEF Hosts
  <2>. QED  BY <1>2, <1>9, <2>1, FS_Subset
<1>12. /\ IdsOf(u) = IdsOf(grown) /\ Cardinality(Hosts(u)) = Cardinality(Hosts(grown))
       /\ Closed(u)
  <2>1. p \in DOMAIN grown /\ Chain(to) \subseteq DOMAIN grown /\ (dst \in DOMAIN grown => dst = p)
    BY <1>1, <1>2, <1>9
  <2>2. KeepsTargets(u, grown)
    BY <1>1, <1>6, <1>7, <1>9, <1>11, <2>1, MoveKeeps
  <2>. QED  BY <2>2 DEF KeepsTargets
<1>. QED  BY <1>9, <1>10, <1>12, ClosedChains

LEMMA AddKeeps ==
  ASSUME NEW t, IsTree(t), NEW group \in ToGroups, NEW name \in NewNames,
         NEW u \in stageAddTarget(t, group, name, Newcomer)
  PROVE  /\ Hosts(u) = Hosts(t) \cup {Append(group, name)}
         /\ \A p \in DOMAIN t : u[p] = t[p]
<1>1. PICK p : p = Append(group, name)
  OBVIOUS
<1>2. p \notin DOMAIN t /\ u = Joined(ensureGroup(t, group), [q \in {p} |-> Newcomer])
  BY <1>1 DEF stageAddTarget
<1>3. group \in Paths /\ name \in Keys
  BY DocumentAssumption DEF Paths
<1>4. PICK g : /\ g = ensureGroup(t, group) /\ Hosts(g) = Hosts(t)
               /\ DOMAIN g = DOMAIN t \cup Chain(group) /\ \A q \in DOMAIN t : g[q] = t[q]
  BY <1>3, TreeIsClosed, EnsureGroupIs
<1>5. p \notin DOMAIN g
  <2>1. Len(p) = Len(group) + 1 /\ Len(group) \in Nat /\ p \in Paths
    BY <1>1, <1>3, AppendIs
  <2>2. ~IsPrefix(p, group)
    BY <1>3, <2>1, PrefixIs
  <2>3. p \notin Chain(group)
    BY <1>3, <2>2, ChainIs
  <2>. QED  BY <1>2, <1>4, <2>3
<1>6. /\ DOMAIN u = DOMAIN g \cup {p} /\ u[p] = Newcomer
      /\ \A q \in DOMAIN g : u[q] = g[q]
  BY <1>2, <1>4, <1>5 DEF Joined
<1>7. Newcomer.host # ""
  BY DEF Newcomer, EmptyNode
<1>8. Hosts(u) = Hosts(g) \cup {p}
  BY <1>5, <1>6, <1>7 DEF Hosts
<1>. QED  BY <1>1, <1>4, <1>6, <1>8

LEMMA RemoveKeeps ==
  ASSUME NEW t, IsTree(t), NEW ref, NEW u \in stageRemoveTarget(t, ref)
  PROVE  \E p \in findNode(t, ref) : Hosts(u) = Hosts(t) \ Under(t, p)
<1>1. PICK p \in findNode(t, ref) : u = pruneEmpty(Restricted(t, DOMAIN t \ Under(t, p)))
  BY Zenon DEF stageRemoveTarget
<1>2. p \in DOMAIN t /\ p \in Paths /\ Closed(t)
  BY FindsNodes, TreeIsClosed DEF Closed
<1>3. PICK m : /\ m = Restricted(t, DOMAIN t \ Under(t, p))
               /\ DOMAIN m = DOMAIN t \ Under(t, p) /\ \A q \in DOMAIN m : m[q] = t[q]
  <2>1. PICK m : m = Restricted(t, DOMAIN t \ Under(t, p))
    OBVIOUS
  <2>2. DOMAIN t \cap (DOMAIN t \ Under(t, p)) = DOMAIN t \ Under(t, p)
    OBVIOUS
  <2>. QED  BY <2>1, <2>2 DEF Restricted
<1>4. Closed(m)
  <2>. SUFFICES ASSUME NEW q \in DOMAIN m
                PROVE  /\ q \in Paths /\ q # <<>>
                       /\ \A c \in Paths : c # <<>> /\ IsPrefix(c, q) => c \in DOMAIN m
    BY DEF Closed
  <2>1. q \in DOMAIN t /\ ~IsPrefix(p, q) /\ q \in Paths /\ q # <<>>
    BY <1>2, <1>3 DEF Under, Closed
  <2>2. ASSUME NEW c \in Paths, c # <<>>, IsPrefix(c, q) PROVE c \in DOMAIN m
    <3>1. c \in DOMAIN t
      BY <1>2, <2>1, <2>2 DEF Closed
    <3>2. ~IsPrefix(p, c)
      BY <1>2, <2>1, <2>2, PrefixOrder
    <3>. QED  BY <1>3, <3>1, <3>2 DEF Under
  <2>. QED  BY <2>1, <2>2
<1>5. Hosts(u) = Hosts(m)
  BY <1>1, <1>3, <1>4, PruneIs
<1>6. Hosts(m) = Hosts(t) \ Under(t, p)
  BY <1>3 DEF Hosts
<1>. QED  BY <1>5, <1>6

(* For every tree and every way of asking: a staged edit keeps every       *)
(* target and its id, and what lies above it; adding and removing touch    *)
(* what they name only (stageEditTarget, stageAddTarget,                   *)
(* stageRemoveTarget).                                                     *)
THEOREM StagedEditsKeepTargets == SpecDocuments => []EditsKeepTargets
<1>1. ASSUME input \in Inputs PROVE EditsKeepTargets
  <2>. SUFFICES ASSUME input.kind = "edit" PROVE EditsKeepTargets
    BY DEF EditsKeepTargets
  <2>1. IsTree(input.t)
    BY <1>1, DocumentAssumption
  <2>2. \A ref \in Refs, own \in Settings,
           group \in {{}} \cup {{g} : g \in ToGroups}, name \in {{}} \cup {{k} : k \in NewNames} :
          \A t \in stageEditTarget(input.t, ref, own, group, name) :
            /\ IdsOf(t) = IdsOf(input.t)
            /\ Cardinality(Hosts(t)) = Cardinality(Hosts(input.t))
            /\ \A p \in DOMAIN t : Chain(p) \subseteq DOMAIN t
    BY <2>1, EditKeeps
  <2>3. \A group \in ToGroups, name \in NewNames :
          \A t \in stageAddTarget(input.t, group, name, Newcomer) :
            /\ Hosts(t) = Hosts(input.t) \cup {Append(group, name)}
            /\ \A p \in DOMAIN input.t : t[p] = input.t[p]
    BY <2>1, AddKeeps
  <2>4. \A ref \in Refs : \A t \in stageRemoveTarget(input.t, ref) :
          \E p \in findNode(input.t, ref) : Hosts(t) = Hosts(input.t) \ Under(input.t, p)
    BY <2>1, RemoveKeeps
  <2>. QED  BY <2>2, <2>3, <2>4, Zenon DEF EditsKeepTargets
<1>. QED  BY <1>1, ExaminesOne, PTL

-----------------------------------------------------------------------------
(* Imports.  First a node without its id, and one that has been given one. *)
Blank(n) == [n EXCEPT !.id = NoId]

WithID(n, p) == IF n.host # "" /\ n.id = NoId THEN [n EXCEPT !.id = UUID(p)] ELSE n

LEMMA UUIDs ==
  /\ \A p \in Paths : UUID(p) # NoId
  /\ \A p, q \in Paths : UUID(p) = UUID(q) => p = q
<1> DEFINE S == Keys \cup {"uuid"}
<1>1. \A p \in Paths : p \in Seq(S) /\ Len(p) \in Nat
  BY DEF Paths
<1>2. <<"uuid">> \in Seq(S) /\ Len(<<"uuid">>) = 1
  OBVIOUS
<1>. HIDE DEF S
<1>3. ASSUME NEW p \in Paths PROVE UUID(p) # NoId
  <2>1. <<"uuid">> \o p = <<>> => <<"uuid">> = <<>>
    BY <1>1, <1>2, ConcatEqualIffEmpty
  <2>. QED  BY <1>2, <2>1 DEF UUID, NoId
<1>4. ASSUME NEW p \in Paths, NEW q \in Paths, UUID(p) = UUID(q) PROVE p = q
  <2>1. <<"uuid">> \o p = <<"uuid">> \o q
    BY <1>4 DEF UUID
  <2>. QED  BY <1>1, <1>2, <2>1, ConcatSimplifications
<1>. QED  BY <1>3, <1>4

LEMMA BlankIs ==
  ASSUME NEW n, IsNode(n)
  PROVE  Blank(n).id = NoId /\ Blank(n).host = n.host /\ SameOwn(Blank(n), n)
<1>1. n = [f \in DOMAIN EmptyNode |-> n[f]] /\ {"host", "id", "probe", "params", "vantages"} \subseteq DOMAIN EmptyNode
  BY DEF IsNode, EmptyNode
<1>. QED  BY <1>1 DEF Blank, SameOwn

LEMMA WithIDIs ==
  ASSUME NEW n, IsNode(n), NEW p \in Paths
  PROVE  /\ WithID(n, p).host = n.host /\ SameOwn(WithID(n, p), n) /\ Blank(WithID(n, p)) = Blank(n)
         /\ n.host # "" => WithID(n, p).id # NoId
         /\ WithID(WithID(n, p), p) = WithID(n, p)
         /\ n.host # "" /\ n.id = NoId => WithID(n, p).id = UUID(p)
         /\ n.id # NoId \/ n.host = "" => WithID(n, p) = n
<1>1. n = [f \in DOMAIN EmptyNode |-> n[f]] /\ {"host", "id", "probe", "params", "vantages"} \subseteq DOMAIN EmptyNode
  BY DEF IsNode, EmptyNode
<1>2. CASE n.host # "" /\ n.id = NoId
  <2>1. PICK m : m = [n EXCEPT !.id = UUID(p)]
    OBVIOUS
  <2>2. WithID(n, p) = m
    BY <1>2, <2>1 DEF WithID
  <2>3. m.id = UUID(p) /\ m.host = n.host /\ SameOwn(m, n)
    BY <1>1, <2>1 DEF SameOwn
  <2>4. Blank(m) = Blank(n)
    <3>1. m = [f \in DOMAIN EmptyNode |-> IF f = "id" THEN UUID(p) ELSE n[f]]
      BY <1>1, <2>1
    <3>2. Blank(m) = [f \in DOMAIN EmptyNode |-> IF f = "id" THEN NoId ELSE m[f]]
      BY <3>1 DEF Blank
    <3>3. Blank(n) = [f \in DOMAIN EmptyNode |-> IF f = "id" THEN NoId ELSE n[f]]
      BY <1>1 DEF Blank
    <3>. QED  BY <3>1, <3>2, <3>3
  <2>5. WithID(m, p) = m
    BY <2>3, UUIDs DEF WithID
  <2>. QED  BY <1>2, <2>2, <2>3, <2>4, <2>5, UUIDs
<1>3. CASE ~(n.host # "" /\ n.id = NoId)
  BY <1>3 DEF WithID, SameOwn
<1>. QED  BY <1>2, <1>3

LEMMA MintsAre ==
  ASSUME NEW t
  PROVE  /\ DOMAIN MintNewIDs(t) = DOMAIN t /\ DOMAIN WithoutIDs(t) = DOMAIN t
         /\ \A p \in DOMAIN t : MintNewIDs(t)[p] = WithID(t[p], p) /\ WithoutIDs(t)[p] = Blank(t[p])
         /\ MintNewIDs(t) = [p \in DOMAIN MintNewIDs(t) |-> MintNewIDs(t)[p]]
BY DEF MintNewIDs, WithoutIDs, WithID, Blank

(* The branch a node is in.                                                *)
Top(p) == SubSeq(p, 1, 1)

LEMMA TopIs ==
  ASSUME NEW p \in Paths, p # <<>>
  PROVE  /\ Top(p) \in Paths /\ Len(Top(p)) = 1 /\ IsPrefix(Top(p), p)
         /\ \A b \in Paths : Len(b) = 1 /\ IsPrefix(b, p) => b = Top(p)
<1>1. PICK n \in Nat \ {0} : n = Len(p)
  BY EmptySeq DEF Paths
<1>2. Top(p) \in Paths /\ IsPrefix(Top(p), p)
  <2>1. Top(p) \in Chain(p)
    BY <1>1 DEF Top, Chain
  <2>. QED  BY <2>1, ChainIs
<1>3. Len(Top(p)) = 1
  <2>1. \A i \in 1 .. 1 : p[i] \in Keys
    BY <1>1 DEF Paths
  <2>2. Len(SubSeq(p, 1, 1)) = IF 1 <= 1 THEN 1 - 1 + 1 ELSE 0
    BY <2>1, SubSeqProperties DEF Paths
  <2>. QED  BY <2>2 DEF Top
<1>4. ASSUME NEW b \in Paths, Len(b) = 1, IsPrefix(b, p) PROVE b = Top(p)
  BY <1>2, <1>3, <1>4, PrefixOrder
<1>. QED  BY <1>2, <1>3, <1>4

LEMMA InBranch ==
  ASSUME NEW t, Closed(t)
  PROVE  /\ \A p \in DOMAIN t : Top(p) \in Branches(t) /\ p \in Under(t, Top(p))
         /\ \A b \in Branches(t), p \in Paths : p # <<>> /\ IsPrefix(b, p) => b = Top(p)
<1>1. \A p \in DOMAIN t : p \in Paths /\ p # <<>>
  BY DEF Closed
<1>2. ASSUME NEW p \in DOMAIN t PROVE Top(p) \in Branches(t) /\ p \in Under(t, Top(p))
  <2>1. Top(p) \in Paths /\ Len(Top(p)) = 1 /\ IsPrefix(Top(p), p)
    BY <1>1, TopIs
  <2>2. Top(p) # <<>>
    BY <2>1
  <2>3. Top(p) \in DOMAIN t
    BY <2>1, <2>2 DEF Closed
  <2>. QED  BY <2>1, <2>3 DEF Branches, Under
<1>3. ASSUME NEW b \in Branches(t), NEW p \in Paths, p # <<>>, IsPrefix(b, p) PROVE b = Top(p)
  BY <1>1, <1>3, TopIs DEF Branches
<1>. QED  BY <1>2, <1>3

(* A branch that two trees share is the same in both, but for the ids.     *)
LEMMA BranchesEqual ==
  ASSUME NEW t, NEW u, NEW b
  PROVE  /\ nodesEqual(t, u, b) =>
              Under(t, b) = Under(u, b) /\ \A p \in Under(t, b) : Blank(t[p]) = Blank(u[p])
         /\ Under(t, b) = Under(u, b) /\ (\A p \in Under(t, b) : Blank(t[p]) = Blank(u[p])) =>
              nodesEqual(t, u, b)
<1> DEFINE Part(x) == WithoutIDs(Restricted(x, Under(x, b)))
<1>1. ASSUME NEW x PROVE Part(x) = [p \in Under(x, b) |-> Blank(x[p])]
  <2>1. DOMAIN x \cap Under(x, b) = Under(x, b)
    BY DEF Under
  <2>2. PICK y : y = Restricted(x, Under(x, b)) /\ y = [p \in Under(x, b) |-> x[p]]
    BY <2>1 DEF Restricted
  <2>. QED  BY <2>2 DEF WithoutIDs, Blank
<1>2. PICK f : f = [p \in Under(t, b) |-> Blank(t[p])]
  OBVIOUS
<1>3. PICK g : g = [p \in Under(u, b) |-> Blank(u[p])]
  OBVIOUS
<1>4. nodesEqual(t, u, b) <=> f = g
  BY <1>1, <1>2, <1>3 DEF nodesEqual
<1>5. f = g => Under(t, b) = Under(u, b) /\ \A p \in Under(t, b) : Blank(t[p]) = Blank(u[p])
  BY <1>2, <1>3
<1>6. Under(t, b) = Under(u, b) /\ (\A p \in Under(t, b) : Blank(t[p]) = Blank(u[p])) => f = g
  BY <1>2, <1>3
<1>. QED  BY <1>4, <1>5, <1>6

(* The nodes of a merged document, whose branches come from either side.   *)
Merges(m, t, u) ==
  /\ DOMAIN m = DOMAIN t \cup DOMAIN u /\ m = [p \in DOMAIN m |-> m[p]]
  /\ \A p \in DOMAIN t : m[p] = t[p]
  /\ \A p \in DOMAIN u : Blank(m[p]) = Blank(u[p]) /\ (p \notin DOMAIN t => m[p] = u[p])
  /\ \A b \in Branches(t) \cap Branches(u) : Under(t, b) = Under(u, b)

LEMMA MergeIs ==
  ASSUME NEW t, Closed(t), NEW u, Closed(u), NEW m \in AppendImport(t, u)
  PROVE  Merges(m, t, u)
<1> DEFINE New == UNION {Under(u, b) : b \in Branches(u) \ Branches(t)}
<1>1. /\ \A b \in Branches(t) \cap Branches(u) : nodesEqual(t, u, b)
      /\ m = Joined(t, Restricted(u, New))
  BY DEF AppendImport
<1>2. \A b \in Branches(t) \cap Branches(u) :
        Under(t, b) = Under(u, b) /\ \A p \in Under(t, b) : Blank(t[p]) = Blank(u[p])
  BY <1>1, BranchesEqual
<1>3. New \subseteq DOMAIN u
  BY DEF Under
<1>4. \A p \in DOMAIN u : p \in Paths /\ p # <<>> /\ Top(p) \in Branches(u) /\ p \in Under(u, Top(p))
  BY InBranch DEF Closed
<1>5. \A p \in DOMAIN t : Top(p) \in Branches(t)
  BY InBranch
<1>6. \A p \in DOMAIN u : p \in New <=> p \notin DOMAIN t
  <2>. TAKE p \in DOMAIN u
  <2>1. CASE Top(p) \in Branches(t)
    <3>1. p \in DOMAIN t
      BY <1>2, <1>4, <2>1 DEF Under
    <3>2. ASSUME p \in New PROVE FALSE
      <4>1. PICK b \in Branches(u) \ Branches(t) : p \in Under(u, b)
        BY <3>2
      <4>2. b = Top(p)
        BY <1>4, <4>1, InBranch DEF Under
      <4>. QED  BY <2>1, <4>1, <4>2
    <3>. QED  BY <3>1, <3>2
  <2>2. CASE Top(p) \notin Branches(t)
    BY <1>4, <1>5, <2>2
  <2>. QED  BY <2>1, <2>2
<1>7. \A p \in DOMAIN t \cap DOMAIN u : Blank(t[p]) = Blank(u[p])
  BY <1>2, <1>4, <1>5
<1>. HIDE DEF New
<1>8. PICK r : /\ r = Restricted(u, New) /\ DOMAIN r = New /\ \A p \in New : r[p] = u[p]
  <2>1. PICK r : r = Restricted(u, New)
    OBVIOUS
  <2>2. DOMAIN u \cap New = New
    BY <1>3
  <2>3. r = [p \in New |-> u[p]]
    BY <2>1, <2>2 DEF Restricted
  <2>. QED  BY <2>1, <2>3
<1>9. /\ DOMAIN m = DOMAIN t \cup New /\ m = [p \in DOMAIN m |-> m[p]]
      /\ \A p \in DOMAIN t : m[p] = t[p]
      /\ \A p \in New : p \notin DOMAIN t => m[p] = u[p]
  BY <1>1, <1>8 DEF Joined
<1>10. \A p \in DOMAIN u : Blank(m[p]) = Blank(u[p]) /\ (p \notin DOMAIN t => m[p] = u[p])
  BY <1>6, <1>7, <1>9
<1>11. DOMAIN m = DOMAIN t \cup DOMAIN u
  BY <1>3, <1>6, <1>9
<1>. QED  BY <1>2, <1>9, <1>10, <1>11 DEF Merges

(* An import accepted and stored, and once more.                           *)
LEMMA AgainTheSame ==
  ASSUME NEW a, NEW u, IsTree(a), IsTree(u), u = WithoutIDs(u),
         NEW merged \in AppendImport(MintNewIDs(a), u)
  PROVE  /\ AppendImport(MintNewIDs(merged), u) = {MintNewIDs(merged)}
         /\ \A p \in DOMAIN a : MintNewIDs(merged)[p] = MintNewIDs(a)[p]
         /\ \A p \in DOMAIN u : WithoutIDs(MintNewIDs(merged))[p] = u[p]
<1>1. PICK t : /\ t = MintNewIDs(a) /\ DOMAIN t = DOMAIN a
               /\ \A p \in DOMAIN a : t[p] = WithID(a[p], p)
  <2>1. /\ DOMAIN MintNewIDs(a) = DOMAIN a
        /\ \A p \in DOMAIN a : MintNewIDs(a)[p] = WithID(a[p], p)
    BY MintsAre
  <2>. QED  BY <2>1, Zenon
<1>2. Closed(a) /\ Closed(u) /\ Closed(t)
  <2>1. Closed(a) /\ Closed(u)
    BY TreeIsClosed
  <2>. QED  BY <1>1, <2>1 DEF Closed
<1>3. Merges(merged, t, u)
  BY <1>1, <1>2, MergeIs
<1>4. PICK s : /\ s = MintNewIDs(merged) /\ DOMAIN s = DOMAIN merged
               /\ \A p \in DOMAIN merged : s[p] = WithID(merged[p], p)
               /\ s = [p \in DOMAIN s |-> s[p]]
  <2>1. /\ DOMAIN MintNewIDs(merged) = DOMAIN merged
        /\ \A p \in DOMAIN merged : MintNewIDs(merged)[p] = WithID(merged[p], p)
        /\ MintNewIDs(merged) = [p \in DOMAIN MintNewIDs(merged) |-> MintNewIDs(merged)[p]]
    BY MintsAre
  <2>. QED  BY <2>1, Zenon
<1>5. /\ \A p \in DOMAIN a : IsNode(a[p]) /\ p \in Paths
      /\ \A p \in DOMAIN u : IsNode(u[p]) /\ p \in Paths
  BY <1>2 DEF IsTree, Closed
<1>6. \A p \in DOMAIN a : s[p] = t[p]
  <2>. TAKE p \in DOMAIN a
  <2>1. merged[p] = t[p] /\ p \in DOMAIN merged
    BY <1>1, <1>3 DEF Merges
  <2>2. WithID(WithID(a[p], p), p) = WithID(a[p], p)
    BY <1>5, WithIDIs
  <2>. QED  BY <1>1, <1>4, <2>1, <2>2
<1>7. \A p \in DOMAIN u : Blank(s[p]) = Blank(u[p]) /\ Blank(u[p]) = u[p] /\ p \in DOMAIN s
  <2>. TAKE p \in DOMAIN u
  <2>1. Blank(merged[p]) = Blank(u[p]) /\ p \in DOMAIN s
    BY <1>3, <1>4 DEF Merges
  <2>2. Blank(u[p]) = u[p]
    <3>1. WithoutIDs(u)[p] = Blank(u[p])
      BY MintsAre
    <3>. QED  BY <3>1
  <2>3. Blank(s[p]) = Blank(merged[p])
    <3>1. CASE p \in DOMAIN t
      <4>1. s[p] = t[p] /\ merged[p] = t[p]
        BY <1>1, <1>3, <1>6, <3>1 DEF Merges
      <4>. QED  BY <4>1
    <3>2. CASE p \notin DOMAIN t
      <4>1. merged[p] = u[p] /\ s[p] = WithID(u[p], p)
        BY <1>3, <1>4, <2>1, <3>2 DEF Merges
      <4>2. Blank(WithID(u[p], p)) = Blank(u[p])
        BY <1>5, WithIDIs
      <4>. QED  BY <4>1, <4>2
    <3>. QED  BY <3>1, <3>2
  <2>. QED  BY <2>1, <2>2, <2>3
<1>8. DOMAIN s = DOMAIN t \cup DOMAIN u /\ DOMAIN u \subseteq DOMAIN s
  BY <1>3, <1>4 DEF Merges
<1>9. \A b \in Branches(s) \cap Branches(u) : nodesEqual(s, u, b)
  <2>. TAKE b \in Branches(s) \cap Branches(u)
  <2>1. Under(t, b) \subseteq Under(u, b)
    <3>1. CASE b \in Branches(t)
      BY <1>3, <3>1 DEF Merges
    <3>2. CASE b \notin Branches(t)
      <4>. SUFFICES ASSUME NEW p \in Under(t, b) PROVE FALSE
        OBVIOUS
      <4>1. b \in Paths /\ b # <<>> /\ p \in DOMAIN t /\ IsPrefix(b, p) /\ Len(b) = 1
        BY <1>2 DEF Branches, Under, Closed
      <4>2. b \in DOMAIN t
        BY <1>2, <4>1 DEF Closed
      <4>. QED  BY <3>2, <4>1, <4>2 DEF Branches
    <3>. QED  BY <3>1, <3>2
  <2>2. Under(s, b) = Under(u, b)
    BY <1>8, <2>1 DEF Under
  <2>3. \A p \in Under(s, b) : Blank(s[p]) = Blank(u[p])
    BY <1>7, <2>2 DEF Under
  <2>. QED  BY <2>2, <2>3, BranchesEqual
<1>10. Branches(u) \ Branches(s) = {}
  BY <1>8 DEF Branches
<1>11. AppendImport(s, u) = {s}
  <2>1. PICK r : r = Restricted(u, {}) /\ DOMAIN r = {}
    BY DEF Restricted
  <2>2. UNION {Under(u, b) : b \in Branches(u) \ Branches(s)} = {}
    BY <1>10
  <2>3. AppendImport(s, u) = {Joined(s, r)}
    BY <1>9, <2>1, <2>2 DEF AppendImport
  <2>4. Joined(s, r) = [p \in DOMAIN s |-> s[p]]
    BY <2>1 DEF Joined
  <2>. QED  BY <1>4, <2>3, <2>4
<1>12. \A p \in DOMAIN u : WithoutIDs(s)[p] = u[p]
  BY <1>7, MintsAre
<1>. QED  BY <1>1, <1>4, <1>6, <1>11, <1>12

LEMMA ImportsRepeat == ASSUME input \in Inputs PROVE ImportIsRepeatable
<1>. SUFFICES ASSUME input.kind = "import" PROVE ImportIsRepeatable
  BY DEF ImportIsRepeatable
<1>1. IsTree(input.t) /\ IsTree(input.u) /\ input.u = WithoutIDs(input.u)
  BY DocumentAssumption
<1>2. \A merged \in AppendImport(MintNewIDs(input.t), input.u) :
        /\ AppendImport(MintNewIDs(merged), input.u) = {MintNewIDs(merged)}
        /\ \A p \in DOMAIN input.t : MintNewIDs(merged)[p] = MintNewIDs(input.t)[p]
        /\ \A p \in DOMAIN input.u : WithoutIDs(MintNewIDs(merged))[p] = input.u[p]
  BY <1>1, AgainTheSame
<1>. QED  BY <1>2, Zenon DEF ImportIsRepeatable

(* A fragment shares no node with the tree it is added to.                 *)
LEMMA ApartIs ==
  ASSUME NEW t, Closed(t), NEW u, Closed(u), NEW m \in AppendDBFragment(t, u)
  PROVE  m = Joined(t, u) /\ DOMAIN t \cap DOMAIN u = {}
<1>1. m = Joined(t, u) /\ Branches(t) \cap Branches(u) = {}
  BY DEF AppendDBFragment
<1>2. ASSUME NEW p \in DOMAIN t \cap DOMAIN u PROVE FALSE
  <2>1. Top(p) \in Branches(t) /\ Top(p) \in Branches(u)
    BY InBranch
  <2>. QED  BY <1>1, <2>1
<1>. QED  BY <1>1, <1>2

LEMMA IsShown ==
  ASSUME NEW t, NEW u, Closed(t), Closed(u), NEW m \in AppendDBFragment(t, u), NEW p \in Hosts(m)
  PROVE  resolve(<<t>>, u, p) = {storageID(m[p], p)}
<1>1. m = Joined(t, u) /\ DOMAIN t \cap DOMAIN u = {}
  BY ApartIs
<1>2. PICK c : c = Append(<<t>>, u) /\ DOMAIN c = 1 .. 2 /\ c[1] = t /\ c[2] = u
  <2>1. <<t>> \in Seq({t, u}) /\ Len(<<t>>) = 1 /\ <<t>>[1] = t
    OBVIOUS
  <2>2. /\ DOMAIN Append(<<t>>, u) = 1 .. 2
        /\ Append(<<t>>, u)[1] = t /\ Append(<<t>>, u)[2] = u
    BY <2>1
  <2>. QED  BY <2>2, Zenon
<1>3. DOMAIN m = DOMAIN t \cup DOMAIN u /\ \A q \in DOMAIN m : m[q] = IF q \in DOMAIN t THEN t[q] ELSE u[q]
  BY <1>1 DEF Joined
<1>4. p \in DOMAIN m /\ m[p].host # ""
  BY DEF Hosts
<1>5. PICK i \in DOMAIN c : m[p] = c[i][p] /\ {j \in DOMAIN c : p \in Hosts(c[j])} = {i}
  <2>1. CASE p \in DOMAIN t
    <3>1. m[p] = c[1][p] /\ p \in Hosts(c[1]) /\ p \notin Hosts(c[2])
      BY <1>1, <1>2, <1>3, <1>4, <2>1 DEF Hosts
    <3>. QED  BY <1>2, <3>1
  <2>2. CASE p \notin DOMAIN t
    <3>1. m[p] = c[2][p] /\ p \in Hosts(c[2]) /\ p \notin Hosts(c[1])
      BY <1>1, <1>2, <1>3, <1>4, <2>2 DEF Hosts
    <3>. QED  BY <1>2, <3>1
  <2>. QED  BY <2>1, <2>2
<1>6. Cardinality({i}) = 1
  BY FS_Singleton
<1>7. resolve(<<t>>, u, p) = {storageID(c[i][p], p)}
  <2>1. <<t>> # <<>>
    OBVIOUS
  <2>2. resolve(<<t>>, u, p) = {storageID(c[j][p], p) : j \in {i}}
    BY <1>2, <1>5, <1>6, <2>1 DEF resolve
  <2>. QED  BY <2>2
<1>. QED  BY <1>5, <1>7

(* ... and without the file config, there, nowhere, or at its path.        *)
LEMMA IsShownOrMissed ==
  ASSUME NEW t, NEW u, Closed(t), Closed(u), NEW m \in AppendDBFragment(t, u), NEW p \in Hosts(m)
  PROVE  \/ resolve(<<>>, u, p) \subseteq {storageID(m[p], p)}
         \/ Hosts(u) = {} /\ m[p].id \notin {NoId, p}
<1>1. m = Joined(t, u) /\ DOMAIN t \cap DOMAIN u = {}
  BY ApartIs
<1>2. PICK c : c = Append(<<>>, u) /\ DOMAIN c = {1} /\ c[1] = u
  <2>1. Append(<<>>, u) = <<u>> /\ DOMAIN <<u>> = {1} /\ <<u>>[1] = u
    OBVIOUS
  <2>. QED  BY <2>1, Zenon
<1>3. CASE Hosts(u) = {}
  BY <1>3 DEF resolve, storageID
<1>4. CASE Hosts(u) # {}
  <2>1. resolve(<<>>, u, p) =
          IF Cardinality({i \in DOMAIN c : p \in Hosts(c[i])}) = 1
          THEN {storageID(c[i][p], p) : i \in {i \in DOMAIN c : p \in Hosts(c[i])}} ELSE {}
    BY <1>2, <1>4 DEF resolve
  <2>2. \A i \in DOMAIN c : p \in Hosts(c[i]) => c[i][p] = m[p]
    <3>1. p \in Hosts(u) => u[p] = m[p]
      BY <1>1 DEF Hosts, Joined
    <3>. QED  BY <1>2, <3>1
  <2>. QED  BY <2>1, <2>2
<1>. QED  BY <1>3, <1>4

LEMMA HistoriesAreShown == ASSUME input \in Inputs PROVE HistoryIsShown
<1>. SUFFICES ASSUME input.kind = "reuse" PROVE HistoryIsShown
  BY DEF HistoryIsShown
<1>1. IsTree(input.t) /\ IsTree(input.u)
  BY DocumentAssumption
<1>2. Closed(input.t) /\ Closed(input.u)
  BY <1>1, TreeIsClosed
<1>3. PICK frag : frag = MintNewIDs(input.u) /\ Closed(frag)
  <2>1. PICK frag : frag = MintNewIDs(input.u)
    OBVIOUS
  <2>2. DOMAIN frag = DOMAIN input.u
    BY <2>1, MintsAre
  <2>. QED  BY <1>2, <2>1, <2>2 DEF Closed
<1>4. ASSUME NEW file \in {input.t, File}, NEW whole \in AppendDBFragment(file, frag),
             NEW p \in Hosts(whole)
      PROVE  LET key == Monitors(whole, Root)[p].id IN
               /\ resolve(<<file>>, frag, p) = {key}
               /\ \/ resolve(<<>>, frag, p) \subseteq {key}
                  \/ Hosts(frag) = {} /\ whole[p].id \notin {NoId, p}
  <2>1. Closed(file)
    BY <1>2, TreeIsClosed, DocumentAssumption
  <2>2. resolve(<<file>>, frag, p) = {storageID(whole[p], p)}
    BY <1>3, <2>1, IsShown
  <2>3. \/ resolve(<<>>, frag, p) \subseteq {storageID(whole[p], p)}
        \/ Hosts(frag) = {} /\ whole[p].id \notin {NoId, p}
    BY <1>3, <2>1, IsShownOrMissed
  <2>4. Monitors(whole, Root)[p].id = storageID(whole[p], p)
    BY DEF Monitors
  <2>. QED  BY <2>2, <2>3, <2>4
<1>. QED  BY <1>3, <1>4 DEF HistoryIsShown

(* A document that has J's nodes and u's as they are, but for their ids:   *)
(* it is valid if both are, and the ids are each target's own.             *)
LEMMA ValidIfBothAre ==
  ASSUME NEW w, NEW j, NEW u, Closed(w), Closed(j), Closed(u),
         NEW root, Valid(j, root), Valid(u, root),
         DOMAIN w = DOMAIN j \cup DOMAIN u,
         \A p \in DOMAIN j : w[p].host = j[p].host /\ SameOwn(w[p], j[p]),
         \A p \in DOMAIN u : w[p].host = u[p].host /\ SameOwn(w[p], u[p]),
         \A p, q \in Hosts(w) : storageID(w[p], p) = storageID(w[q], q) => p = q
  PROVE  Valid(w, root)
<1>1. ASSUME NEW x, Closed(x), Valid(x, root), DOMAIN x \subseteq DOMAIN w, NEW p \in DOMAIN x,
             \A q \in DOMAIN x : w[q].host = x[q].host /\ SameOwn(w[q], x[q])
      PROVE  /\ w[p].host # "" \/ Under(w, p) # {p}
             /\ w[p].host # "" => /\ Effective(w, root, p).probe # ""
                                  /\ Effective(w, root, p).vantages # {}
  <2>1. p \in Under(x, p) /\ Under(x, p) \subseteq Under(w, p)
    BY <1>1, PrefixOrder DEF Under, Closed
  <2>2. /\ x[p].host # "" \/ Under(x, p) # {p}
        /\ p \in Hosts(x) => /\ Monitors(x, root)[p].settings.probe # ""
                             /\ Monitors(x, root)[p].settings.vantages # {}
    BY <1>1, Zenon DEF Valid
  <2>3. Effective(w, root, p) = Effective(x, root, p)
    <3>1. Len(p) \in Nat /\ Chain(p) \subseteq DOMAIN x
      BY <1>1, ClosedChains DEF Closed, Paths
    <3>2. \A i \in 1 .. Len(p) : SubSeq(p, 1, i) \in DOMAIN x
      BY <3>1, Zenon DEF Chain
    <3>3. \A i \in 1 .. Len(p) : SameOwn(w[SubSeq(p, 1, i)], x[SubSeq(p, 1, i)])
      BY <1>1, <3>2
    <3>. QED  BY <3>1, <3>3, InheritanceAgrees
  <2>4. p \in Hosts(x) => Monitors(x, root)[p].settings = Effective(x, root, p)
    BY DEF Monitors
  <2>. QED  BY <1>1, <2>1, <2>2, <2>3, <2>4 DEF Hosts
<1>2. ASSUME NEW p \in DOMAIN w
      PROVE  /\ w[p].host # "" \/ Under(w, p) # {p}
             /\ w[p].host # "" => /\ Effective(w, root, p).probe # ""
                                  /\ Effective(w, root, p).vantages # {}
  <2>1. CASE p \in DOMAIN j
    BY <1>1, <2>1
  <2>2. CASE p \in DOMAIN u
    BY <1>1, <2>2
  <2>. QED  BY <2>1, <2>2
<1>3. PICK m : /\ m = Monitors(w, root)
               /\ \A p \in Hosts(w) : /\ m[p].id = storageID(w[p], p)
                                      /\ m[p].settings = Effective(w, root, p)
  <2>1. PICK m : m = Monitors(w, root)
    OBVIOUS
  <2>. QED  BY <2>1 DEF Monitors
<1>4. \A p \in Hosts(w) : m[p].settings.probe # "" /\ m[p].settings.vantages # {}
  BY <1>2, <1>3 DEF Hosts
<1>5. \A p, q \in Hosts(w) : m[p].id = m[q].id => p = q
  BY <1>3
<1>. QED  BY <1>2, <1>3, <1>4, <1>5 DEF Valid

LEMMA ReuseIsValid ==
  ASSUME NEW t, NEW u, IsTree(t), IsTree(u), u = WithoutIDs(u), IsReuse(t, u),
         NEW m \in AppendImport(t, u), NEW w \in AppendDBFragment(File, MintNewIDs(m))
  PROVE  Valid(w, Root)
<1>1. /\ Identified(t) /\ Valid(Joined(File, t), Root) /\ Valid(u, Root)
      /\ \A p \in Hosts(u) : NeverMinted(Joined(File, t), p)
  BY DEF IsReuse
<1>2. IsTree(File) /\ Closed(File) /\ Closed(t) /\ Closed(u)
  BY DocumentAssumption, TreeIsClosed
<1>3. Merges(m, t, u)
  BY <1>2, MergeIs
<1>4. PICK s : /\ s = MintNewIDs(m) /\ DOMAIN s = DOMAIN m
               /\ \A p \in DOMAIN m : s[p] = WithID(m[p], p)
  <2>1. /\ DOMAIN MintNewIDs(m) = DOMAIN m
        /\ \A p \in DOMAIN m : MintNewIDs(m)[p] = WithID(m[p], p)
    BY MintsAre
  <2>. QED  BY <2>1, Zenon
<1>5. Closed(s) /\ DOMAIN s = DOMAIN t \cup DOMAIN u
  <2>1. DOMAIN s = DOMAIN t \cup DOMAIN u
    BY <1>3, <1>4 DEF Merges
  <2>. QED  BY <1>2, <2>1 DEF Closed
<1>6. /\ DOMAIN File \cap DOMAIN s = {} /\ DOMAIN w = DOMAIN File \cup DOMAIN s
      /\ \A p \in DOMAIN w : w[p] = IF p \in DOMAIN File THEN File[p] ELSE s[p]
  <2>1. w = Joined(File, s) /\ DOMAIN File \cap DOMAIN s = {}
    BY <1>2, <1>4, <1>5, ApartIs
  <2>. QED  BY <2>1 DEF Joined
<1>7. PICK j : /\ j = Joined(File, t) /\ DOMAIN j = DOMAIN File \cup DOMAIN t
               /\ \A p \in DOMAIN j : j[p] = IF p \in DOMAIN File THEN File[p] ELSE t[p]
  <2>1. PICK j : j = Joined(File, t)
    OBVIOUS
  <2>. QED  BY <2>1 DEF Joined
<1>8. Closed(w) /\ Closed(j)
  BY <1>2, <1>5, <1>6, <1>7 DEF Closed
<1>9. \A p \in DOMAIN w : p \in Paths
  BY <1>8 DEF Closed
<1>10. /\ \A p \in DOMAIN t : IsNode(t[p])
       /\ \A p \in DOMAIN u : IsNode(u[p])
  BY DEF IsTree
<1>11. \A p \in DOMAIN t : t[p].host # "" => t[p].id # NoId
  BY <1>1 DEF Identified, Hosts
(* What was there is there as it was.                                      *)
<1>12. \A p \in DOMAIN j : w[p] = j[p]
  <2>. TAKE p \in DOMAIN j
  <2>1. CASE p \in DOMAIN File
    BY <1>6, <1>7, <2>1
  <2>2. CASE p \notin DOMAIN File
    <3>1. p \in DOMAIN t /\ p \in DOMAIN m /\ m[p] = t[p] /\ p \in Paths
      BY <1>3, <1>5, <1>6, <1>7, <1>9, <2>2 DEF Merges
    <3>2. WithID(t[p], p) = t[p]
      BY <1>10, <1>11, <3>1, WithIDIs
    <3>. QED  BY <1>4, <1>5, <1>6, <1>7, <2>2, <3>1, <3>2
  <2>. QED  BY <2>1, <2>2
(* What is new is as it is in the import, with a new id.                   *)
<1>13. ASSUME NEW p \in DOMAIN u
       PROVE  /\ w[p].host = u[p].host /\ SameOwn(w[p], u[p]) /\ p \in DOMAIN w
              /\ p \notin DOMAIN j /\ u[p].host # "" => w[p].id = UUID(p)
  <2>1. p \in DOMAIN s /\ p \in DOMAIN m /\ p \in DOMAIN w /\ p \notin DOMAIN File /\ p \in Paths
    BY <1>4, <1>5, <1>6, <1>9
  <2>2. w[p] = WithID(m[p], p)
    BY <1>4, <1>6, <2>1
  <2>3. CASE p \in DOMAIN t
    <3>1. w[p] = t[p] /\ Blank(t[p]) = Blank(u[p])
      BY <1>3, <1>6, <1>7, <1>12, <2>1, <2>3 DEF Merges
    <3>2. Blank(t[p]).host = t[p].host /\ SameOwn(Blank(t[p]), t[p])
      BY <1>10, <2>3, BlankIs
    <3>3. Blank(u[p]).host = u[p].host /\ SameOwn(Blank(u[p]), u[p])
      BY <1>10, BlankIs
    <3>. QED  BY <1>7, <2>1, <2>3, <3>1, <3>2, <3>3 DEF SameOwn
  <2>4. CASE p \notin DOMAIN t
    <3>1. w[p] = WithID(u[p], p)
      BY <1>3, <2>2, <2>4 DEF Merges
    <3>2. u[p].id = NoId
      <4>1. u[p] = Blank(u[p])
        <5>1. WithoutIDs(u)[p] = Blank(u[p])
          BY MintsAre
        <5>. QED  BY <5>1
      <4>. QED  BY <1>10, <4>1, BlankIs
    <3>. QED  BY <1>10, <2>1, <3>1, <3>2, WithIDIs
  <2>. QED  BY <2>3, <2>4
<1>14. \A p, q \in Hosts(w) : storageID(w[p], p) = storageID(w[q], q) => p = q
  <2>1. \A p \in Hosts(w) : p \in Paths /\ (p \in DOMAIN j \/ p \in DOMAIN u)
    BY <1>5, <1>6, <1>7, <1>9 DEF Hosts
  <2>2. \A p \in Hosts(w) : p \in DOMAIN j => p \in Hosts(j) /\ storageID(w[p], p) = storageID(j[p], p)
    BY <1>12 DEF Hosts
  <2>3. \A p \in Hosts(w) : p \notin DOMAIN j => p \in Hosts(u) /\ storageID(w[p], p) = UUID(p)
    <3>. TAKE p \in Hosts(w)
    <3>1. CASE p \notin DOMAIN j
      <4>1. p \in DOMAIN u /\ w[p].host # "" /\ p \in Paths
        BY <2>1, <3>1 DEF Hosts
      <4>2. u[p].host # "" /\ w[p].id = UUID(p)
        BY <1>13, <3>1, <4>1
      <4>3. UUID(p) # NoId
        BY <4>1, UUIDs
      <4>. QED  BY <4>1, <4>2, <4>3 DEF Hosts, storageID
    <3>. QED  BY <3>1
  <2>4. \A p, q \in Hosts(j) : storageID(j[p], p) = storageID(j[q], q) => p = q
    <3>1. \A p, q \in Hosts(j) : Monitors(j, Root)[p].id = Monitors(j, Root)[q].id => p = q
      BY <1>1, <1>7, Zenon DEF Valid
    <3>2. \A p \in Hosts(j) : Monitors(j, Root)[p].id = storageID(j[p], p)
      BY DEF Monitors
    <3>. QED  BY <3>1, <3>2
  <2>5. \A p \in Hosts(u), q \in Hosts(j) : storageID(j[q], q) # UUID(p)
    BY <1>1, <1>7 DEF NeverMinted
  <2>. TAKE p, q \in Hosts(w)
  <2>. HAVE storageID(w[p], p) = storageID(w[q], q)
  <2>6. CASE p \in DOMAIN j /\ q \in DOMAIN j
    BY <2>2, <2>4, <2>6
  <2>7. CASE p \in DOMAIN j /\ q \notin DOMAIN j
    BY <2>2, <2>3, <2>5, <2>7
  <2>8. CASE p \notin DOMAIN j /\ q \in DOMAIN j
    BY <2>2, <2>3, <2>5, <2>8
  <2>9. CASE p \notin DOMAIN j /\ q \notin DOMAIN j
    BY <2>1, <2>3, <2>9, UUIDs
  <2>. QED  BY <2>6, <2>7, <2>8, <2>9
<1>15. DOMAIN w = DOMAIN j \cup DOMAIN u
  BY <1>5, <1>6, <1>7
<1>16. \A p \in DOMAIN j : w[p].host = j[p].host /\ SameOwn(w[p], j[p])
  BY <1>12 DEF SameOwn
<1>17. Valid(j, Root)
  BY <1>1, <1>7
<1>. QED  BY <1>1, <1>2, <1>8, <1>13, <1>14, <1>15, <1>16, <1>17, ValidIfBothAre

LEMMA OldNamesStayFree == ASSUME input \in Inputs PROVE OldNamesAreFree
<1>. SUFFICES ASSUME input.kind = "reuse" PROVE OldNamesAreFree
  BY DEF OldNamesAreFree
<1>1. /\ IsTree(input.t) /\ IsTree(input.u) /\ input.u = WithoutIDs(input.u)
      /\ IsReuse(input.t, input.u)
  BY DocumentAssumption
<1>2. \A merged \in AppendImport(input.t, input.u) :
        \A whole \in AppendDBFragment(File, MintNewIDs(merged)) : Valid(whole, Root)
  BY <1>1, ReuseIsValid
<1>. QED  BY <1>2, Zenon DEF OldNamesAreFree

-----------------------------------------------------------------------------
(* Histories.                                                              *)
LEMMA OfTwo ==
  ASSUME NEW x \in Int, NEW y \in Int
  PROVE  Max({x, y}) = (IF x >= y THEN x ELSE y) /\ Min({x, y}) = (IF x <= y THEN x ELSE y)
<1>1. PICK m \in {x, y} : \A z \in {x, y} : m >= z
  OBVIOUS
<1>2. Max({x, y}) \in {x, y} /\ \A z \in {x, y} : Max({x, y}) >= z
  BY <1>1 DEF Max
<1>3. PICK n \in {x, y} : \A z \in {x, y} : n <= z
  OBVIOUS
<1>4. Min({x, y}) \in {x, y} /\ \A z \in {x, y} : Min({x, y}) <= z
  BY <1>3 DEF Min
<1>. QED  BY <1>2, <1>4

LEMMA TiersAre ==
  /\ coarsest = 3
  /\ rrdTiers[1].step = 1 /\ rrdTiers[2].step = 2 /\ rrdTiers[3].step = 4
  /\ rrdTiers[1].lookback = 4 /\ rrdTiers[2].lookback = 8
BY DEF coarsest, rrdTiers

(* The tier that owns an instant.                                          *)
Owns(last, u, k) ==
  /\ k = coarsest \/ u + rrdTiers[k].lookback > last
  /\ \A j \in 1 .. (k - 1) : u + rrdTiers[j].lookback <= last

LEMMA StepIs ==
  ASSUME NEW last \in Int, NEW u \in Int
  PROVE  StepAt(last, u) = IF u + 4 > last THEN 1 ELSE IF u + 8 > last THEN 2 ELSE 4
<1>1. 1 .. coarsest = {1, 2, 3}
  BY TiersAre
<1>2. Owns(last, u, 1) <=> u + 4 > last
  BY TiersAre DEF Owns
<1>3. Owns(last, u, 2) <=> u + 8 > last /\ u + 4 <= last
  BY TiersAre DEF Owns
<1>4. Owns(last, u, 3) <=> u + 4 <= last /\ u + 8 <= last
  BY TiersAre DEF Owns
<1>5. PICK k \in {1, 2, 3} : Owns(last, u, k) /\ \A j \in {1, 2, 3} : Owns(last, u, j) => j = k
  BY <1>2, <1>3, <1>4
<1>6. (CHOOSE j \in 1 .. coarsest : Owns(last, u, j)) = k
  BY <1>1, <1>5
<1>7. StepAt(last, u) = rrdTiers[k].step
  BY <1>6 DEF StepAt, Owns
<1>. QED  BY <1>2, <1>3, <1>4, <1>5, <1>7, TiersAre

(* What one tier adds.                                                     *)
Gives(out, ts) == \E s \in out : s.ts = ts
TellsOnce(out) == \A s, z \in out : s.ts = z.ts => s = z

OfTier(s, k, rows) == s = [ts |-> s.ts, step |-> rrdTiers[k].step] /\ s.ts \in rows

Adds(new, old, rrd, k, first, start) ==
  IF start >= old.end THEN new = old
  ELSE /\ new.end = start /\ old.out \subseteq new.out /\ TellsOnce(new.out)
       /\ LET rows == fetchTier(rrd, k, IF start = first THEN first - 1 ELSE start, old.end) IN
            /\ \A ts \in rows : Gives(new.out, ts)
            /\ \A s \in new.out : s \in old.out \/ OfTier(s, k, rows)

LEMMA TierAdds ==
  ASSUME NEW rrd, NEW first, NEW last, NEW old, TellsOnce(old.out), NEW k, NEW start,
         start = IF k = coarsest THEN first ELSE Max({first, last - rrdTiers[k].lookback})
  PROVE  Adds(StitchTier(rrd, first, last, old, k), old, rrd, k, first, start)
<1>1. CASE start >= old.end
  BY <1>1 DEF StitchTier, Adds
<1>2. CASE ~(start >= old.end)
  <2> DEFINE rows == fetchTier(rrd, k, IF start = first THEN first - 1 ELSE start, old.end)
             seen == {s.ts : s \in old.out}
             step == rrdTiers[k].step
  <2>1. PICK new : new = StitchTier(rrd, first, last, old, k)
    OBVIOUS
  <2>2. new = [end |-> start, out |-> old.out \cup {[ts |-> ts, step |-> step] : ts \in rows \ seen}]
    BY <1>2, <2>1 DEF StitchTier
  <2>. HIDE DEF rows, step
  <2>3. new.end = start /\ new.out = old.out \cup {[ts |-> ts, step |-> step] : ts \in rows \ seen}
    BY <2>2
  <2>4. TellsOnce(new.out)
    <3>. SUFFICES ASSUME NEW s \in new.out, NEW z \in new.out, s.ts = z.ts PROVE s = z
      BY DEF TellsOnce
    <3>1. \A x \in new.out : x \in old.out \/ (x.ts \notin seen /\ x = [ts |-> x.ts, step |-> step])
      BY <2>3
    <3>2. \A x \in old.out : x.ts \in seen
      OBVIOUS
    <3>. QED  BY <3>1, <3>2 DEF TellsOnce
  <2>5. ASSUME NEW ts \in rows PROVE Gives(new.out, ts)
    <3>1. CASE ts \in seen
      BY <2>3, <3>1 DEF Gives
    <3>2. CASE ts \notin seen
      <4>1. [ts |-> ts, step |-> step] \in new.out
        BY <2>3, <3>2
      <4>2. [ts |-> ts, step |-> step].ts = ts
        OBVIOUS
      <4>. QED  BY <4>1, <4>2, Zenon DEF Gives
    <3>. QED  BY <3>1, <3>2
  <2>6. \A s \in new.out : s \in old.out \/ OfTier(s, k, rows)
    <3>1. ASSUME NEW ts \in rows PROVE OfTier([ts |-> ts, step |-> step], k, rows)
      BY DEF OfTier, step
    <3>. QED  BY <2>3, <3>1
  <2>7. old.out \subseteq new.out
    BY <2>3
  <2>. QED  BY <1>2, <2>1, <2>3, <2>4, <2>5, <2>6, <2>7 DEF Adds, rows
<1>. QED  BY <1>1, <1>2

(* The row an instant is in: the next multiple of the step.                *)
LEMMA RowOf ==
  ASSUME NEW u \in Nat, NEW step \in {1, 2, 4}
  PROVE  \E ts \in Nat : /\ ts % step = 0 /\ u <= ts /\ ts < u + step
                         /\ \A e \in Nat : u <= e + 1 => ts <= e - (e % step) + step
<1>1. CASE step = 1
  <2>1. u % 1 = 0 /\ \A e \in Nat : e % 1 = 0
    OBVIOUS
  <2>. QED  BY <1>1, <2>1
<1>2. CASE step = 2
  <2>1. PICK ts \in Nat : ts % 2 = 0 /\ u <= ts /\ ts < u + 2
    BY u % 2 = 0 \/ (u + 1) % 2 = 0
  <2>2. ASSUME NEW e \in Nat, u <= e + 1 PROVE ts <= e - (e % 2) + 2
    BY <2>1, <2>2
  <2>. QED  BY <1>2, <2>1, <2>2
<1>3. CASE step = 4
  <2>1. PICK ts \in Nat : ts % 4 = 0 /\ u <= ts /\ ts < u + 4
    BY u % 4 = 0 \/ (u + 1) % 4 = 0 \/ (u + 2) % 4 = 0 \/ (u + 3) % 4 = 0
  <2>2. ASSUME NEW e \in Nat, u <= e + 1 PROVE ts <= e - (e % 4) + 4
    BY <2>1, <2>2
  <2>. QED  BY <1>3, <2>1, <2>2
<1>. QED  BY <1>1, <1>2, <1>3

(* The three tiers, one after the other.                                   *)
Rows1(rrd, last, oldest) ==
  IF oldest > 0 THEN fetchTier(rrd, 1, IF oldest <= 4 THEN last - oldest - 1 ELSE last - 4, last)
  ELSE {}
Rows2(rrd, last, oldest) ==
  IF oldest > 4
  THEN fetchTier(rrd, 2, IF oldest <= 8 THEN last - oldest - 1 ELSE last - 8, last - 4)
  ELSE {}
Rows3(rrd, last, oldest) ==
  IF oldest > 8 THEN fetchTier(rrd, 3, last - oldest - 1, last - 8) ELSE {}

Told(rrd, last, oldest, out) ==
  \E a1, a2, a3 :
    /\ out = a3.out
    /\ TellsOnce(a3.out) /\ a1.out \subseteq a2.out /\ a2.out \subseteq a3.out
    /\ \A ts \in Rows1(rrd, last, oldest) : Gives(a1.out, ts)
    /\ \A ts \in Rows2(rrd, last, oldest) : Gives(a2.out, ts)
    /\ \A ts \in Rows3(rrd, last, oldest) : Gives(a3.out, ts)
    /\ \A s \in a1.out : OfTier(s, 1, Rows1(rrd, last, oldest))
    /\ \A s \in a2.out : s \in a1.out \/ OfTier(s, 2, Rows2(rrd, last, oldest))
    /\ \A s \in a3.out : s \in a2.out \/ OfTier(s, 3, Rows3(rrd, last, oldest))

LEMMA ThreeTiers ==
  ASSUME NEW rrd, NEW last \in Int, NEW oldest \in Nat, rrd.oldest = oldest,
         NEW now, last = Min({rrd.last, now})
  PROVE  Told(rrd, last, oldest, ExtractRRD(rrd, now))
<1>1. PICK first \in Int : first = last - oldest
  OBVIOUS
<1>2. PICK a0 : a0 = [end |-> last, out |-> {}] /\ a0.end = last /\ a0.out = {}
  <2>1. PICK a0 : a0 = [end |-> last, out |-> {}]
    OBVIOUS
  <2>. QED  BY <2>1
<1>3. PICK a1 : a1 = StitchTier(rrd, first, last, a0, 1)
  OBVIOUS
<1>4. PICK a2 : a2 = StitchTier(rrd, first, last, a1, 2)
  OBVIOUS
<1>5. PICK a3 : a3 = StitchTier(rrd, first, last, a2, 3)
  OBVIOUS
<1>6. ExtractRRD(rrd, now) = a3.out
  BY <1>1, <1>2, <1>3, <1>4, <1>5 DEF ExtractRRD
<1>7. TellsOnce(a0.out)
  BY <1>2 DEF TellsOnce
<1>8. PICK s1 \in Int : /\ s1 = Max({first, last - rrdTiers[1].lookback})
                        /\ s1 = IF oldest <= 4 THEN first ELSE last - 4
  <2>1. PICK d \in Int : d = last - rrdTiers[1].lookback /\ d = last - 4
    BY TiersAre
  <2>2. Max({first, d}) = IF first >= d THEN first ELSE d
    BY <2>1, OfTwo
  <2>3. PICK s \in Int : s = IF first >= d THEN first ELSE d
    BY <2>1
  <2>. QED  BY <1>1, <2>1, <2>2, <2>3
<1>9. Adds(a1, a0, rrd, 1, first, s1)
  <2>1. s1 = IF 1 = coarsest THEN first ELSE Max({first, last - rrdTiers[1].lookback})
    BY <1>8, TiersAre
  <2>. QED  BY <1>3, <1>7, <2>1, TierAdds
<1>10. /\ a1.end = s1 /\ TellsOnce(a1.out)
       /\ \A ts \in Rows1(rrd, last, oldest) : Gives(a1.out, ts)
       /\ \A s \in a1.out : OfTier(s, 1, Rows1(rrd, last, oldest))
  <2>1. CASE s1 >= last
    <3>1. a1 = a0 /\ s1 = last /\ oldest = 0
      BY <1>1, <1>2, <1>8, <1>9, <2>1 DEF Adds
    <3>. QED  BY <1>2, <1>7, <3>1 DEF Rows1
  <2>2. CASE ~(s1 >= last)
    <3>1. Rows1(rrd, last, oldest) = fetchTier(rrd, 1, IF s1 = first THEN first - 1 ELSE s1, last)
      <4>1. /\ (IF s1 = first THEN first - 1 ELSE s1) = (IF oldest <= 4 THEN last - oldest - 1 ELSE last - 4)
            /\ oldest > 0
        BY <1>1, <1>8, <2>2
      <4>. QED  BY <4>1 DEF Rows1
    <3>. QED  BY <1>2, <1>9, <2>2, <3>1 DEF Adds
  <2>. QED  BY <2>1, <2>2
<1>11. PICK s2 \in Int : /\ s2 = Max({first, last - rrdTiers[2].lookback})
                         /\ s2 = IF oldest <= 8 THEN first ELSE last - 8
  <2>1. PICK d \in Int : d = last - rrdTiers[2].lookback /\ d = last - 8
    BY TiersAre
  <2>2. Max({first, d}) = IF first >= d THEN first ELSE d
    BY <2>1, OfTwo
  <2>3. PICK s \in Int : s = IF first >= d THEN first ELSE d
    BY <2>1
  <2>. QED  BY <1>1, <2>1, <2>2, <2>3
<1>12. Adds(a2, a1, rrd, 2, first, s2)
  <2>1. s2 = IF 2 = coarsest THEN first ELSE Max({first, last - rrdTiers[2].lookback})
    BY <1>11, TiersAre
  <2>. QED  BY <1>4, <1>10, <2>1, TierAdds
<1>13. /\ a2.end = s2 /\ TellsOnce(a2.out) /\ a1.out \subseteq a2.out
       /\ \A ts \in Rows2(rrd, last, oldest) : Gives(a2.out, ts)
       /\ \A s \in a2.out : s \in a1.out \/ OfTier(s, 2, Rows2(rrd, last, oldest))
  <2>1. CASE s2 >= s1
    <3>1. s2 = s1 /\ ~(oldest > 4)
      BY <1>1, <1>8, <1>11, <2>1
    <3>2. a2 = a1
      BY <1>10, <1>12, <2>1 DEF Adds
    <3>. QED  BY <1>10, <3>1, <3>2 DEF Rows2
  <2>2. CASE ~(s2 >= s1)
    <3>1. Rows2(rrd, last, oldest) = fetchTier(rrd, 2, IF s2 = first THEN first - 1 ELSE s2, s1)
      <4>1. /\ (IF s2 = first THEN first - 1 ELSE s2) = (IF oldest <= 8 THEN last - oldest - 1 ELSE last - 8)
            /\ oldest > 4 /\ s1 = last - 4
        BY <1>1, <1>8, <1>11, <2>2
      <4>. QED  BY <4>1 DEF Rows2
    <3>. QED  BY <1>10, <1>12, <2>2, <3>1 DEF Adds
  <2>. QED  BY <2>1, <2>2
<1>14. Adds(a3, a2, rrd, 3, first, first)
  <2>1. first = IF 3 = coarsest THEN first ELSE Max({first, last - rrdTiers[3].lookback})
    BY TiersAre
  <2>. QED  BY <1>5, <1>13, <2>1, TierAdds
<1>15. /\ TellsOnce(a3.out) /\ a2.out \subseteq a3.out
       /\ \A ts \in Rows3(rrd, last, oldest) : Gives(a3.out, ts)
       /\ \A s \in a3.out : s \in a2.out \/ OfTier(s, 3, Rows3(rrd, last, oldest))
  <2>1. CASE first >= s2
    <3>1. a3 = a2 /\ ~(oldest > 8)
      BY <1>1, <1>11, <1>13, <1>14, <2>1 DEF Adds
    <3>. QED  BY <1>13, <3>1 DEF Rows3
  <2>2. CASE ~(first >= s2)
    <3>1. Rows3(rrd, last, oldest) = fetchTier(rrd, 3, first - 1, s2)
      <4>1. first - 1 = last - oldest - 1 /\ s2 = last - 8 /\ oldest > 8
        BY <1>1, <1>11, <2>2
      <4>. QED  BY <4>1 DEF Rows3
    <3>. QED  BY <1>13, <1>14, <2>2, <3>1 DEF Adds
  <2>. QED  BY <2>1, <2>2
<1>. QED  BY <1>6, <1>10, <1>13, <1>15, Zenon DEF Told

LEMMA FetchIs ==
  ASSUME NEW rrd, NEW k, NEW start \in Int, NEW end \in Int, NEW step, NEW reach \in Int, rrd.last \in Nat,
         step = rrdTiers[k].step, reach = IF k = coarsest THEN rrd.oldest ELSE rrdTiers[k].lookback,
         NEW ts \in Nat, ts % step = 0, start < ts, ts <= end - (end % step) + step, step \in {1, 2, 4},
         ts + reach > rrd.last, NEW u \in rrd.known, u \in Nat, ts - step < u, u <= ts
  PROVE  ts \in fetchTier(rrd, k, start, end)
<1>1. ts \in (start + 1) .. (end - (end % step) + step)
  <2>1. end % step \in Int
    OBVIOUS
  <2>. QED  BY <2>1
<1>2. fetchTier(rrd, k, start, end) =
        {r \in (start + 1) .. (end - (end % step) + step) :
           /\ r % step = 0 /\ r + reach > rrd.last
           /\ \E v \in rrd.known : r - step < v /\ v <= r}
  BY Zenon DEF fetchTier
<1>. QED  BY <1>1, <1>2

(* Where the samples of each tier are.                                     *)
Border2(last) == (last - 4) - ((last - 4) % 2) + 2
Border3(last) == (last - 8) - ((last - 8) % 4) + 4

LEMMA BordersAre ==
  ASSUME NEW last \in Int
  PROVE  {BorderRow(last, k) : k \in 2 .. coarsest} =
           {[ts |-> Border2(last), step |-> 2], [ts |-> Border3(last), step |-> 4]}
<1>1. 2 .. coarsest = {2, 3}
  BY TiersAre
<1>2. BorderRow(last, 2) = [ts |-> Border2(last), step |-> 2]
  BY TiersAre DEF BorderRow, Border2
<1>3. BorderRow(last, 3) = [ts |-> Border3(last), step |-> 4]
  BY TiersAre DEF BorderRow, Border3
<1>. QED  BY <1>1, <1>2, <1>3

InFirst(s, last, oldest) == s.step = 1 /\ (oldest > 4 => s.ts > last - 4)
InSecond(s, last, oldest) ==
  /\ s.step = 2 /\ oldest > 4 /\ s.ts % 2 = 0 /\ s.ts <= Border2(last)
  /\ oldest > 8 => s.ts > last - 8
InThird(s, last, oldest) == s.step = 4 /\ oldest > 8 /\ s.ts % 4 = 0 /\ s.ts <= Border3(last)

LEMMA FetchedIs ==
  ASSUME NEW rrd, NEW k, NEW start \in Int, NEW end \in Int, NEW step \in {1, 2, 4},
         step = rrdTiers[k].step, NEW s, OfTier(s, k, fetchTier(rrd, k, start, end))
  PROVE  /\ s = [ts |-> s.ts, step |-> s.step] /\ s.step = step /\ s.ts \in Int
         /\ start < s.ts /\ s.ts <= end - (end % step) + step /\ s.ts % step = 0
<1>1. s.ts \in fetchTier(rrd, k, start, end) /\ s = [ts |-> s.ts, step |-> step] /\ s.step = step
  BY DEF OfTier
<1>2. end % step \in Int
  OBVIOUS
<1>3. \A ts \in fetchTier(rrd, k, start, end) :
        ts \in (start + 1) .. (end - (end % step) + step) /\ ts % step = 0
  BY DEF fetchTier
<1>4. \A ts \in (start + 1) .. (end - (end % step) + step) :
        ts \in Int /\ start < ts /\ ts <= end - (end % step) + step
  BY <1>2
<1>. QED  BY <1>1, <1>3, <1>4

LEMMA RowsAre ==
  ASSUME NEW rrd, NEW last \in Int, NEW oldest \in Nat, NEW s
  PROVE  /\ OfTier(s, 1, Rows1(rrd, last, oldest)) =>
              s = [ts |-> s.ts, step |-> s.step] /\ s.ts \in Int /\ InFirst(s, last, oldest)
         /\ OfTier(s, 2, Rows2(rrd, last, oldest)) =>
              s = [ts |-> s.ts, step |-> s.step] /\ s.ts \in Int /\ InSecond(s, last, oldest)
         /\ OfTier(s, 3, Rows3(rrd, last, oldest)) =>
              s = [ts |-> s.ts, step |-> s.step] /\ s.ts \in Int /\ InThird(s, last, oldest)
<1>1. ASSUME OfTier(s, 1, Rows1(rrd, last, oldest))
      PROVE  s = [ts |-> s.ts, step |-> s.step] /\ s.ts \in Int /\ InFirst(s, last, oldest)
  <2>1. PICK start \in Int : start = IF oldest <= 4 THEN last - oldest - 1 ELSE last - 4
    <3>1. (IF oldest <= 4 THEN last - oldest - 1 ELSE last - 4) \in Int
      OBVIOUS
    <3>. QED  BY <3>1
  <2>2. oldest > 0 /\ OfTier(s, 1, fetchTier(rrd, 1, start, last))
    BY <1>1, <2>1 DEF Rows1, OfTier
  <2>3. s = [ts |-> s.ts, step |-> s.step] /\ s.step = 1 /\ s.ts \in Int /\ start < s.ts
    BY <2>2, TiersAre, FetchedIs
  <2>. QED  BY <2>1, <2>3 DEF InFirst
<1>2. ASSUME OfTier(s, 2, Rows2(rrd, last, oldest))
      PROVE  s = [ts |-> s.ts, step |-> s.step] /\ s.ts \in Int /\ InSecond(s, last, oldest)
  <2>1. PICK start \in Int, end \in Int :
          start = (IF oldest <= 8 THEN last - oldest - 1 ELSE last - 8) /\ end = last - 4
    <3>1. (IF oldest <= 8 THEN last - oldest - 1 ELSE last - 8) \in Int /\ last - 4 \in Int
      OBVIOUS
    <3>. QED  BY <3>1
  <2>2. oldest > 4 /\ OfTier(s, 2, fetchTier(rrd, 2, start, end))
    BY <1>2, <2>1 DEF Rows2, OfTier
  <2>3. /\ s = [ts |-> s.ts, step |-> s.step] /\ s.step = 2 /\ s.ts \in Int
        /\ start < s.ts /\ s.ts <= end - (end % 2) + 2 /\ s.ts % 2 = 0
    BY <2>2, TiersAre, FetchedIs
  <2>. QED  BY <2>1, <2>2, <2>3 DEF InSecond, Border2
<1>3. ASSUME OfTier(s, 3, Rows3(rrd, last, oldest))
      PROVE  s = [ts |-> s.ts, step |-> s.step] /\ s.ts \in Int /\ InThird(s, last, oldest)
  <2>1. PICK start \in Int, end \in Int : start = last - oldest - 1 /\ end = last - 8
    OBVIOUS
  <2>2. oldest > 8 /\ OfTier(s, 3, fetchTier(rrd, 3, start, end))
    BY <1>3, <2>1 DEF Rows3, OfTier
  <2>3. /\ s = [ts |-> s.ts, step |-> s.step] /\ s.step = 4 /\ s.ts \in Int
        /\ s.ts <= end - (end % 4) + 4 /\ s.ts % 4 = 0
    BY <2>2, TiersAre, FetchedIs
  <2>. QED  BY <2>1, <2>2, <2>3 DEF InThird, Border3
<1>. QED  BY <1>1, <1>2, <1>3

Placed(s, last, oldest) ==
  /\ s = [ts |-> s.ts, step |-> s.step] /\ s.ts \in Int
  /\ InFirst(s, last, oldest) \/ InSecond(s, last, oldest) \/ InThird(s, last, oldest)

LEMMA BelowBorder ==
  ASSUME NEW b \in Int, NEW ts \in Int, ts % 4 = 0, ts <= b - (b % 4) + 4, ts # b - (b % 4) + 4
  PROVE  ts <= b
<1>1. PICK q \in Int, m \in 0 .. 3 : b = 4 * q + m /\ b % 4 = m
  <2>1. (b % 4) \in 0 .. 3 /\ b = 4 * (b \div 4) + (b % 4) /\ (b \div 4) \in Int
    OBVIOUS
  <2>. QED  BY <2>1
<1>2. PICK r \in Int : ts = 4 * r
  <2>1. ts = 4 * (ts \div 4) + (ts % 4) /\ (ts \div 4) \in Int
    OBVIOUS
  <2>. QED  BY <2>1
<1>3. 4 * r <= 4 * q + 4 /\ 4 * r # 4 * q + 4
  BY <1>1, <1>2
<1>4. r <= q
  BY <1>3
<1>. QED  BY <1>1, <1>2, <1>4

(* Off the borders, the tiers' rows do not meet.                           *)
LEMMA RowsApart ==
  ASSUME NEW last \in Int, NEW oldest \in Nat, NEW s, NEW z, NEW u \in Int,
         Placed(s, last, oldest), Placed(z, last, oldest), Tells(s, u), Tells(z, u),
         s \notin {[ts |-> Border2(last), step |-> 2], [ts |-> Border3(last), step |-> 4]},
         z \notin {[ts |-> Border2(last), step |-> 2], [ts |-> Border3(last), step |-> 4]}
  PROVE  s.ts = z.ts
<1>. DEFINE First(x) == x.ts = u /\ (oldest > 4 => u > last - 4)
            Second(x) == /\ x.ts % 2 = 0 /\ x.ts <= last - 4 /\ x.ts - 2 < u /\ u <= x.ts /\ oldest > 4
                         /\ oldest > 8 => x.ts > last - 8
            Third(x) == x.ts % 4 = 0 /\ x.ts <= last - 8 /\ x.ts - 4 < u /\ u <= x.ts /\ oldest > 8
<1>1. ASSUME NEW x, Placed(x, last, oldest), Tells(x, u),
             x \notin {[ts |-> Border2(last), step |-> 2], [ts |-> Border3(last), step |-> 4]}
      PROVE  x.ts \in Int /\ (First(x) \/ Second(x) \/ Third(x))
  <2>1. x.ts \in Int /\ x = [ts |-> x.ts, step |-> x.step]
    BY <1>1 DEF Placed
  <2>2. CASE InFirst(x, last, oldest)
    BY <1>1, <2>1, <2>2 DEF InFirst, Tells
  <2>3. CASE InSecond(x, last, oldest)
    <3>1. x.ts # Border2(last)
      BY <1>1, <2>1, <2>3 DEF InSecond
    <3>2. x.ts <= last - 4
      BY <2>1, <2>3, <3>1 DEF InSecond, Border2
    <3>. QED  BY <1>1, <2>1, <2>3, <3>2 DEF InSecond, Tells
  <2>4. CASE InThird(x, last, oldest)
    <3>1. x.ts # Border3(last)
      BY <1>1, <2>1, <2>4 DEF InThird
    <3>2. x.ts <= last - 8
      <4>1. PICK b \in Int, ts \in Int : b = last - 8 /\ ts = x.ts
        BY <2>1
      <4>2. ts % 4 = 0 /\ ts <= b - (b % 4) + 4 /\ ts # b - (b % 4) + 4
        BY <2>4, <3>1, <4>1 DEF InThird, Border3
      <4>. QED  BY <4>1, <4>2, BelowBorder
    <3>. QED  BY <1>1, <2>1, <2>4, <3>2 DEF InThird, Tells
  <2>. QED  BY <1>1, <2>2, <2>3, <2>4 DEF Placed
<1>2. /\ s.ts \in Int /\ (First(s) \/ Second(s) \/ Third(s))
      /\ z.ts \in Int /\ (First(z) \/ Second(z) \/ Third(z))
  BY <1>1
<1>. QED  BY <1>2

(* A measured instant is told by the tier that owns it, or if that archive *)
(* has lost it while the clock was behind, by the next one; or its row is  *)
(* at a border, and gives way.                                             *)
Remembered(out, last, u) ==
  \/ \E s \in out : Tells(s, u)
  \/ \E row \in {BorderRow(last, k) : k \in 2 .. coarsest} : Tells(row, u) /\ GivesWay(out, row)

LEMMA InstantsAreTold ==
  ASSUME NEW rrd, NEW age \in 0 .. 1, IsRRD(rrd, age), NEW u \in rrd.known, u <= rrd.last - age,
         u + rrd.oldest - StepAt(rrd.last - age, u) > rrd.last
  PROVE  Remembered(ExtractRRD(rrd, rrd.last - age), rrd.last - age, u)
<1>1. PICK top \in Nat, oldest \in Nat : top = rrd.last /\ oldest = rrd.oldest /\ top \in Int
  BY DEF IsRRD
<1>2. u \in Nat /\ u # 0
  BY <1>1 DEF IsRRD
<1>3. PICK last \in Int : last = rrd.last - age /\ last = top - age
  BY <1>1
<1>4. last = Min({rrd.last, last})
  <2>1. Min({top, last}) = IF top <= last THEN top ELSE last
    BY <1>1, OfTwo
  <2>. QED  BY <1>1, <1>3, <2>1
<1>5. PICK step \in {1, 2, 4} :
        /\ step = StepAt(last, u) /\ step = IF u + 4 > last THEN 1 ELSE IF u + 8 > last THEN 2 ELSE 4
  <2>1. StepAt(last, u) = IF u + 4 > last THEN 1 ELSE IF u + 8 > last THEN 2 ELSE 4
    BY <1>2, StepIs
  <2>. QED  BY <2>1
<1>6. u <= last /\ u + oldest - step > top
  BY <1>1, <1>3, <1>5
<1>7. PICK a1, a2, a3 :
        /\ ExtractRRD(rrd, last) = a3.out
        /\ a1.out \subseteq a2.out /\ a2.out \subseteq a3.out
        /\ \A ts \in Rows1(rrd, last, oldest) : Gives(a1.out, ts)
        /\ \A ts \in Rows2(rrd, last, oldest) : Gives(a2.out, ts)
        /\ \A ts \in Rows3(rrd, last, oldest) : Gives(a3.out, ts)
        /\ \A s \in a1.out : OfTier(s, 1, Rows1(rrd, last, oldest))
        /\ \A s \in a2.out : s \in a1.out \/ OfTier(s, 2, Rows2(rrd, last, oldest))
        /\ \A s \in a3.out : s \in a2.out \/ OfTier(s, 3, Rows3(rrd, last, oldest))
  <2>1. Told(rrd, last, oldest, ExtractRRD(rrd, last))
    BY <1>1, <1>4, ThreeTiers
  <2>. QED  BY <2>1, Zenon DEF Told
<1>. SUFFICES Remembered(a3.out, last, u)
  BY <1>3, <1>7
<1>8. PICK first \in Nat : /\ first % 1 = 0 /\ first = u /\ \A e \in Nat : u <= e + 1 => first <= e - (e % 1) + 1
  <2>1. PICK ts \in Nat : /\ ts % 1 = 0 /\ u <= ts /\ ts < u + 1
                          /\ \A e \in Nat : u <= e + 1 => ts <= e - (e % 1) + 1
    BY <1>2, RowOf
  <2>. QED  BY <1>2, <2>1
<1>9. PICK second \in Nat : /\ second % 2 = 0 /\ u <= second /\ second < u + 2
                            /\ \A e \in Nat : u <= e + 1 => second <= e - (e % 2) + 2
  BY <1>2, RowOf
<1>10. PICK third \in Nat : /\ third % 4 = 0 /\ u <= third /\ third < u + 4
                            /\ \A e \in Nat : u <= e + 1 => third <= e - (e % 4) + 4
  BY <1>2, RowOf
<1>11. ASSUME u + 4 > top, step = 1 PROVE Remembered(a3.out, last, u)
  <2>1. PICK start \in Int : start = IF oldest <= 4 THEN last - oldest - 1 ELSE last - 4
    <3>1. (IF oldest <= 4 THEN last - oldest - 1 ELSE last - 4) \in Int
      OBVIOUS
    <3>. QED  BY <3>1
  <2>2. start < first /\ oldest > 0 /\ last \in Nat /\ u <= last + 1
    BY <1>2, <1>3, <1>6, <1>8, <1>11, <2>1
  <2>3. first <= last - (last % 1) + 1
    BY <1>8, <2>2
  <2>4. first \in fetchTier(rrd, 1, start, last)
    BY <1>1, <1>2, <1>8, <1>11, <2>2, <2>3, TiersAre, FetchIs
  <2>5. PICK s \in a1.out : s.ts = first
    BY <1>7, <2>1, <2>2, <2>4 DEF Gives, Rows1
  <2>6. s.step = 1
    BY <1>7, <2>5, RowsAre DEF InFirst
  <2>. QED  BY <1>2, <1>7, <1>8, <2>5, <2>6 DEF Remembered, Tells
<1>12. ASSUME u <= last - 4 \/ u = last - 3, second + 8 > top, oldest > 5
       PROVE  Remembered(a3.out, last, u)
  <2>1. PICK start \in Int : start = IF oldest <= 8 THEN last - oldest - 1 ELSE last - 8
    <3>1. (IF oldest <= 8 THEN last - oldest - 1 ELSE last - 8) \in Int
      OBVIOUS
    <3>. QED  BY <3>1
  <2>2. PICK end \in Int : end = last - 4
    OBVIOUS
  <2>3. start < second /\ end \in Nat /\ u <= end + 1
    <3>1. second >= u /\ last <= top /\ step >= 1 /\ second + 8 > top /\ (u <= last - 4 \/ u = last - 3)
      BY <1>3, <1>9, <1>12
    <3>. QED  BY <1>2, <1>6, <2>1, <2>2, <3>1
  <2>4. second <= end - (end % 2) + 2
    BY <1>9, <2>3
  <2>5. second \in fetchTier(rrd, 2, start, end)
    BY <1>1, <1>2, <1>9, <1>12, <2>3, <2>4, TiersAre, FetchIs
  <2>6. PICK s \in a2.out : s.ts = second
    BY <1>7, <1>12, <2>1, <2>2, <2>5 DEF Gives, Rows2
  <2>7. CASE OfTier(s, 2, Rows2(rrd, last, oldest))
    <3>1. s.step = 2
      BY <2>7, RowsAre DEF InSecond
    <3>. QED  BY <1>2, <1>7, <1>9, <2>6, <3>1 DEF Remembered, Tells
  <2>8. CASE OfTier(s, 1, Rows1(rrd, last, oldest))
    <3>1. s.step = 1 /\ second > last - 4
      BY <1>12, <2>6, <2>8, RowsAre DEF InFirst
    <3>2. second = Border2(last)
      BY <1>9, <2>2, <2>4, <3>1 DEF Border2
    <3>3. PICK row : row = [ts |-> Border2(last), step |-> 2] /\ row.ts = second /\ row.step = 2
      <4>1. PICK row : row = [ts |-> Border2(last), step |-> 2]
        OBVIOUS
      <4>. QED  BY <3>2, <4>1
    <3>4. row \in {BorderRow(last, k) : k \in 2 .. coarsest}
      BY <3>3, BordersAre
    <3>5. Tells(row, u) /\ GivesWay(a3.out, row)
      BY <1>2, <1>7, <1>9, <2>6, <3>1, <3>3 DEF Tells, GivesWay
    <3>. QED  BY <3>4, <3>5 DEF Remembered
  <2>. QED  BY <1>7, <2>6, <2>7, <2>8
<1>13. ASSUME u <= last - 8 \/ u = last - 7, oldest > 8 PROVE Remembered(a3.out, last, u)
  <2>1. PICK start \in Int : start = last - oldest - 1
    OBVIOUS
  <2>2. PICK end \in Int : end = last - 8
    OBVIOUS
  <2>3. start < third /\ end \in Nat /\ u <= end + 1 /\ third + oldest > top
    BY <1>2, <1>3, <1>5, <1>6, <1>10, <1>13, <2>1, <2>2
  <2>4. third <= end - (end % 4) + 4
    BY <1>10, <2>3
  <2>5. third \in fetchTier(rrd, 3, start, end)
    BY <1>1, <1>2, <1>10, <2>3, <2>4, TiersAre, FetchIs
  <2>6. PICK s \in a3.out : s.ts = third
    BY <1>7, <1>13, <2>1, <2>2, <2>5 DEF Gives, Rows3
  <2>7. CASE OfTier(s, 3, Rows3(rrd, last, oldest))
    <3>1. s.step = 4
      BY <2>7, RowsAre DEF InThird
    <3>. QED  BY <1>2, <1>10, <2>6, <3>1 DEF Remembered, Tells
  <2>8. CASE OfTier(s, 1, Rows1(rrd, last, oldest)) \/ OfTier(s, 2, Rows2(rrd, last, oldest))
    <3>1. s.step < 4 /\ third > last - 8
      BY <1>13, <2>6, <2>8, RowsAre DEF InFirst, InSecond
    <3>2. third = Border3(last)
      BY <1>10, <2>2, <2>4, <3>1 DEF Border3
    <3>3. PICK row : row = [ts |-> Border3(last), step |-> 4] /\ row.ts = third /\ row.step = 4
      <4>1. PICK row : row = [ts |-> Border3(last), step |-> 4]
        OBVIOUS
      <4>. QED  BY <3>2, <4>1
    <3>4. row \in {BorderRow(last, k) : k \in 2 .. coarsest}
      BY <3>3, BordersAre
    <3>5. Tells(row, u) /\ GivesWay(a3.out, row)
      BY <1>2, <1>10, <2>6, <3>1, <3>3 DEF Tells, GivesWay
    <3>. QED  BY <3>4, <3>5 DEF Remembered
  <2>. QED  BY <1>7, <2>6, <2>7, <2>8
<1>14. CASE u + 4 > top
  BY <1>2, <1>3, <1>5, <1>11, <1>14
<1>15. CASE u + 4 <= top /\ u + 4 > last
  <2>1. u = last - 3 /\ age = 1 /\ oldest > 5 /\ second + 8 > top /\ step = 1
    BY <1>2, <1>3, <1>5, <1>6, <1>9, <1>15
  <2>. QED  BY <1>12, <2>1
<1>16. CASE u + 4 <= last /\ u + 8 > last
  <2>1. step = 2 /\ oldest > 5 /\ u <= last - 4
    BY <1>2, <1>3, <1>5, <1>6, <1>16
  <2>2. CASE second + 8 > top
    BY <1>12, <2>1, <2>2
  <2>3. CASE second + 8 <= top
    <3>1. u = last - 7 /\ oldest > 8
      BY <1>2, <1>3, <1>6, <1>9, <1>16, <2>1, <2>3
    <3>. QED  BY <1>13, <3>1
  <2>. QED  BY <1>9, <2>2, <2>3
<1>17. CASE u + 8 <= last
  <2>1. step = 4 /\ oldest > 8 /\ u <= last - 8
    BY <1>2, <1>3, <1>5, <1>6, <1>17
  <2>. QED  BY <1>13, <2>1
<1>. QED  BY <1>2, <1>3, <1>14, <1>15, <1>16, <1>17

(* The samples, wherever their rows are.                                   *)
LEMMA SamplesAre ==
  ASSUME NEW rrd, NEW last \in Int, NEW oldest \in Nat, NEW out, Told(rrd, last, oldest, out)
  PROVE  TellsOnce(out) /\ \A s \in out : Placed(s, last, oldest)
<1>1. PICK a1, a2, a3 :
        /\ out = a3.out
        /\ TellsOnce(a3.out)
        /\ \A s \in a1.out : OfTier(s, 1, Rows1(rrd, last, oldest))
        /\ \A s \in a2.out : s \in a1.out \/ OfTier(s, 2, Rows2(rrd, last, oldest))
        /\ \A s \in a3.out : s \in a2.out \/ OfTier(s, 3, Rows3(rrd, last, oldest))
  BY Zenon DEF Told
<1>2. ASSUME NEW s \in out PROVE Placed(s, last, oldest)
  <2>1. \/ OfTier(s, 1, Rows1(rrd, last, oldest))
        \/ OfTier(s, 2, Rows2(rrd, last, oldest))
        \/ OfTier(s, 3, Rows3(rrd, last, oldest))
    BY <1>1, <1>2
  <2>. QED  BY <2>1, RowsAre DEF Placed
<1>. QED  BY <1>1, <1>2

LEMMA HistoriesStitch == ASSUME input \in Inputs PROVE HistoryStitches
<1>. SUFFICES ASSUME input.kind = "history" PROVE HistoryStitches
  BY DEF HistoryStitches
<1>1. PICK rrd, age : rrd = input.t /\ age = input.u /\ IsRRD(rrd, age) /\ age \in 0 .. 1 /\ rrd.last \in Nat
  BY DocumentAssumption DEF IsRRD
<1>2. PICK last \in Int, oldest \in Nat :
        last = rrd.last - age /\ last = Min({rrd.last, last}) /\ oldest = rrd.oldest
  <2>1. PICK top \in Int, was \in Int, oldest \in Nat :
          top = rrd.last /\ was = rrd.last - age /\ was <= top /\ oldest = rrd.oldest
    BY <1>1 DEF IsRRD
  <2>2. Min({top, was}) = IF top <= was THEN top ELSE was
    BY OfTwo
  <2>. QED  BY <2>1, <2>2
<1>3. PICK out : out = ExtractRRD(rrd, last)
  OBVIOUS
<1>4. TellsOnce(out) /\ \A s \in out : Placed(s, last, oldest)
  <2>1. Told(rrd, last, oldest, out)
    BY <1>2, <1>3, ThreeTiers
  <2>. QED  BY <2>1, SamplesAre
<1>5. PICK atBorders : /\ atBorders = {BorderRow(last, k) : k \in 2 .. coarsest}
                       /\ atBorders = {[ts |-> Border2(last), step |-> 2], [ts |-> Border3(last), step |-> 4]}
  BY <1>2, BordersAre
<1>6. \A s, z \in out : s.ts = z.ts => s = z
  BY <1>4 DEF TellsOnce
<1>7. \A s, z \in out \ atBorders : \A u \in rrd.known : Tells(s, u) /\ Tells(z, u) => s = z
  <2>. SUFFICES ASSUME NEW s \in out \ atBorders, NEW z \in out \ atBorders, NEW u \in rrd.known,
                       Tells(s, u), Tells(z, u)
                PROVE  s = z
    OBVIOUS
  <2>1. u \in Int
    BY <1>1 DEF IsRRD
  <2>2. s.ts = z.ts
    BY <1>4, <1>5, <2>1, RowsApart
  <2>. QED  BY <1>6, <2>2
<1>8. \A u \in rrd.known :
        u <= last /\ u + rrd.oldest - StepAt(last, u) > rrd.last =>
          \/ \E s \in out : Tells(s, u)
          \/ \E row \in atBorders : Tells(row, u) /\ GivesWay(out, row)
  BY <1>1, <1>2, <1>3, <1>5, InstantsAreTold DEF Remembered
<1>. QED  BY <1>1, <1>2, <1>3, <1>5, <1>6, <1>7, <1>8 DEF HistoryStitches

(* For every document, import and archive: an import repeated changes      *)
(* nothing, names that were left are free, history goes where it is read,  *)
(* and what an archive still has of it is told once, but for one row at    *)
(* each tier's border (AppendImport, MintNewIDs, resolve, ExtractRRD).     *)
THEOREM ImportsKeepWhatIsThere == SpecDocuments => []ImportsKeepTargets
<1>1. ASSUME input \in Inputs PROVE ImportsKeepTargets
  BY <1>1, ImportsRepeat, OldNamesStayFree, HistoriesAreShown, HistoriesStitch DEF ImportsKeepTargets
<1>. QED  BY <1>1, ExaminesOne, PTL
=============================================================================
