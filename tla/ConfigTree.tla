----------------------------- MODULE ConfigTree -----------------------------
(***************************************************************************)
(* Config documents as trees: inheritance and validation                   *)
(* (internal/config), the import merge, and the edits and the change       *)
(* summary of the MCP server's staging session (internal/mcp).             *)
(*                                                                         *)
(* A tree is a function from the paths of its nodes, a prefix-closed set   *)
(* of non-empty sequences of keys, to their own settings:                  *)
(*   host      "" for a group, else the node is a target                   *)
(*   id        NoId, the path it was born at, or a UUID                    *)
(*   probe     "" inherits; so do pings and step                           *)
(*   params    merged with the inherited ones                              *)
(*   vantages  Nil inherits, {} clears; so do alerts and alertee           *)
(* Titles, pinned addresses and weights are left out.                      *)
(***************************************************************************)
EXTENDS Naturals, FiniteSets, Sequences, SequencesExt

NoId == <<>>
UUID(p) == <<"uuid">> \o p    \* the one minted for a target that is at p
Nil == {"nil"}
NoParams == [k \in {} |-> ""]
EmptyNode == [host |-> "", id |-> NoId, probe |-> "", params |-> NoParams, vantages |-> Nil]

Hosts(t) == {p \in DOMAIN t : t[p].host # ""}
Restricted(t, P) == [p \in DOMAIN t \cap P |-> t[p]]
Under(t, p) == {q \in DOMAIN t : IsPrefix(p, q)}
(* A path and the groups above it.                                         *)
Chain(p) == {SubSeq(p, 1, i) : i \in 1 .. Len(p)}
(* The element of S, or the default.                                       *)
Only(S, default) == IF S = {} THEN default ELSE CHOOSE e \in S : TRUE
(* Two trees, or a node and the settings it is given: t's come first.      *)
Joined(t, u) == [p \in DOMAIN t \cup DOMAIN u |-> IF p \in DOMAIN t THEN t[p] ELSE u[p]]

-----------------------------------------------------------------------------
(* Inheritance: root holds the tree-wide defaults.                         *)

storageID(n, p) == IF n.id = NoId THEN p ELSE n.id

(* A node's own settings over what it inherits; an empty list clears.      *)
Overlay(inherited, n) ==
  [probe    |-> IF n.probe = "" THEN inherited.probe ELSE n.probe,
   params   |-> Joined(n.params, inherited.params),
   vantages |-> IF n.vantages = Nil THEN inherited.vantages ELSE n.vantages]

Effective(t, root, p) ==
  LET upTo[i \in 0 .. Len(p)] ==
        IF i = 0 THEN root ELSE Overlay(upTo[i - 1], t[SubSeq(p, 1, i)])
  IN upTo[Len(p)]

Monitors(t, root) ==
  [p \in Hosts(t) |->
     [id |-> storageID(t[p], p), host |-> t[p].host, settings |-> Effective(t, root, p)]]

(* Monitors finds no problem.                                              *)
Valid(t, root) ==
  LET m == Monitors(t, root) IN
    /\ \A p \in DOMAIN t : t[p].host # "" \/ Under(t, p) # {p}
    /\ \A p \in Hosts(t) : m[p].settings.probe # "" /\ m[p].settings.vantages # {}
    /\ \A p, q \in Hosts(t) : m[p].id = m[q].id => p = q

-----------------------------------------------------------------------------
(* Fragments and imports: whole branches under the root.                   *)

Branches(t) == {p \in DOMAIN t : Len(p) = 1}
WithoutIDs(t) == [p \in DOMAIN t |-> [t[p] EXCEPT !.id = NoId]]

nodesEqual(t, u, b) ==
  WithoutIDs(Restricted(t, Under(t, b))) = WithoutIDs(Restricted(u, Under(u, b)))

(* AppendDBFragment: the composed tree, or nothing.                        *)
AppendDBFragment(file, frag) ==
  IF Branches(file) \cap Branches(frag) # {} THEN {} ELSE {Joined(file, frag)}

(* Where the history of the target at a path is stored: its key in the one *)
(* config that defines it, or nowhere.  The file config is <<>> or <<it>>: *)
(* without it and without targets in the database, it is the path.         *)
resolve(fileCfg, db, p) ==
  LET configs == Append(fileCfg, db)
      dests == {i \in DOMAIN configs : p \in Hosts(configs[i])} IN
    IF fileCfg = <<>> /\ Hosts(db) = {} THEN {p}
    ELSE IF Cardinality(dests) = 1 THEN {storageID(configs[i][p], p) : i \in dests}
    ELSE {}

(* AppendImport: the merged document, or nothing if a branch both have is  *)
(* not the same in both.                                                   *)
AppendImport(db, imp) ==
  IF \E b \in Branches(db) \cap Branches(imp) : ~nodesEqual(db, imp, b)
  THEN {}
  ELSE {Joined(db, Restricted(imp, UNION {Under(imp, b) : b \in Branches(imp) \ Branches(db)}))}

(* Seeded fault: a new target gets its path for an id.                     *)
MintPaths(t) ==
  [p \in DOMAIN t |->
     IF t[p].host # "" /\ t[p].id = NoId THEN [t[p] EXCEPT !.id = p] ELSE t[p]]

MintNewIDs(t) ==
  [p \in DOMAIN t |->
     IF t[p].host # "" /\ t[p].id = NoId THEN [t[p] EXCEPT !.id = UUID(p)] ELSE t[p]]

-----------------------------------------------------------------------------
(* The edits of a staging session.  Each is the set of what it may leave:  *)
(* empty if it is refused.                                                 *)

ensureGroup(t, group) ==
  [p \in DOMAIN t \cup Chain(group) |-> IF p \in DOMAIN t THEN t[p] ELSE EmptyNode]

(* Targets by id first, then the node at the path.                         *)
findNode(t, ref) ==
  LET byID == {p \in Hosts(t) : t[p].id = ref} IN
    IF byID # {} THEN byID ELSE {ref} \cap DOMAIN t

(* Seeded fault: a target may move below itself.                           *)
groupPathEntersNever(group, p) == FALSE

groupPathEnters(group, p) == IsPrefix(p, group)

pruneEmpty(t) == Restricted(t, {p \in DOMAIN t : Under(t, p) \cap Hosts(t) # {}})

stageAddTarget(t, group, name, node) ==
  LET p == Append(group, name) IN
    IF p \in DOMAIN t THEN {} ELSE {Joined(ensureGroup(t, group), [q \in {p} |-> node])}

(* Detach the subtree at p, and attach it at dst: out of reach if that is  *)
(* in the subtree.                                                         *)
Move(t, p, dst) ==
  LET from(q) == p \o SubSeq(q, Len(dst) + 1, Len(q))
      to(r) == dst \o SubSeq(r, Len(p) + 1, Len(r))
      rest == Restricted(t, DOMAIN t \ Under(t, p))
      moved == [q \in {to(r) : r \in Under(t, p)} |-> t[from(q)]] IN
    IF IsPrefix(p, Front(dst)) THEN rest ELSE Joined(moved, rest)

(* settings: the own settings given; group and name: {} or {the new one}.  *)
stageEditTarget(t, ref, settings, group, name) ==
  UNION {LET to    == Only(group, Front(p))
             dst   == Append(to, Only(name, Last(p)))
             grown == ensureGroup([t EXCEPT ![p] = Joined(settings, @)], to) IN
           IF \/ t[p].host = ""
              \/ group # {} /\ groupPathEnters(to, p)
              \/ dst \in DOMAIN grown /\ dst # p
           THEN {}
           ELSE {pruneEmpty(Move(grown, p, dst))}
         : p \in findNode(t, ref)}

stageRemoveTarget(t, ref) ==
  UNION {IF t[p].host = "" THEN {} ELSE {pruneEmpty(Restricted(t, DOMAIN t \ Under(t, p)))}
         : p \in findNode(t, ref)}

-----------------------------------------------------------------------------
(* The summary of a session's changes.                                     *)

(* Seeded fault: what is inherited does not count.                         *)
ownSettings(t, p) == <<t[p]>>

inheritedSettings(t, p) == [i \in 1 .. Len(p) |-> t[SubSeq(p, 1, i)]]

diffDocs(b, w) ==
  LET Targets == Hosts(b) \cap Hosts(w)
      Groups(t) == DOMAIN t \ Hosts(t) IN
    [Added         |-> Hosts(w) \ Hosts(b),
     Removed       |-> Hosts(b) \ Hosts(w),
     Changed       |-> {p \in Targets : inheritedSettings(b, p) # inheritedSettings(w, p)},
     GroupsAdded   |-> Groups(w) \ Groups(b),
     GroupsRemoved |-> Groups(b) \ Groups(w),
     GroupsChanged |-> {p \in Groups(b) \cap Groups(w) : b[p] # w[p]}]

SaysNothing(cs) == \A f \in DOMAIN cs : cs[f] = {}
=============================================================================
