---------------------------- MODULE MCAlgorithms ----------------------------
(***************************************************************************)
(* The pure algorithms of the system against what their documentation says *)
(* of them, over bounded inputs: alert matchers at work on streams of      *)
(* rounds (AlertWatch), and edits, summaries and imports of config trees   *)
(* and histories (ConfigDocuments).  A behaviour examines one input.       *)
(***************************************************************************)
EXTENDS AlertWatch, ConfigDocuments, TLC

MCRounds == {[loss |-> 0, rtt |-> 1], [loss |-> 40, rtt |-> 5], [loss |-> 100, rtt |-> U]}

Tokens == {[op |-> ">=", val |-> 5], [op |-> "<", val |-> 5], [op |-> "!=", val |-> 0],
           [op |-> "==U", val |-> 0], [op |-> "any", val |-> 0], [op |-> "skip", val |-> 0],
           [op |-> "skip", val |-> 1], [op |-> "skip", val |-> 2]}

Patterns == {[kind |-> "pattern", field |-> f, steps |-> s] :
              f \in {"loss", "rtt"}, s \in UNION {[1 .. n -> Tokens] : n \in 1 .. 3}}

MCMatchers == {p \in Patterns : Accepted(p.field, p.steps)}
              \cup [kind : {"loss"}, L : {1, 40, 100}, X : 1 .. 3]
              \cup [kind : {"rtt"}, L : {1, 5}, X : 1 .. 3]

A == <<"a">>
B == <<"b">>
AA == <<"a", "a">>
AB == <<"a", "b">>
BA == <<"b", "a">>
Minted == UUID(<<"z">>)   \* for a target that was at z

Node(host, id, own) == own @@ [EmptyNode EXCEPT !.host = host, !.id = id]

(* Trees of plain targets, each with an id of its own: its path, another   *)
(* it was born at, or a UUID.                                              *)
IdTrees ==
  UNION {{[p \in UNION {Chain(q) : q \in H} |->
             IF p \in H THEN Node("h", id[p], <<>>) ELSE EmptyNode] :
            id \in {f \in [H -> {A, B, AA, Minted}] : IsInjective(f)}}
         : H \in SUBSET {A, B, AA, AB, BA}}

(* Trees whose settings vary: a is absent, a group or a target, with a     *)
(* target below it or none; b is a target or absent.                       *)
Own == {[probe |-> ""], [params |-> "x" :> "1"], [vantages |-> {}], [vantages |-> {"v"}]}
Varied ==
  LET a == {Node(h, NoId, own) : h \in {"", "h"}, own \in Own}
      leaf == {Node("h", NoId, own) : own \in Own \ {[vantages |-> {"v"}]}}
      optional == {<<>>, [p \in {B} |-> Node("h", NoId, <<>>)]}
      tops == {<<>>} \cup [{A} -> {n \in a : n.host # ""}]
                \cup {f @@ g : f \in [{A} -> a], g \in [{AA} -> leaf]} IN
    {f @@ g : f \in tops, g \in optional}

MCKeys == {"a", "b", "c", "d", "f"}
MCRefs == {A, B, AA, AB, Minted}
MCGroups == {A, B, AA, <<"c", "d">>}
MCSettings == {[probe |-> "P"], [host |-> "i"]}

(* The file config: the tree-wide defaults, and a target without an id.    *)
MCRoot == [probe |-> "Ping", params |-> NoParams, vantages |-> {"local"}]
MCFile == [p \in {<<"f">>} |-> Node("h", NoId, <<>>)]

(* RRDs measured without a break but one.                                  *)
RRDs ==
  {[last |-> last, oldest |-> oldest, known |-> (1 .. last) \ (gap .. (gap + n))] :
     last \in 20 .. 23, oldest \in {8, 12, 16}, gap \in 1 .. 23, n \in {0, 1, 2, 5}}

Idle == matcher = [kind |-> "none"] /\ capacity = 0 /\ history = <<>> /\ window = <<>> /\ firing = FALSE

MCInputs ==
  [kind : {"edit"}, t : IdTrees, u : {<<>>}] \cup [kind : {"diff", "import"}, t : Varied, u : Varied]
    \cup [kind : {"reuse"}, t : IdTrees, u : {WithoutIDs(t) : t \in IdTrees}]
    \cup [kind : {"history"}, t : RRDs, u : {0, 1}]

InitAlgorithms ==
  \/ InitWatch /\ input = [kind |-> "none"]
  \/ Idle /\ InitDocuments

NextAlgorithms == input.kind = "none" /\ NextWatch /\ UNCHANGED input

SpecAlgorithms == InitAlgorithms /\ [][NextAlgorithms]_<<watched, input>>
=============================================================================
