---------------------------- MODULE MCFederation ----------------------------
EXTENDS Federation

At(name, def) == [name |-> name, def |-> def, here |-> TRUE]
First == [x |-> At("x", "d1"), y |-> Absent]
Moved == [x |-> At("z", "d1"), y |-> At("x", "d2")]   \* y has moved to x's first path
MCConfigs ==
  { First, Moved,
    [x |-> At("x", "d2"), y |-> At("y", "d3")],
    [x |-> At("z", "d1"), y |-> At("x", "d1")],
    [x |-> [At("z", "d1") EXCEPT !.here = FALSE], y |-> At("x", "d1")] }
MCBoots == {First, Moved}
MCStatKey == [d1 |-> "s1", d2 |-> "s2", d3 |-> "s1"]

Scene(agent, admin, rounds, events, losses) ==
  [agent |-> agent, strict |-> agent # "bare", posts |-> 1 + Min({losses, 1}),
   admin |-> admin, rounds |-> rounds, events |-> events, losses |-> losses]
MCScenes ==
  { Scene("byId", 3, 0, 0, 0), Scene("byId", 2, 1, 0, 0),
    Scene("byId", 0, 1, 2, 1), Scene("byId", 0, 2, 0, 2), Scene("byId", 0, 2, 1, 0),
    Scene("byName", 0, 1, 1, 1), Scene("bare", 0, 1, 1, 1),
    Scene("byId", 0, 3, 0, 0), [Scene("bare", 0, 1, 0, 0) EXCEPT !.strict = TRUE] }

=============================================================================
