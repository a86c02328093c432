--------------------------- MODULE MCConfigPlane ---------------------------
(* Instances of ConfigPlane: an empty database, or a fragment from before  *)
(* there were ids.                                                         *)
EXTENDS ConfigPlane

Habit(who, rereads, lasts) == [who |-> who, rereads |-> rereads, lasts |-> lasts]

(* The dashboard, reloaded after a save or not, and imports through the    *)
(* hub; the MCP server, whose session lasts or ends, and the import        *)
(* command.                                                                *)
UnreadDashboard == {Habit({"dash"}, FALSE, TRUE)}
ShortSession == {Habit({"mcp"}, TRUE, FALSE)}
MCHabits ==
  {Habit({"dash", "import"}, TRUE, TRUE), Habit({"mcp", "command"}, TRUE, TRUE)}
    \cup UnreadDashboard \cup ShortSession

MCInitialDocs == {NoDoc, [n \in {"a"} |-> NewTarget]}
=============================================================================
