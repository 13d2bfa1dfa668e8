------------------------------ MODULE MCServers ------------------------------
(***************************************************************************)
(* Three groups of two tools, of which a lite server lists three; an       *)
(* AGENTS.md with a good line of either key or a bad one.  Three casts     *)
(* have the MCP server alone: with an editor and two requests at once,     *)
(* with groups that the operator hides, and with every kind of line and a  *)
(* store that may not open.  The fourth has the three processes.           *)
(***************************************************************************)
EXTENDS Servers

MCGroups == [core |-> {"doctor"}, search |-> {"search"}, index |-> {"index", "history"}]
MCCatalogue == {"doctor", "search", "index"}
Line(key, list) == [key |-> key, list |-> list]
MCContents == {<<Line("disable", {"search"}), Line("tools", {"nosuch", "index"})>>,
               <<Line("disable", {"history"}), Line("tools", {"index"})>>}
Unset == [tools |-> {}, disable |-> {}]
NoIndex == [Unset EXCEPT !.disable = {{"index"}}]
NoCore == [Unset EXCEPT !.disable = {{"core"}}]   \* stops the server
MCCasts ==
    {[procs |-> {"mcp"}, envs |-> {Unset}, ids |-> {1, 2}, edits |-> 1, opens |-> {"store"},
      calls |-> {<<"call", "search">>}, kinds |-> {"initialize", "list", "call"}],
     [procs |-> {"mcp"}, envs |-> {NoIndex, NoCore}, ids |-> {1}, edits |-> 2, opens |-> {"store"},
      calls |-> {<<"call", "search">>, <<"batch", "search">>},
      kinds |-> {"initialize", "list", "call", "batch"}],
     [procs |-> {"mcp"}, envs |-> {Unset}, ids |-> {1}, edits |-> 0, opens |-> {"store", "none"},
      calls |-> {<<"call", "history">>},
      kinds |-> {"initialize", "call", "other", "silent", "garbage"}],
     [procs |-> {"mcp", "http", "cli"}, envs |-> {Unset}, ids |-> {1}, edits |-> 0,
      opens |-> {"store", "none"}, calls |-> {<<"call", "search">>}, kinds |-> {"call"}]}
=============================================================================
