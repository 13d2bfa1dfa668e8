----------------------------- MODULE ToolSurface -----------------------------
(***************************************************************************)
(* Which tools the MCP server exposes: the groups of src/src/mcp/groups.rs, *)
(* the operator's lists STELE_TOOLS and STELE_DISABLE, and the agent-tools *)
(* block of the project's AGENTS.md.  A list is a set of group names, tool *)
(* names and "all"; an optional list is {} when it is unset, else {list}.  *)
(***************************************************************************)
EXTENDS Naturals, Sequences, SequencesExt

CONSTANTS GROUPS,     \* the tools of each group, a function of group names
          CATALOGUE   \* the tools of this server's STELE_MCP_MODE

GroupNames == DOMAIN GROUPS
AllTools == UNION {GROUPS[g] : g \in GroupNames}

\* A name in no group counts as core.
GroupOf(tool) ==
    IF tool \in AllTools THEN CHOOSE g \in GroupNames : tool \in GROUPS[g] ELSE "core"

Named(tool) == {GroupOf(tool), tool}

NotListed(sel, tool) ==
    \E list \in sel.allow : "all" \notin list /\ Named(tool) \cap list = {}

Denied(sel, tool) == Named(tool) \cap sel.deny # {}

Hidden(sel, tool) == GroupOf(tool) # "core" /\ (NotListed(sel, tool) \/ Denied(sel, tool))

Visible(sel) == {tool \in CATALOGUE : ~Hidden(sel, tool)}

Default(sel) == sel.allow = {} /\ sel.deny = {}

\* A denylist names no core group or tool, and only an allowlist says "all".
Checked(list, allowAll) ==
    /\ list \subseteq GroupNames \cup AllTools \cup (IF allowAll THEN {"all"} ELSE {})
    /\ allowAll \/ list \cap ({"core"} \cup GROUPS["core"]) = {}

EnvValid(env) ==
    /\ \A list \in env.tools : Checked(list, TRUE)
    /\ \A list \in env.disable : Checked(list, FALSE)

\* Lines of one key are merged; a line with a bad entry is ignored whole.
Merged(lines, key) ==
    LET good == {i \in DOMAIN lines : /\ lines[i].key = key
                                      /\ lines[i].list # {}
                                      /\ Checked(lines[i].list, key = "tools")}
    IN  IF good = {} THEN {} ELSE {UNION {lines[i].list : i \in good}}

FileLists(lines) == [tools |-> Merged(lines, "tools"), disable |-> Merged(lines, "disable")]

\* Per key the operator's variable beats the agent's lines.
Select(env, lists) ==
    [allow |-> IF env.tools # {} THEN env.tools ELSE lists.tools,
     allowFrom |-> IF env.tools # {} THEN "env" ELSE "file",
     deny |-> UNION (IF env.disable # {} THEN env.disable ELSE lists.disable),
     denyFrom |-> IF env.disable # {} THEN "env" ELSE "file"]

\* What the error of a call to a hidden tool tells the reader to change.
Refusal(sel, tool) ==
    IF NotListed(sel, tool)
    THEN [from |-> sel.allowFrom, key |-> "tools", item |-> GroupOf(tool)]
    ELSE [from |-> sel.denyFrom, key |-> "disable",
          item |-> IF tool \in sel.deny THEN tool ELSE GroupOf(tool)]

-----------------------------------------------------------------------------
(* Somebody who calls a hidden tool and does what the refusal says: at.env *)
(* has the variables and at.lists the lines of AGENTS.md.                  *)

SelectionAt(at) == Select(at.env, at.lists)

\* A list that has become blank counts as unset.
Added(lists, item) == {list \cup {item} : list \in lists}
Dropped(lists, item) == {list \ {item} : list \in lists} \ {{}}

Changed(at, why) ==
    CASE why.from = "env" /\ why.key = "tools"    -> [at EXCEPT !.env.tools = Added(@, why.item)]
      [] why.from = "env" /\ why.key = "disable"  -> [at EXCEPT !.env.disable = Dropped(@, why.item)]
      [] why.from = "file" /\ why.key = "tools"   -> [at EXCEPT !.lists.tools = Added(@, why.item)]
      [] why.from = "file" /\ why.key = "disable" -> [at EXCEPT !.lists.disable = Dropped(@, why.item)]

Follow(at, tool) ==
    IF Hidden(SelectionAt(at), tool) THEN Changed(at, Refusal(SelectionAt(at), tool)) ELSE at

\* The list of allowed tools, and tool and group in both lists of disabled ones.
Followed(at, tool) ==
    LET once(x) == Follow(x, tool) IN once(once(once(once(once(at)))))

-----------------------------------------------------------------------------
(* AGENTS.md line by line: fence lines, stele lines and other text.        *)

Closes(line, open) ==
    /\ line.kind = "fence"
    /\ line.ch = open.ch /\ line.len >= open.len /\ line.info = ""

\* The scan's state: the open fence if any, whether it is the agent-tools
\* block, the lines taken so far, and whether that block has ended.
ScanLine(scan, line) ==
    CASE scan.done -> scan
      [] ~scan.done /\ scan.open = {} ->
            IF line.kind = "fence"
            THEN [scan EXCEPT !.open = {line}, !.inside = line.info = "agent-tools"]
            ELSE scan
      [] OTHER ->
            IF \E open \in scan.open : Closes(line, open)
            THEN [scan EXCEPT !.open = {}, !.done = scan.inside]
            ELSE IF scan.inside /\ line.kind = "stele"
                 THEN [scan EXCEPT !.taken = Append(@, line)]
                 ELSE scan

AgentToolsLines(text) ==
    FoldLeft(ScanLine, [open |-> {}, inside |-> FALSE, taken |-> <<>>, done |-> FALSE],
             text).taken
=============================================================================
