------------------------------- MODULE Servers -------------------------------
(***************************************************************************)
(* The processes that may share one store: an MCP server with its client   *)
(* and its AGENTS.md, an HTTP server with its connections, and command     *)
(* line runs.  They meet at the store's file lock only.                    *)
(***************************************************************************)
EXTENDS Naturals, Sequences, FiniteSets

CONSTANTS GROUPS, CATALOGUE, Ids, Contents,        \* of ToolSurface and McpServer
          Conns,                                   \* of HttpServer
          Free,
          Casts     \* which processes run: [procs, envs, ids, edits, opens, calls, kinds]

ASSUME GroupsAssumption ==
    /\ "core" \in DOMAIN GROUPS
    /\ \A g, h \in DOMAIN GROUPS : g # h => GROUPS[g] \cap GROUPS[h] = {}
    /\ CATALOGUE \subseteq UNION {GROUPS[g] : g \in DOMAIN GROUPS}

ASSUME FreeAssumption == Free \notin Conns \cup {"open", "mcp", "http", "cli"}

ASSUME CastsAssumption == \A c \in Casts : c.edits \in Nat

VARIABLES agents, edits, env, surface, filtered, initialized, opened, registered, pc,
          request, inbox, outbox, client, pending,
          conn, wants, reply, mutex, poisoned,
          store, behind,
          cast      \* the processes of this behaviour

M == INSTANCE McpServer
H == INSTANCE HttpServer

mcpVars == <<agents, edits, env, surface, filtered, initialized, opened, registered, pc,
             request, inbox, outbox, client, pending>>
httpVars == <<conn, wants, reply, mutex, poisoned>>
vars == <<mcpVars, httpVars, store, behind, cast>>

Init ==
    /\ cast \in Casts
    /\ edits = cast.edits
    /\ env \in cast.envs
    /\ M!McpInit
    /\ H!HttpInit
    /\ store = Free
    /\ behind = {}
    /\ edits = 0 => agents.stamp = 0     \* bound: an editor's file is there for an editor

\* A command-line run opens the store, may write it, and exits or is killed.
CliTakes ==
    /\ "cli" \in cast.procs /\ store = Free
    /\ store' = "cli"
    /\ UNCHANGED <<mcpVars, httpVars, behind, cast>>

CliEnds ==
    /\ store = "cli"
    /\ store' = Free
    /\ behind' \in {behind, {"mcp", "http"}}
    /\ UNCHANGED <<mcpVars, httpVars, cast>>

\* Bound: the cast's client writes the cast's kinds of lines.
Lines ==
    {line \in M!Requests \cup M!Silent \cup M!Garbage :
        /\ line.kind \in cast.kinds
        /\ line \in M!Requests => line.id \in cast.ids
        /\ line.kind \in {"call", "batch"} => <<line.kind, line.tool>> \in cast.calls}

Mcp == "mcp" \in cast.procs /\ UNCHANGED <<httpVars, cast>>
McpLoop == M!Loop /\ Mcp
McpTakes == M!Takes /\ Mcp
McpOpens == M!OpenSends /\ Mcp /\ opened' \in cast.opens
McpReceives == M!Receive /\ Mcp
McpStep ==
    \/ McpLoop \/ McpTakes \/ McpOpens \/ McpReceives
    \/ (M!Stops \/ M!Edit \/ \E line \in Lines : M!Write(line)) /\ Mcp

Http == "http" \in cast.procs /\ UNCHANGED <<mcpVars, cast>>
HttpWorks(c) == H!Work(c) /\ Http
HttpWaits(c) == H!Waits(c) /\ Http
HttpStep == \E c \in Conns : HttpWorks(c) \/ HttpWaits(c) \/ ((H!Accept(c) \/ H!Stops(c)) /\ Http)

Next == McpStep \/ HttpStep \/ CliTakes \/ CliEnds

(***************************************************************************)
(* Threads run, tools and command-line runs end, and the client reads what *)
(* it is sent (weak).  The kernel and the mutex pass over nobody for ever  *)
(* (strong).  Nothing is assumed of edits, requests, panics or failures.   *)
(***************************************************************************)
Fairness ==
    /\ WF_vars(McpLoop) /\ WF_vars(McpOpens) /\ WF_vars(McpReceives) /\ SF_vars(McpTakes)
    /\ \A c \in Conns : WF_vars(HttpWorks(c)) /\ SF_vars(HttpWaits(c))
    /\ WF_vars(CliEnds)

Spec == Init /\ [][Next]_vars /\ Fairness

-----------------------------------------------------------------------------
\* Every piece of state has its type, a request is in one place at a time, and
\* the mutex is held by the connection that works (a part of RunsOnWholeRows).
TypeOK ==
    /\ store \in {Free, "open", "mcp", "http", "cli"}
    /\ behind \subseteq {"mcp", "http"}
    /\ pc \in {"read", "stat", "reload", "text", "handle", "take", "run", "ended"}
    /\ opened \in {"opening", "store", "none"}
    /\ pending \subseteq Ids
    /\ pc # "ended" => Cardinality(pending) = Cardinality({i \in DOMAIN inbox : inbox[i] \in M!Requests})
            + (IF request = M!Idle THEN 0 ELSE 1)
            + Cardinality({i \in DOMAIN outbox : outbox[i].kind = "answer"})
    /\ mutex \in Conns \cup {Free}
    /\ conn \in [Conns -> {"idle", "reading", "answer", "engine", "run"}]
    /\ \A c \in Conns : conn[c] \in {"engine", "run"} <=> mutex = c

\* Once a stamp has been compared equal, the selection in force is that of
\* the AGENTS.md with this stamp: no edit stays unseen, however stat, stat and
\* read of a refresh interleave with the editor; and the cached listing is the
\* one of this selection (Surface::refresh, Surface::reload, filtered).
SurfaceCurrent ==
    /\ surface.stamp = agents.stamp /\ pc # "text" =>
           M!Selection = M!Select(env, M!FileLists(agents.lines))
    /\ filtered # {} => filtered = {M!Visible(M!Selection)}

\* A client that has read everything, and was not told of a change since it
\* listed the tools, has the list in force (tools/list, list_changed).
ClientInStep ==
    client.list # {} /\ ~client.stale /\ outbox = <<>> => client.list = {M!Visible(M!Selection)}

\* A call of a listed tool is refused as hidden only after the client was told
\* that the list changed, and only a listed one runs (tools_call, batch_one).
CallsFitTheList ==
    LET m == Head(outbox) IN
    /\ outbox # <<>> /\ m.kind = "answer" /\ m.to.kind \in {"call", "batch"}
    /\ client.list # {} /\ ~client.stale
    => \A list \in client.list :
            /\ m.outcome = "hidden" => m.to.tool \notin list
            /\ m.outcome \in {"ran", "failed"} /\ m.to.tool \in CATALOGUE => m.to.tool \in list

\* A tool runs on the rows of the last process that wrote, and what a
\* panicking tool left half done is in no later answer (reacquire_store, the
\* poisoned Mutex); with the types of the state.
RunsOnWholeRows ==
    /\ TypeOK
    /\ store = "mcp" /\ pc = "run" => "mcp" \notin behind
    /\ \A c \in Conns : /\ conn[c] = "run" => "http" \notin behind
                        /\ reply[c] # "torn"

\* Every request with an id gets its answer, unless the server ends first or
\* an HTTP server has panicked with the store; every connection is answered or
\* closed, also after a panic.
Answered ==
    /\ \A i \in Ids : i \in pending ~> (i \notin pending \/ pc = "ended" \/ poisoned)
    /\ \A c \in Conns : conn[c] # "idle" ~> conn[c] = "idle"

\* The store comes free again and again, unless an HTTP tool has panicked.
StoreComesFree == []<>(store = Free \/ poisoned)
=============================================================================
