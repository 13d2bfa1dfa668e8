------------------------------ MODULE McpServer ------------------------------
(***************************************************************************)
(* The MCP server of src/src/mcp/mod.rs: one loop over the lines of its    *)
(* standard input, a thread that opens the store meanwhile, an AGENTS.md   *)
(* that an editor changes at any moment, and the client at the other end   *)
(* of the two pipes.                                                       *)
(***************************************************************************)
EXTENDS ToolSurface, FiniteSets

CONSTANTS Ids,        \* request ids; a client takes the lowest that is free
          Contents,   \* what an editor may write: sequences of agent-tools lines
          Free        \* the store's file lock is not held

VARIABLES
    agents,     \* AGENTS.md: [stamp, lines]; stamp 0 when there is no file
    edits,      \* how many more changes of AGENTS.md there are
    env,        \* env_tools and env_disable, which the operator has set
    surface,    \* [stamp, sel]: the Surface, and ACTIVE, which follows it
    filtered,   \* the cached tools/list of this selection, optional
    initialized,
    opened,     \* what the background thread has sent: "opening", "store", "none"
    registered, \* the first tools/call has taken what was sent
    pc,         \* where the loop is
    request,    \* the line it works on
    inbox,      \* lines the client has written and the loop has not read
    outbox,     \* messages sent and not read by the client
    client,     \* [ready, list, stale]: initialized, the last list, told of a change
    pending,    \* ids of requests without an answer
    store,      \* who holds the file lock of the store
    behind      \* servers whose copy of the store another process outdated

(***************************************************************************)
(* The state of this server; store and behind are shared with the others. *)
(***************************************************************************)
mcpVars == <<agents, edits, env, surface, filtered, initialized, opened, registered,
             pc, request, inbox, outbox, client, pending>>
surfaceVars == <<env, surface, filtered>>
fileVars == <<agents, edits>>
engineVars == <<opened, registered>>
clientVars == <<client, pending>>

Selection == surface.sel
Idle == [kind |-> "idle"]

\* What a client can write: requests, and lines that get no answer.
Requests ==
    [kind : {"initialize", "list", "other"}, id : Ids]
        \cup [kind : {"call", "batch"}, id : Ids, tool : AllTools]
Silent == [kind : {"silent"}]      \* blank, no id, or no method
Garbage == [kind : {"garbage"}]    \* not JSON

Send(messages) == outbox' = outbox \o messages
Answer(outcome) == [kind |-> "answer", to |-> request, outcome |-> outcome]

McpInit ==
    /\ EnvValid(env)               \* else the server exits with code 2
    /\ agents \in {[stamp |-> 1, lines |-> c] : c \in Contents}
                    \cup {[stamp |-> 0, lines |-> <<>>]}
    /\ surface = [stamp |-> agents.stamp, sel |-> Select(env, FileLists(agents.lines))]
    /\ filtered = {}
    /\ initialized = FALSE
    /\ opened = "opening" /\ registered = FALSE
    /\ pc = "read" /\ request = Idle
    /\ inbox = <<>> /\ outbox = <<>>
    /\ client = [ready |-> FALSE, list |-> {}, stale |-> FALSE]
    /\ pending = {}

-----------------------------------------------------------------------------
(* The editor and the client.                                              *)

Edit ==
    /\ edits > 0 /\ pc # "ended"
    /\ edits' = edits - 1
    /\ \/ \E c \in Contents : agents' = [stamp |-> edits + 1, lines |-> c]
       \/ agents' = [stamp |-> 0, lines |-> <<>>]
    /\ UNCHANGED <<surfaceVars, initialized, engineVars, pc, request, inbox, outbox,
                   clientVars, store, behind>>

Write(line) ==
    /\ pc # "ended"
    /\ inbox' = Append(inbox, line)
    /\ IF line \in Requests
       THEN /\ line.id \notin pending /\ \A i \in Ids : i < line.id => i \in pending
            /\ pending' = pending \cup {line.id}
       ELSE inbox = <<>> /\ outbox = <<>> /\ UNCHANGED pending   \* bound: one at a time
    /\ UNCHANGED <<fileVars, surfaceVars, initialized, engineVars, pc, request, outbox,
                   client, store, behind>>

\* A list counts for a client that has its initialize answer.
Receive ==
    /\ outbox # <<>>
    /\ outbox' = Tail(outbox)
    /\ LET m == Head(outbox) IN
       CASE m.kind = "changed" ->
                client' = [client EXCEPT !.stale = TRUE] /\ UNCHANGED pending
         [] m.kind = "error" -> UNCHANGED clientVars
         [] m.kind = "answer" ->
                /\ pending' = pending \ {m.to.id}
                /\ client' = IF m.to.kind = "initialize" THEN [client EXCEPT !.ready = TRUE]
                             ELSE IF m.to.kind = "list" /\ client.ready
                             THEN [client EXCEPT !.list = {m.outcome}, !.stale = FALSE]
                             ELSE client
    /\ UNCHANGED <<fileVars, surfaceVars, initialized, engineVars, pc, request, inbox,
                   store, behind>>

-----------------------------------------------------------------------------
(* The background thread.  It takes the lock to load the store, or fails.  *)

OpenTakes ==
    /\ opened = "opening" /\ store = Free /\ pc # "ended"
    /\ store' = "open"
    /\ UNCHANGED <<mcpVars, behind>>

OpenSends ==
    /\ store = "open"
    /\ \E result \in {"store", "none"} : opened' = result
    /\ store' = Free
    /\ behind' = behind \ {"mcp"}
    /\ UNCHANGED <<fileVars, surfaceVars, initialized, registered, pc, request, inbox,
                   outbox, clientVars>>

-----------------------------------------------------------------------------
(* One line of input: refresh of the surface, then the method.             *)

ReadLine ==
    /\ pc = "read" /\ inbox # <<>>
    /\ inbox' = Tail(inbox)
    /\ LET line == Head(inbox) IN
       CASE line.kind = "garbage" ->
                Send(<<[kind |-> "error"]>>) /\ UNCHANGED <<pc, request>>
         [] line.kind = "silent" -> UNCHANGED <<pc, request, outbox>>
         [] OTHER -> pc' = "stat" /\ request' = line /\ UNCHANGED outbox
    /\ UNCHANGED <<fileVars, surfaceVars, initialized, engineVars, clientVars, store, behind>>

\* The one stat of a request whose file did not change.
Stat ==
    /\ pc = "stat"
    /\ pc' = IF agents.stamp = surface.stamp THEN "handle" ELSE "reload"
    /\ UNCHANGED <<fileVars, surfaceVars, initialized, engineVars, request, inbox, outbox,
                   clientVars, store, behind>>

\* reload takes the stamp first, then reads: the text may be newer.
ReloadStat ==
    /\ pc = "reload"
    /\ surface' = [surface EXCEPT !.stamp = agents.stamp]
    /\ pc' = "text"
    /\ UNCHANGED <<fileVars, env, filtered, initialized, engineVars, request, inbox, outbox,
                   clientVars, store, behind>>

\* A file that is gone changes nothing.
Reloaded_KeepsGone ==
    IF surface.stamp = 0 THEN Selection ELSE Select(env, FileLists(agents.lines))

Reloaded == Select(env, FileLists(IF surface.stamp = 0 THEN <<>> ELSE agents.lines))

\* The client is told with the next list only.
ReloadText_Silent ==
    /\ pc = "text"
    /\ surface' = [surface EXCEPT !.sel = Reloaded]
    /\ filtered' = {}
    /\ pc' = "handle"
    /\ UNCHANGED <<fileVars, env, initialized, engineVars, request, inbox, outbox, clientVars,
                   store, behind>>

ReloadText ==
    /\ pc = "text"
    /\ surface' = [surface EXCEPT !.sel = Reloaded]
    /\ IF Visible(Reloaded) # Visible(Selection)
       THEN /\ filtered' = {}
            /\ IF initialized THEN Send(<<[kind |-> "changed"]>>) ELSE UNCHANGED outbox
       ELSE UNCHANGED <<filtered, outbox>>
    /\ pc' = "handle"
    /\ UNCHANGED <<fileVars, env, initialized, engineVars, request, inbox, clientVars,
                   store, behind>>

Reply(outcome) == Send(<<Answer(outcome)>>) /\ pc' = "read" /\ request' = Idle

Initialize ==
    /\ pc = "handle" /\ request.kind = "initialize"
    /\ initialized' = TRUE
    /\ Reply("ok")
    /\ UNCHANGED <<fileVars, surfaceVars, engineVars, inbox, clientVars, store, behind>>

Listed == IF Default(Selection) THEN {CATALOGUE}
          ELSE IF filtered # {} THEN filtered ELSE {Visible(Selection)}

ToolsList ==
    /\ pc = "handle" /\ request.kind = "list"
    /\ \E list \in Listed : Reply(list)
    /\ filtered' = IF Default(Selection) THEN filtered ELSE Listed
    /\ UNCHANGED <<fileVars, env, surface, initialized, engineVars, inbox, clientVars,
                   store, behind>>

\* ping, and a method that there is not.
Other ==
    /\ pc = "handle" /\ request.kind = "other"
    /\ Reply("no effect")
    /\ UNCHANGED <<fileVars, surfaceVars, initialized, engineVars, inbox, clientVars,
                   store, behind>>

\* The first call waits for the background thread.
CallStarts ==
    /\ pc = "handle" /\ request.kind \in {"call", "batch"}
    /\ registered \/ opened # "opening"
    /\ registered' = TRUE
    /\ pc' = IF opened = "store" THEN "take" ELSE "run"
    /\ UNCHANGED <<fileVars, surfaceVars, initialized, opened, request, inbox, outbox,
                   clientVars, store, behind>>

\* reacquire_store: wait for the lock, reload what others have written.
CallTakes ==
    /\ pc = "take" /\ store \in {Free, "mcp"}
    /\ store' = "mcp" /\ behind' = behind \ {"mcp"}
    /\ pc' = "run"
    /\ UNCHANGED <<fileVars, surfaceVars, initialized, engineVars, request, inbox, outbox,
                   clientVars>>

\* The error returns without a message.
CallNotTaken_Silent ==
    /\ pc = "take"
    /\ pc' = "read" /\ request' = Idle
    /\ UNCHANGED <<fileVars, surfaceVars, initialized, engineVars, inbox, outbox, clientVars,
                   store, behind>>

CallNotTaken ==
    /\ pc = "take"
    /\ Reply("not taken")
    /\ UNCHANGED <<fileVars, surfaceVars, initialized, engineVars, inbox, clientVars,
                   store, behind>>

\* batch does not ask the selection.
Outcomes_BatchRuns ==
    IF opened # "store" THEN {"did not open"}
    ELSE IF request.kind = "call" /\ request.tool \notin CATALOGUE THEN {"unknown"}
    ELSE IF request.kind = "call" /\ Hidden(Selection, request.tool) THEN {"hidden"}
    ELSE {"ran", "failed"}

\* tools_call, and an operation of batch, which knows the tools of every mode.
Outcomes ==
    IF opened # "store" THEN {"did not open"}
    ELSE IF request.kind = "call" /\ request.tool \notin CATALOGUE THEN {"unknown"}
    ELSE IF Hidden(Selection, request.tool) THEN {"hidden"}
    ELSE {"ran", "failed"}

CallEnds ==
    /\ pc = "run"
    /\ \E outcome \in Outcomes :
         /\ Reply(outcome)
         /\ behind' = IF outcome \in {"ran", "failed"} THEN behind \cup {"http"} ELSE behind
    /\ store' = IF opened = "store" THEN Free ELSE store
    /\ UNCHANGED <<fileVars, surfaceVars, initialized, engineVars, inbox, clientVars>>

\* The client closes the pipe, or a tool panics: the process ends with what
\* it has in memory, and the kernel drops its lock.
Ends ==
    /\ \/ pc = "read" /\ inbox = <<>>
       \/ pc = "run" /\ opened = "store"
    /\ pc' = "ended"
    /\ request' = Idle /\ inbox' = <<>> /\ filtered' = {}
    /\ store' = IF store \in {"mcp", "open"} THEN Free ELSE store
    /\ opened' = "none"
    /\ UNCHANGED <<fileVars, env, surface, initialized, registered, outbox, clientVars, behind>>

\* Steps that come of themselves; an end, and a lock that cannot be taken, need not.
Loop ==
    \/ ReadLine \/ Stat \/ ReloadStat \/ ReloadText
    \/ Initialize \/ ToolsList \/ Other \/ CallStarts \/ CallEnds
Takes == OpenTakes \/ CallTakes
Stops == CallNotTaken \/ Ends
=============================================================================
