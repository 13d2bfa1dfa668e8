----------------------------- MODULE HttpServer ------------------------------
(***************************************************************************)
(* stele-context serve (src/src/http_serve.rs): one thread per connection, *)
(* one engine behind a mutex, and the store's file lock taken inside the   *)
(* mutex for each tool call.  A tool that panics unwinds its thread: the   *)
(* mutex is poisoned, and nobody calls release_store.                      *)
(***************************************************************************)
CONSTANTS Conns,   \* connection threads
          Free     \* neither the mutex nor the store's file lock is held

VARIABLES
    conn,      \* where each connection's thread is
    wants,     \* the request that it has read
    reply,     \* the answer it has written, or "closed" without one
    mutex,     \* the thread that holds the engine's mutex
    poisoned,  \* a tool was stopped in the middle of its changes, mutex in hand
    store,     \* who holds the file lock of the store
    behind     \* servers whose copy of the store another process outdated

httpVars == <<conn, wants, reply, mutex, poisoned>>
shared == <<store, behind>>

\* "direct": /tools, an unknown path, an empty request, a /call without JSON or
\* tool.  "rejected": a /call of a tool or with arguments that do not exist.
Requests == {"direct", "health", "rejected", "tool"}
None == "none"

HttpInit ==
    /\ conn = [c \in Conns |-> "idle"]
    /\ wants = [c \in Conns |-> None]
    /\ reply = [c \in Conns |-> None]
    /\ mutex = Free
    /\ poisoned = FALSE

Accept(c) ==
    /\ conn[c] = "idle"
    /\ conn' = [conn EXCEPT ![c] = "reading"]
    /\ reply' = [reply EXCEPT ![c] = None]
    /\ UNCHANGED <<wants, mutex, poisoned, shared>>

Finish(c, answer) ==
    /\ conn' = [conn EXCEPT ![c] = "idle"]
    /\ wants' = [wants EXCEPT ![c] = None]
    /\ reply' = [reply EXCEPT ![c] = answer]

\* Five seconds without a byte, or a reset: the thread ends with no answer.
ReadFails(c) ==
    /\ conn[c] = "reading"
    /\ Finish(c, "closed")
    /\ UNCHANGED <<mutex, poisoned, shared>>

ReadRequest(c) ==
    /\ conn[c] = "reading"
    /\ \E r \in Requests : wants' = [wants EXCEPT ![c] = r]
    /\ conn' = [conn EXCEPT ![c] = "answer"]
    /\ UNCHANGED <<reply, mutex, poisoned, shared>>

AnswerDirectly(c) ==
    /\ conn[c] = "answer" /\ wants[c] = "direct"
    /\ Finish(c, "whole")
    /\ UNCHANGED <<mutex, poisoned, shared>>

NeedsEngine(c) == conn[c] = "answer" /\ wants[c] # "direct" /\ mutex = Free

\* A poisoned mutex says so: /health answers "lock" with 200, a call with 500.
LockPoisoned(c) ==
    /\ NeedsEngine(c) /\ poisoned
    /\ Finish(c, "lock")
    /\ UNCHANGED <<mutex, poisoned, shared>>

\* into_inner instead of the early return.
LockEngine_Anyway(c) ==
    /\ NeedsEngine(c)
    /\ mutex' = c
    /\ conn' = [conn EXCEPT ![c] = "engine"]
    /\ UNCHANGED <<wants, reply, poisoned, shared>>

LockEngine(c) ==
    /\ NeedsEngine(c) /\ ~poisoned
    /\ mutex' = c
    /\ conn' = [conn EXCEPT ![c] = "engine"]
    /\ UNCHANGED <<wants, reply, poisoned, shared>>

\* An answer made from the engine.
Seen == IF poisoned THEN "torn" ELSE "whole"

\* The state in memory, as of this server's last call.
Health(c) ==
    /\ conn[c] = "engine" /\ wants[c] = "health"
    /\ Finish(c, Seen)
    /\ mutex' = Free
    /\ UNCHANGED <<poisoned, shared>>

Rejected(c) ==
    /\ conn[c] = "engine" /\ wants[c] = "rejected"
    /\ Finish(c, "whole")
    /\ mutex' = Free
    /\ UNCHANGED <<poisoned, shared>>

\* The thread waits for the file lock with the mutex held; a lock that this
\* process still has is not taken again.
Take(c) ==
    /\ conn[c] = "engine" /\ wants[c] = "tool" /\ store \in {Free, "http"}
    /\ store' = "http" /\ behind' = behind \ {"http"}
    /\ conn' = [conn EXCEPT ![c] = "run"]
    /\ UNCHANGED <<wants, reply, mutex, poisoned>>

NotTaken(c) ==
    /\ conn[c] = "engine" /\ wants[c] = "tool" /\ store # "http"
    /\ Finish(c, "whole")
    /\ mutex' = Free
    /\ UNCHANGED <<poisoned, shared>>

\* release_store only where the tool succeeded.
Run_KeepsOnError(c) ==
    /\ conn[c] = "run"
    /\ Finish(c, Seen)
    /\ store' \in {Free, store}
    /\ behind' = behind \cup {"mcp"}
    /\ mutex' = Free
    /\ UNCHANGED poisoned

\* dispatch, which may fail, release_store either way, then the answer.
Run(c) ==
    /\ conn[c] = "run"
    /\ Finish(c, Seen)
    /\ store' = Free
    /\ behind' = behind \cup {"mcp"}
    /\ mutex' = Free
    /\ UNCHANGED poisoned

Panic(c) ==
    /\ conn[c] = "run"
    /\ Finish(c, "closed")
    /\ mutex' = Free
    /\ poisoned' = TRUE
    /\ UNCHANGED shared

\* Steps that come of themselves once a connection is accepted.
Work(c) ==
    ReadFails(c) \/ ReadRequest(c) \/ AnswerDirectly(c) \/ Health(c) \/ Rejected(c) \/ Run(c)
Waits(c) == LockPoisoned(c) \/ LockEngine(c) \/ Take(c)
Stops(c) == NotTaken(c) \/ Panic(c)
=============================================================================
