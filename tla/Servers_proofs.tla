---------------------------- MODULE Servers_proofs ----------------------------
(***************************************************************************)
(* Proofs about the processes of Servers: AGENTS.md and the selection that *)
(* is in force, the store's lock and the mutex, what the client knows, and *)
(* where the refusals of a hidden tool lead.                               *)
(***************************************************************************)
EXTENDS Servers, FiniteSetTheorems, SequenceTheorems, TLAPS

LineSet == M!Requests \cup M!Silent \cup M!Garbage
Said ==
    {"ok", "no effect", "not taken", "did not open", "unknown", "hidden", "ran", "failed"}
Message ==
    [kind : {"changed", "error"}]
        \cup [kind : {"answer"}, to : M!Requests, outcome : Said \cup SUBSET CATALOGUE]

-----------------------------------------------------------------------------
(* AGENTS.md and the selection.                                            *)

\* A stamp that an editor has still to give is on no file and in no surface.
Stamped(s) == s \in Nat /\ (s \in {0, 1} \/ s > edits + 1)

SurfaceInv ==
    /\ edits \in Nat
    /\ surface = [stamp |-> surface.stamp, sel |-> surface.sel]
    /\ Stamped(agents.stamp) /\ Stamped(surface.stamp)
    /\ agents.stamp = 0 => agents.lines = <<>>
    /\ surface.stamp = 0 /\ pc # "text" =>
           M!Selection = M!Select(env, M!FileLists(<<>>))
    /\ SurfaceCurrent

-----------------------------------------------------------------------------
(* The lock of the store, and the thread that opens it.                    *)

LockInv ==
    /\ pc \in {"read", "stat", "reload", "text", "handle", "take", "run", "ended"}
    /\ opened \in {"opening", "store", "none"}
    /\ registered \in BOOLEAN
    /\ store \in {Free, "open", "mcp", "http", "cli"}
    /\ behind \subseteq {"mcp", "http"}
    /\ registered => opened # "opening"
    /\ pc \in {"take", "run"} => registered
    /\ pc = "take" => opened = "store"
    /\ store = "open" => opened = "opening"
    /\ store = "mcp" <=> pc = "run" /\ opened = "store"
    /\ store = "mcp" => "mcp" \notin behind

ThreadsInv ==
    /\ mutex \in Conns \cup {Free}
    /\ conn \in [Conns -> {"idle", "reading", "answer", "engine", "run"}]
    /\ reply \in [Conns -> {"none", "closed", "whole", "lock"}]
    /\ \A c \in Conns : conn[c] \in {"engine", "run"} <=> mutex = c
    /\ mutex # Free => ~poisoned
    /\ \A c \in Conns : conn[c] = "run" => store = "http" /\ "http" \notin behind

-----------------------------------------------------------------------------
(* Each request is in one place.                                           *)

AskedAt == {i \in DOMAIN inbox : inbox[i] \in M!Requests}
AnsweredAt == {i \in DOMAIN outbox : outbox[i].kind = "answer"}

LoopInv ==
    /\ inbox \in Seq(LineSet)
    /\ outbox \in Seq(Message)
    /\ request \in M!Requests \cup {M!Idle}
    /\ request = M!Idle <=> pc \in {"read", "ended"}
    /\ pc \in {"take", "run"} => request.kind \in {"call", "batch"}
    /\ client = [ready |-> client.ready, list |-> client.list, stale |-> client.stale]
    /\ client.ready \in BOOLEAN /\ client.stale \in BOOLEAN
    /\ initialized \in BOOLEAN

OnePlace ==
    /\ \A i \in AskedAt : /\ inbox[i].id \in pending
                          /\ \A j \in AskedAt : i # j => inbox[i].id # inbox[j].id
                          /\ request # M!Idle => inbox[i].id # request.id
                          /\ \A j \in AnsweredAt : inbox[i].id # outbox[j].to.id
    /\ request # M!Idle => /\ request.id \in pending
                           /\ \A j \in AnsweredAt : request.id # outbox[j].to.id
    /\ \A i \in AnsweredAt : /\ outbox[i].to.id \in pending
                             /\ \A j \in AnsweredAt : i # j => outbox[i].to.id # outbox[j].to.id

PlacesInv ==
    /\ pending \subseteq Ids /\ IsFiniteSet(pending)
    /\ pc # "ended" =>
         /\ OnePlace
         /\ Cardinality(pending) = Cardinality(AskedAt)
                + (IF request = M!Idle THEN 0 ELSE 1) + Cardinality(AnsweredAt)

-----------------------------------------------------------------------------
(* What the client knows of the tools.                                     *)

Lists(m) == m.kind = "answer" /\ m.to.kind = "list"
News(m) == m.kind = "changed" \/ Lists(m)
Greets(m) == m.kind = "answer" /\ m.to.kind = "initialize"
Calls(m) == m.kind = "answer" /\ m.to.kind \in {"call", "batch"}

\* The answer fits a client that believes in this list.
Fits(m, list) ==
    /\ m.outcome = "hidden" => m.to.tool \notin list
    /\ m.outcome \in {"ran", "failed"} /\ m.to.tool \in CATALOGUE => m.to.tool \in list

\* No news between two places of the outbox.
Quiet(box, l, r) == \A j \in l + 1 .. r - 1 : ~News(box[j])

\* The list answered at l counts when the client reads it.
Counts(box, cl, l) == Lists(box[l]) /\ (cl.ready \/ \E j \in 1 .. l - 1 : Greets(box[j]))

Knows(cl) == cl.list # {} /\ ~cl.stale

\* What a client believes once it has read the outbox is what is visible now.
Told(box, cl, now) ==
    /\ Knows(cl) /\ Quiet(box, 0, Len(box) + 1) => cl.list = {now}
    /\ \A l \in 1 .. Len(box) :
           Counts(box, cl, l) /\ Quiet(box, l, Len(box) + 1) => box[l].outcome = now

\* Each answer to a call fits what the client believes when it reads it.
Fitting(box, cl) ==
    \A i \in 1 .. Len(box) : Calls(box[i]) =>
        /\ Knows(cl) /\ Quiet(box, 0, i) => \A list \in cl.list : Fits(box[i], list)
        /\ \A l \in 1 .. i - 1 :
               Counts(box, cl, l) /\ Quiet(box, l, i) => Fits(box[i], box[l].outcome)

Greeted(box, cl) == cl.ready \/ \E j \in 1 .. Len(box) : Greets(box[j])

ClientInv ==
    /\ Greeted(outbox, client) => initialized
    /\ client.list # {} => client.ready
    /\ Told(outbox, client, M!Visible(M!Selection))
    /\ Fitting(outbox, client)

-----------------------------------------------------------------------------
(* The selection in force.                                                 *)

\* A step that leaves AGENTS.md and the selection alone, and comes from no
\* half done reload, keeps what is said of them.
LEMMA SurfaceFrame ==
    ASSUME SurfaceInv, UNCHANGED <<agents, edits, env, surface, filtered>>,
           pc' # "text" => pc # "text"
    PROVE  SurfaceInv'
BY DEF SurfaceInv, SurfaceCurrent, Stamped, M!Selection

LEMMA SurfaceStarts == ASSUME Init PROVE SurfaceInv
BY CastsAssumption DEF Init, M!McpInit, SurfaceInv, SurfaceCurrent, Stamped, M!Selection

LEMMA EditKeepsSurface == ASSUME SurfaceInv, M!Edit PROVE SurfaceInv'
<1>1. PICK a : /\ agents' = a
               /\ \/ a.stamp = edits + 1
                  \/ a.stamp = 0 /\ a.lines = <<>>
      BY DEF M!Edit
<1>2. /\ edits \in Nat /\ edits > 0 /\ edits' = edits - 1
      /\ UNCHANGED <<env, surface, filtered, pc>>
      BY DEF M!Edit, SurfaceInv, M!surfaceVars
<1>3. Stamped(agents.stamp)' /\ Stamped(surface.stamp)'
      BY <1>1, <1>2 DEF SurfaceInv, Stamped
<1>4. agents'.stamp # 0 => agents'.stamp # surface.stamp
      BY <1>1, <1>2 DEF SurfaceInv, Stamped
<1>5. agents'.stamp = 0 => agents'.lines = <<>>
      BY <1>1, <1>2
<1> QED BY <1>2, <1>3, <1>4, <1>5 DEF SurfaceInv, SurfaceCurrent, M!Selection

LEMMA StatKeepsSurface == ASSUME SurfaceInv, M!ReloadStat PROVE SurfaceInv'
BY DEF M!ReloadStat, M!fileVars, SurfaceInv, SurfaceCurrent, Stamped, M!Selection

LEMMA TextKeepsSurface == ASSUME SurfaceInv, M!ReloadText PROVE SurfaceInv'
<1>1. /\ pc' = "handle" /\ UNCHANGED <<agents, edits, env>>
      /\ surface' = [surface EXCEPT !.sel = M!Reloaded]
      BY DEF M!ReloadText, M!fileVars
<1>2. surface'.stamp = surface.stamp /\ surface'.sel = M!Reloaded
      BY <1>1 DEF SurfaceInv
<1>3. filtered' # {} => filtered' = {M!Visible(M!Reloaded)}
      BY DEF M!ReloadText, SurfaceInv, SurfaceCurrent
<1>4. surface' = [stamp |-> surface'.stamp, sel |-> surface'.sel]
      BY <1>1 DEF SurfaceInv
<1>5. Stamped(agents.stamp)' /\ Stamped(surface.stamp)'
      BY <1>1, <1>2 DEF SurfaceInv, Stamped
<1> QED BY <1>1, <1>2, <1>3, <1>4, <1>5
        DEF SurfaceInv, SurfaceCurrent, M!Reloaded, M!Selection

LEMMA ListKeepsSurface == ASSUME SurfaceInv, M!ToolsList PROVE SurfaceInv'
<1>1. pc' = "read" /\ UNCHANGED <<agents, edits, env, surface>> /\ pc = "handle"
      BY DEF M!ToolsList, M!Reply, M!fileVars
<1>2. filtered' # {} => filtered' = {M!Visible(M!Selection)}
      BY DEF M!ToolsList, M!Listed, SurfaceInv, SurfaceCurrent
<1> QED BY <1>1, <1>2 DEF SurfaceInv, SurfaceCurrent, Stamped, M!Selection

LEMMA SurfaceStep == ASSUME SurfaceInv, [Next]_vars PROVE SurfaceInv'
<1>1. CASE McpLoop
  <2>1. CASE M!ReloadStat BY <2>1, StatKeepsSurface
  <2>2. CASE M!ReloadText BY <2>2, TextKeepsSurface
  <2>3. CASE M!ToolsList BY <2>3, ListKeepsSurface
  <2>4. CASE M!ReadLine \/ M!Stat \/ M!Initialize \/ M!Other \/ M!CallStarts \/ M!CallEnds
        BY <2>4, SurfaceFrame
        DEF M!ReadLine, M!Stat, M!Initialize, M!Other, M!CallStarts, M!CallEnds, M!Reply,
            M!fileVars, M!surfaceVars
  <2> QED BY <1>1, <2>1, <2>2, <2>3, <2>4 DEF McpLoop, M!Loop
<1>2. CASE McpTakes \/ McpOpens \/ McpReceives
      BY <1>2, SurfaceFrame
      DEF McpTakes, M!Takes, M!OpenTakes, M!CallTakes, McpOpens, M!OpenSends,
          McpReceives, M!Receive, M!mcpVars, M!fileVars, M!surfaceVars
<1>3. CASE M!Stops
  <2>1. CASE M!CallNotTaken
        BY <2>1, SurfaceFrame DEF M!CallNotTaken, M!Reply, M!fileVars, M!surfaceVars
  <2>2. CASE M!Ends
        BY <2>2 DEF M!Ends, M!fileVars, SurfaceInv, SurfaceCurrent, Stamped, M!Selection
  <2> QED BY <1>3, <2>1, <2>2 DEF M!Stops
<1>4. CASE M!Edit BY <1>4, EditKeepsSurface
<1>5. CASE \E line \in Lines : M!Write(line)
      BY <1>5, SurfaceFrame DEF M!Write, M!fileVars, M!surfaceVars
<1>6. CASE HttpStep \/ CliTakes \/ CliEnds \/ UNCHANGED vars
      BY <1>6, SurfaceFrame
      DEF HttpStep, HttpWorks, HttpWaits, Http, CliTakes, CliEnds, vars, mcpVars
<1> QED BY <1>1, <1>2, <1>3, <1>4, <1>5, <1>6 DEF Next, McpStep

\* No edit of AGENTS.md stays unseen once its stamp was found equal, and the
\* cached listing is that of the selection in force: Surface::refresh reads
\* the stamp twice and then the text, and an editor writes in between.
THEOREM CurrentSurface == Spec => []SurfaceCurrent
<1>1. Init => SurfaceInv
      BY SurfaceStarts
<1>2. SurfaceInv /\ [Next]_vars => SurfaceInv'
      BY SurfaceStep
<1>3. SurfaceInv => SurfaceCurrent
      BY DEF SurfaceInv
<1> QED BY <1>1, <1>2, <1>3, PTL DEF Spec

-----------------------------------------------------------------------------
(* The lock and the mutex.                                                 *)

LEMMA LockStarts == ASSUME Init PROVE LockInv /\ ThreadsInv
BY FreeAssumption DEF Init, M!McpInit, H!HttpInit, H!None, LockInv, ThreadsInv

LEMMA LockFrame ==
    ASSUME LockInv, UNCHANGED <<opened, registered, store, behind>>,
           pc' \in {"read", "stat", "reload", "text", "handle", "take", "run", "ended"},
           pc' = pc \/ {pc, pc'} \cap {"take", "run"} = {}
    PROVE  LockInv'
<1>1. pc' = pc \/ (pc' \notin {"take", "run"} /\ pc \notin {"take", "run"})
      OBVIOUS
<1> QED BY <1>1 DEF LockInv

\* What the MCP server does keeps its own part.
LEMMA LoopKeepsLock == ASSUME LockInv, M!Loop, UNCHANGED httpVars PROVE LockInv'
<1> USE FreeAssumption DEF LockInv, M!engineVars, M!Reply
<1>1. CASE M!ReadLine
  <2>1. pc = "read" /\ pc' \in {"read", "stat"} /\ UNCHANGED <<opened, registered, store, behind>>
        BY <1>1 DEF M!ReadLine
  <2> QED BY <2>1
<1>2. CASE M!Stat \/ M!ReloadStat \/ M!ReloadText
      BY <1>2, LockFrame DEF M!Stat, M!ReloadStat, M!ReloadText
<1>3. CASE M!Initialize \/ M!ToolsList \/ M!Other
  <2>1. pc = "handle" /\ pc' = "read" /\ UNCHANGED <<opened, registered, store, behind>>
        BY <1>3 DEF M!Initialize, M!ToolsList, M!Other
  <2> QED BY <2>1, LockFrame
<1>4. CASE M!CallStarts BY <1>4 DEF M!CallStarts
<1>5. CASE M!CallEnds BY <1>5 DEF M!CallEnds
<1> QED BY <1>1, <1>2, <1>3, <1>4, <1>5 DEF M!Loop

LEMMA LockStep == ASSUME LockInv, ThreadsInv, [Next]_vars PROVE LockInv'
<1> USE FreeAssumption DEF LockInv, M!engineVars
<1>1. CASE McpLoop BY <1>1, LoopKeepsLock DEF McpLoop, Mcp
<1>2. CASE McpTakes
  <2>1. CASE M!OpenTakes BY <2>1 DEF M!OpenTakes, M!mcpVars
  <2>2. CASE M!CallTakes BY <2>2 DEF M!CallTakes
  <2> QED BY <1>2, <2>1, <2>2 DEF McpTakes, M!Takes
<1>3. CASE McpOpens BY <1>3 DEF McpOpens, M!OpenSends
<1>4. CASE McpReceives BY <1>4 DEF McpReceives, M!Receive
<1>5. CASE M!Stops BY <1>5 DEF M!Stops, M!CallNotTaken, M!Ends, M!Reply
<1>6. CASE M!Edit \/ \E line \in Lines : M!Write(line)
      BY <1>6, LockFrame DEF M!Edit, M!Write
<1>7. CASE CliTakes \/ CliEnds \/ UNCHANGED vars
  <2>1. UNCHANGED <<pc, opened, registered>>
        BY <1>7 DEF CliTakes, CliEnds, vars, mcpVars
  <2>2. CASE CliTakes BY <2>1, <2>2 DEF CliTakes
  <2>3. CASE CliEnds BY <2>1, <2>3 DEF CliEnds
  <2>4. CASE UNCHANGED vars BY <2>1, <2>4 DEF vars
  <2> QED BY <1>7, <2>2, <2>3, <2>4
<1>8. CASE HttpStep
  <2>1. PICK c \in Conns : HttpWorks(c) \/ HttpWaits(c) \/ ((H!Accept(c) \/ H!Stops(c)) /\ Http)
        BY <1>8 DEF HttpStep
  <2>2. UNCHANGED <<pc, opened, registered>>
        BY <2>1 DEF HttpWorks, HttpWaits, Http, mcpVars
  <2>3. CASE H!Run(c) BY <2>2, <2>3 DEF H!Run, ThreadsInv
  <2>4. CASE H!Take(c) BY <2>2, <2>4 DEF H!Take
  <2>5. CASE UNCHANGED <<store, behind>> BY <2>2, <2>5
  <2> QED BY <2>1, <2>3, <2>4, <2>5
          DEF HttpWorks, HttpWaits, H!Work, H!Waits, H!Stops, H!Accept, H!ReadFails,
              H!ReadRequest, H!AnswerDirectly, H!Health, H!Rejected, H!LockPoisoned,
              H!LockEngine, H!NotTaken, H!Panic, H!shared
<1> QED BY <1>1, <1>2, <1>3, <1>4, <1>5, <1>6, <1>7, <1>8 DEF Next, McpStep

\* While a connection runs a tool nobody else takes the lock or writes.
LEMMA OthersKeepThreads ==
    ASSUME LockInv, ThreadsInv, McpStep \/ CliTakes \/ CliEnds \/ UNCHANGED vars
    PROVE  ThreadsInv'
<1>1. UNCHANGED httpVars
      BY DEF McpStep, McpLoop, McpTakes, McpOpens, McpReceives, Mcp, CliTakes, CliEnds, vars
<1>2. store = "http" /\ "http" \notin behind => store' = "http" /\ "http" \notin behind'
  <2> USE FreeAssumption DEF LockInv
  <2>1. CASE M!Loop
    <3>1. CASE M!CallEnds
          BY <3>1 DEF M!CallEnds, M!Outcomes
    <3>2. CASE ~M!CallEnds
          BY <2>1, <3>2 DEF M!Loop, M!ReadLine, M!Stat, M!ReloadStat, M!ReloadText,
                       M!Initialize, M!ToolsList, M!Other, M!CallStarts
    <3> QED BY <3>1, <3>2
  <2>2. CASE M!Takes BY <2>2 DEF M!Takes, M!OpenTakes, M!CallTakes
  <2>3. CASE M!OpenSends BY <2>3 DEF M!OpenSends
  <2>4. CASE M!Receive \/ M!Stops \/ M!Edit \/ \E line \in Lines : M!Write(line)
        BY <2>4 DEF M!Receive, M!Stops, M!CallNotTaken, M!Ends, M!Edit, M!Write
  <2>5. CASE CliTakes \/ CliEnds \/ UNCHANGED vars
        BY <2>5 DEF CliTakes, CliEnds, vars
  <2> QED BY <2>1, <2>2, <2>3, <2>4, <2>5
          DEF McpStep, McpLoop, McpTakes, McpOpens, McpReceives
<1> QED BY <1>1, <1>2 DEF ThreadsInv, httpVars

LEMMA ThreadsStep == ASSUME LockInv, ThreadsInv, [Next]_vars PROVE ThreadsInv'
<1>1. CASE HttpStep
  <2>1. PICK c \in Conns : HttpWorks(c) \/ HttpWaits(c) \/ ((H!Accept(c) \/ H!Stops(c)) /\ Http)
        BY <1>1 DEF HttpStep
  <2> USE FreeAssumption DEF ThreadsInv, H!shared, H!Finish, H!Seen, H!NeedsEngine, H!None
  <2>2. CASE H!Accept(c) BY <2>2 DEF H!Accept
  <2>3. CASE H!ReadFails(c) BY <2>3 DEF H!ReadFails
  <2>4. CASE H!ReadRequest(c) BY <2>4 DEF H!ReadRequest
  <2>5. CASE H!AnswerDirectly(c) BY <2>5 DEF H!AnswerDirectly
  <2>6. CASE H!LockPoisoned(c) BY <2>6 DEF H!LockPoisoned
  <2>7. CASE H!LockEngine(c) BY <2>7 DEF H!LockEngine
  <2>8. CASE H!Health(c) BY <2>8 DEF H!Health
  <2>9. CASE H!Rejected(c) BY <2>9 DEF H!Rejected
  <2>10. CASE H!Take(c) BY <2>10 DEF H!Take
  <2>11. CASE H!NotTaken(c) BY <2>11 DEF H!NotTaken
  <2>12. CASE H!Run(c) BY <2>12 DEF H!Run
  <2>13. CASE H!Panic(c) BY <2>13 DEF H!Panic
  <2> QED BY <2>1, <2>2, <2>3, <2>4, <2>5, <2>6, <2>7, <2>8, <2>9, <2>10, <2>11, <2>12, <2>13
          DEF HttpWorks, HttpWaits, H!Work, H!Waits, H!Stops
<1> QED BY <1>1, OthersKeepThreads DEF Next

-----------------------------------------------------------------------------
(* What the steps do to lines, requests and messages.                      *)

Now == M!Visible(M!Selection)
Waits == pc \in {"read", "ended"}

\* Nothing moves.  Before initialize the selection may change unsaid.
Stays ==
    /\ UNCHANGED <<inbox, outbox, request, client, pending, initialized>>
    /\ Waits' = Waits /\ (pc' = "ended") = (pc = "ended")
    /\ pc' \in {"take", "run"} => request.kind \in {"call", "batch"}
    /\ initialized => Now' = Now

TellsChange ==
    /\ outbox' = outbox \o <<[kind |-> "changed"]>>
    /\ UNCHANGED <<inbox, request, client, pending, initialized>>
    /\ pc = "text" /\ pc' = "handle"

Writes(line) ==
    /\ inbox' = Append(inbox, line)
    /\ IF line \in M!Requests THEN line.id \notin pending /\ pending' = pending \cup {line.id}
                              ELSE pending' = pending
    /\ UNCHANGED <<outbox, request, client, initialized, pc>> /\ pc # "ended" /\ Now' = Now

TakesRequest ==
    /\ pc = "read" /\ pc' = "stat"
    /\ inbox # <<>> /\ inbox' = Tail(inbox)
    /\ request' = Head(inbox) /\ request' \in M!Requests
    /\ UNCHANGED <<outbox, client, pending, initialized>> /\ Now' = Now

DropsLine ==
    /\ pc = "read" /\ pc' = "read"
    /\ inbox # <<>> /\ inbox' = Tail(inbox) /\ Head(inbox) \notin M!Requests
    /\ outbox' = outbox \/ outbox' = outbox \o <<[kind |-> "error"]>>
    /\ UNCHANGED <<request, client, pending, initialized>> /\ Now' = Now

\* A list is the one in force, and the answer to a call fits it.
Replies(outcome) ==
    /\ ~Waits /\ pc' = "read" /\ request \in M!Requests /\ request' = M!Idle
    /\ outbox' = outbox \o <<M!Answer(outcome)>>
    /\ initialized' = (initialized \/ request.kind = "initialize")
    /\ request.kind = "list" => outcome = Now
    /\ request.kind \in {"call", "batch"} => Fits(M!Answer(outcome), Now)
    /\ UNCHANGED <<inbox, client, pending>> /\ Now' = Now

MessageStep ==
    \/ Stays \/ TellsChange \/ TakesRequest \/ DropsLine \/ McpReceives \/ M!Ends
    \/ \E line \in LineSet : Writes(line)
    \/ \E outcome \in Said \cup SUBSET CATALOGUE : Replies(outcome)

LEMMA LineKinds ==
    ASSUME NEW line \in LineSet
    PROVE  line \in M!Requests <=> line.kind \notin {"silent", "garbage"}
BY DEF LineSet, M!Requests, M!Silent, M!Garbage

LEMMA RequestKinds ==
    ASSUME NEW r \in M!Requests
    PROVE  /\ r.kind \in {"initialize", "list", "other", "call", "batch"}
           /\ r.id \in Ids
           /\ r # M!Idle
BY DEF M!Requests, M!Idle

LEMMA DefaultShowsAll ==
    ASSUME NEW sel, M!Default(sel) PROVE M!Visible(sel) = CATALOGUE
BY DEF M!Default, M!Visible, M!Hidden, M!NotListed, M!Denied

\* A call that ran was of a visible tool, and a hidden one is not visible.
LEMMA OutcomeFits ==
    ASSUME request.kind \in {"call", "batch"}, NEW outcome \in M!Outcomes
    PROVE  Fits(M!Answer(outcome), Now) /\ outcome \in Said
<1>1. M!Answer(outcome).outcome = outcome /\ M!Answer(outcome).to = request
      BY DEF M!Answer
<1>2. /\ outcome = "hidden" => M!Hidden(M!Selection, request.tool)
      /\ outcome \in {"ran", "failed"} => ~M!Hidden(M!Selection, request.tool)
      /\ outcome \in Said
      BY DEF M!Outcomes, Said
<1> QED BY <1>1, <1>2 DEF Fits, Now, M!Visible

\* What tools/list answers is what is visible.
LEMMA ListedNow == ASSUME SurfaceCurrent PROVE M!Listed = {Now}
BY DefaultShowsAll DEF M!Listed, SurfaceCurrent, Now

\* The steps that move none of it, and leave the selection alone.
LEMMA StaysPut ==
    ASSUME UNCHANGED <<inbox, outbox, request, client, pending, initialized, env, surface>>,
           Waits' = Waits, (pc' = "ended") = (pc = "ended"),
           pc' \in {"take", "run"} => request.kind \in {"call", "batch"}
    PROVE  Stays
BY DEF Stays, Now, M!Selection

LEMMA ReplyStep ==
    ASSUME ~Waits, request \in M!Requests, NEW outcome, M!Reply(outcome),
           UNCHANGED <<inbox, client, pending, env, surface>>,
           initialized' = (initialized \/ request.kind = "initialize"),
           request.kind = "list" => outcome = Now,
           request.kind \in {"call", "batch"} => Fits(M!Answer(outcome), Now)
    PROVE  Replies(outcome)
BY DEF Replies, M!Reply, M!Send, Now, M!Selection

LEMMA LoopDigest ==
    ASSUME SurfaceInv, LoopInv, M!Loop
    PROVE  MessageStep
<1>1. /\ inbox \in Seq(LineSet)
      /\ request \in M!Requests \cup {M!Idle}
      /\ request = M!Idle <=> pc \in {"read", "ended"}
      /\ initialized \in BOOLEAN
      /\ pc \in {"take", "run"} => request.kind \in {"call", "batch"}
      BY DEF LoopInv
<1>2. pc = "handle" \/ pc = "run" => ~Waits /\ request \in M!Requests
      BY <1>1 DEF Waits
<1>3. M!Listed = {Now}
      BY ListedNow DEF SurfaceInv
<1> USE DEF M!fileVars, M!surfaceVars, M!engineVars, M!clientVars
<1>4. CASE M!ReadLine
  <2>1. inbox # <<>> /\ inbox' = Tail(inbox) /\ pc = "read"
        BY <1>4 DEF M!ReadLine
  <2>2. Head(inbox) \in LineSet
        BY <1>1, <2>1, HeadTailProperties
  <2>3. UNCHANGED <<client, pending, initialized>> /\ Now' = Now
        BY <1>4 DEF M!ReadLine, Now, M!Selection
  <2>4. CASE Head(inbox).kind = "garbage"
    <3>1. /\ outbox' = outbox \o <<[kind |-> "error"]>>
          /\ UNCHANGED <<pc, request>>
          BY <1>4, <2>4 DEF M!ReadLine, M!Send
    <3> QED BY <2>1, <2>2, <2>3, <2>4, <3>1, LineKinds DEF MessageStep, DropsLine
  <2>5. CASE Head(inbox).kind = "silent"
    <3>1. UNCHANGED <<pc, request, outbox>>
          BY <1>4, <2>5 DEF M!ReadLine
    <3> QED BY <2>1, <2>2, <2>3, <2>5, <3>1, LineKinds DEF MessageStep, DropsLine
  <2>6. CASE Head(inbox).kind \notin {"garbage", "silent"}
    <3>1. pc' = "stat" /\ request' = Head(inbox) /\ UNCHANGED outbox
          BY <1>4, <2>6 DEF M!ReadLine
    <3> QED BY <2>1, <2>2, <2>3, <2>6, <3>1, LineKinds DEF MessageStep, TakesRequest
  <2> QED BY <2>4, <2>5, <2>6
<1>5. CASE M!Stat \/ M!CallStarts
  <2>1. UNCHANGED <<inbox, outbox, request, client, pending, initialized, env, surface>>
        BY <1>5 DEF M!Stat, M!CallStarts
  <2>2. /\ Waits' = Waits /\ (pc' = "ended") = (pc = "ended")
        /\ pc' \in {"take", "run"} => request.kind \in {"call", "batch"}
        BY <1>5 DEF M!Stat, M!CallStarts, Waits
  <2> QED BY <2>1, <2>2, StaysPut DEF MessageStep
<1>6. CASE M!ReloadStat
  <2>1. UNCHANGED <<inbox, outbox, request, client, pending, initialized>>
        BY <1>6 DEF M!ReloadStat
  <2>2. Waits' = Waits /\ pc' = "text" /\ (pc' = "ended") = (pc = "ended")
        BY <1>6 DEF M!ReloadStat, Waits
  <2>3. Now' = Now
        BY <1>6 DEF M!ReloadStat, Now, M!Selection, SurfaceInv
  <2> QED BY <2>1, <2>2, <2>3 DEF MessageStep, Stays
<1>7. CASE M!ReloadText
  <2>1. /\ UNCHANGED <<inbox, request, client, pending, initialized>>
        /\ pc = "text" /\ pc' = "handle"
        BY <1>7 DEF M!ReloadText
  <2>2. Now' = M!Visible(M!Reloaded)
        BY <1>7 DEF M!ReloadText, Now, M!Selection, SurfaceInv
  <2>3. CASE Now' # Now /\ initialized
    <3>1. outbox' = outbox \o <<[kind |-> "changed"]>>
          BY <1>7, <2>2, <2>3 DEF M!ReloadText, M!Send, Now
    <3> QED BY <2>1, <3>1 DEF MessageStep, TellsChange
  <2>4. CASE ~(Now' # Now /\ initialized)
    <3>1. outbox' = outbox
          BY <1>7, <2>2, <2>4 DEF M!ReloadText, Now
    <3> QED BY <2>1, <2>4, <3>1 DEF MessageStep, Stays, Waits
  <2> QED BY <2>3, <2>4
<1>8. CASE M!Initialize
  <2>1. Replies("ok")
        BY <1>1, <1>2, <1>8, ReplyStep DEF M!Initialize
  <2> QED BY <2>1 DEF MessageStep, Said
<1>9. CASE M!ToolsList
  <2>1. Replies(Now)
        BY <1>1, <1>2, <1>3, <1>9, ReplyStep DEF M!ToolsList
  <2>2. Now \in SUBSET CATALOGUE
        BY DEF Now, M!Visible
  <2> QED BY <2>1, <2>2 DEF MessageStep
<1>10. CASE M!Other
  <2>1. Replies("no effect")
        BY <1>1, <1>2, <1>10, ReplyStep DEF M!Other
  <2> QED BY <2>1 DEF MessageStep, Said
<1>11. CASE M!CallEnds
  <2>1. PICK outcome \in M!Outcomes : M!Reply(outcome)
        BY <1>11 DEF M!CallEnds
  <2>2. request.kind \in {"call", "batch"} /\ request \in M!Requests /\ ~Waits
        BY <1>1, <1>2, <1>11 DEF M!CallEnds
  <2>3. UNCHANGED <<inbox, client, pending, initialized, env, surface>>
        BY <1>11 DEF M!CallEnds
  <2>4. Replies(outcome) /\ outcome \in Said
        BY <1>1, <2>1, <2>2, <2>3, OutcomeFits, ReplyStep
  <2> QED BY <2>4 DEF MessageStep
<1> QED BY <1>4, <1>5, <1>6, <1>7, <1>8, <1>9, <1>10, <1>11 DEF M!Loop

LEMMA Digest ==
    ASSUME SurfaceInv, LoopInv, [Next]_vars
    PROVE  MessageStep
<1>1. CASE McpLoop BY <1>1, LoopDigest DEF McpLoop
<1>2. CASE McpTakes \/ McpOpens
  <2>1. UNCHANGED <<inbox, outbox, request, client, pending, initialized, env, surface>>
        BY <1>2 DEF McpTakes, M!Takes, M!OpenTakes, M!CallTakes, McpOpens, M!OpenSends,
                    M!mcpVars, M!fileVars, M!surfaceVars, M!clientVars
  <2>2. /\ Waits' = Waits /\ (pc' = "ended") = (pc = "ended")
        /\ pc' \in {"take", "run"} => pc \in {"take", "run"}
        BY <1>2 DEF McpTakes, M!Takes, M!OpenTakes, M!CallTakes, McpOpens, M!OpenSends,
                    M!mcpVars, Waits
  <2> QED BY <2>1, <2>2, StaysPut DEF MessageStep, LoopInv
<1>3. CASE McpReceives BY <1>3 DEF MessageStep
<1>4. CASE M!CallNotTaken
  <2>1. /\ request.kind \in {"call", "batch"} /\ request \in M!Requests /\ ~Waits
        /\ initialized \in BOOLEAN
        BY <1>4 DEF M!CallNotTaken, LoopInv, Waits
  <2>2. UNCHANGED <<inbox, client, pending, initialized, env, surface>>
        BY <1>4 DEF M!CallNotTaken, M!surfaceVars, M!clientVars
  <2>3. Fits(M!Answer("not taken"), Now)
        BY DEF Fits, M!Answer
  <2>4. Replies("not taken")
        BY <1>4, <2>1, <2>2, <2>3, ReplyStep DEF M!CallNotTaken
  <2> QED BY <2>4 DEF MessageStep, Said
<1>5. CASE M!Ends BY <1>5 DEF MessageStep
<1>6. CASE M!Edit
      BY <1>6, StaysPut
      DEF M!Edit, M!surfaceVars, M!clientVars, Waits, MessageStep, LoopInv
<1>7. CASE \E line \in Lines : M!Write(line)
  <2>1. PICK line \in LineSet : M!Write(line)
        BY <1>7 DEF Lines, LineSet
  <2>2. Writes(line)
        BY <2>1 DEF M!Write, Writes, M!fileVars, M!surfaceVars, M!clientVars, Now, M!Selection
  <2> QED BY <2>2 DEF MessageStep
<1>8. CASE HttpStep \/ CliTakes \/ CliEnds \/ UNCHANGED vars
  <2>1. UNCHANGED mcpVars
        BY <1>8 DEF HttpStep, HttpWorks, HttpWaits, Http, CliTakes, CliEnds, vars
  <2> QED BY <2>1, StaysPut DEF mcpVars, Waits, MessageStep, LoopInv
<1> QED BY <1>1, <1>2, <1>3, <1>4, <1>5, <1>6, <1>7, <1>8 DEF Next, McpStep, M!Stops

-----------------------------------------------------------------------------
(* The types of lines and messages.                                        *)

\* A message at the end of the outbox, and the rest where it was.
LEMMA Appended ==
    ASSUME NEW S, NEW box \in Seq(S), NEW m \in S
    PROVE  /\ box \o <<m>> \in Seq(S)
           /\ Len(box \o <<m>>) = Len(box) + 1
           /\ \A i \in 1 .. Len(box) : (box \o <<m>>)[i] = box[i]
           /\ (box \o <<m>>)[Len(box) + 1] = m
<1>1. <<m>> \in Seq(S) /\ Len(<<m>>) = 1 /\ <<m>>[1] = m
      OBVIOUS
<1>2. Len(box) \in Nat
      BY LenProperties
<1> QED BY <1>1, <1>2, ConcatProperties

LEMMA MessageTypes ==
    /\ [kind |-> "changed"] \in Message /\ [kind |-> "error"] \in Message
    /\ request \in M!Requests =>
           \A outcome \in Said \cup SUBSET CATALOGUE : M!Answer(outcome) \in Message
BY DEF Message, M!Answer

LEMMA MessageKinds ==
    ASSUME NEW m \in Message
    PROVE  /\ m.kind \in {"changed", "error", "answer"}
           /\ m.kind = "answer" => m.to \in M!Requests
BY DEF Message

LEMMA LoopStarts == ASSUME Init PROVE LoopInv
<1>1. inbox = <<>> /\ outbox = <<>>
      BY DEF Init, M!McpInit
<1>2. inbox \in Seq(LineSet) /\ outbox \in Seq(Message)
      BY <1>1
<1> QED BY <1>2 DEF Init, M!McpInit, LoopInv

LEMMA LoopStep == ASSUME LoopInv, MessageStep PROVE LoopInv'
<1>1. /\ inbox \in Seq(LineSet) /\ outbox \in Seq(Message)
      /\ initialized \in BOOLEAN
      BY DEF LoopInv
<1>2. CASE Stays BY <1>2 DEF Stays, LoopInv, Waits
<1>3. CASE TellsChange
  <2>1. outbox' \in Seq(Message)
        BY <1>1, <1>3, Appended, MessageTypes DEF TellsChange
  <2> QED BY <1>3, <2>1 DEF TellsChange, LoopInv
<1>4. CASE TakesRequest
  <2>1. inbox' \in Seq(LineSet)
        BY <1>1, <1>4, HeadTailProperties DEF TakesRequest
  <2> QED BY <1>4, <2>1, RequestKinds DEF TakesRequest, LoopInv
<1>5. CASE DropsLine
  <2>1. inbox' \in Seq(LineSet)
        BY <1>1, <1>5, HeadTailProperties DEF DropsLine
  <2>2. outbox' \in Seq(Message)
        BY <1>1, <1>5, Appended, MessageTypes DEF DropsLine
  <2> QED BY <1>5, <2>1, <2>2 DEF DropsLine, LoopInv
<1>6. CASE McpReceives
  <2>1. outbox # <<>> /\ outbox' = Tail(outbox)
        BY <1>6 DEF McpReceives, M!Receive
  <2>2. outbox' \in Seq(Message) /\ Head(outbox) \in Message
        BY <1>1, <2>1, HeadTailProperties
  <2>3. UNCHANGED <<inbox, request, pc, initialized>>
        BY <1>6 DEF McpReceives, M!Receive
  <2>4. /\ client' = [ready |-> client'.ready, list |-> client'.list, stale |-> client'.stale]
        /\ client'.ready \in BOOLEAN /\ client'.stale \in BOOLEAN
    <3>1. \/ client' = client
          \/ client' = [client EXCEPT !.stale = TRUE]
          \/ client' = [client EXCEPT !.ready = TRUE]
          \/ client' = [client EXCEPT !.list = {Head(outbox).outcome}, !.stale = FALSE]
      <4>1. CASE Head(outbox).kind = "changed"
            BY <1>6, <4>1 DEF McpReceives, M!Receive
      <4>2. CASE Head(outbox).kind = "error"
            BY <1>6, <4>2 DEF McpReceives, M!Receive, M!clientVars
      <4>3. CASE Head(outbox).kind = "answer"
            BY <1>6, <4>3 DEF McpReceives, M!Receive
      <4> QED BY <2>2, <4>1, <4>2, <4>3, MessageKinds
    <3> QED BY <3>1 DEF LoopInv
  <2> QED BY <2>2, <2>3, <2>4 DEF LoopInv
<1>7. CASE M!Ends
  <2>1. inbox' \in Seq(LineSet)
        BY <1>7 DEF M!Ends
  <2> QED BY <1>7, <2>1 DEF M!Ends, M!clientVars, LoopInv
<1>8. CASE \E line \in LineSet : Writes(line)
  <2>1. PICK line \in LineSet : Writes(line)
        BY <1>8
  <2>2. inbox' \in Seq(LineSet)
        BY <1>1, <2>1 DEF Writes
  <2> QED BY <2>1, <2>2 DEF Writes, LoopInv
<1>9. CASE \E outcome \in Said \cup SUBSET CATALOGUE : Replies(outcome)
  <2>1. PICK outcome \in Said \cup SUBSET CATALOGUE : Replies(outcome)
        BY <1>9
  <2>2. M!Answer(outcome) \in Message
        BY <2>1, MessageTypes DEF Replies
  <2>3. outbox' \in Seq(Message)
        BY <1>1, <2>1, <2>2, Appended DEF Replies
  <2> QED BY <1>1, <2>1, <2>3 DEF Replies, LoopInv
<1> QED BY <1>2, <1>3, <1>4, <1>5, <1>6, <1>7, <1>8, <1>9 DEF MessageStep

-----------------------------------------------------------------------------
(* Counting places in a sequence from which the first is taken, or which    *)
(* grows at its end.                                                       *)

LEMMA CountTail ==
    ASSUME NEW n \in Nat \ {0}, NEW S \in SUBSET (1 .. n), NEW T,
           T = {i \in 1 .. n - 1 : i + 1 \in S}
    PROVE  /\ Cardinality(S) \in Nat /\ Cardinality(T) \in Nat
           /\ Cardinality(T) = Cardinality(S) - (IF 1 \in S THEN 1 ELSE 0)
<1> DEFINE R == S \ {1}
           f == [i \in R |-> i - 1]
<1>1. IsFiniteSet(S)
  <2>1. 1 \in Int /\ n \in Int
        OBVIOUS
  <2>2. IsFiniteSet(1 .. n)
        BY <2>1, FS_Interval
  <2> QED BY <2>2, FS_Subset
<1>2. IsFiniteSet(R) /\ Cardinality(R) = IF 1 \in S THEN Cardinality(S) - 1 ELSE Cardinality(S)
      BY <1>1, FS_RemoveElement
<1>3. f \in Bijection(R, T)
  <2>1. \A i \in R : i \in Int /\ i - 1 \in T
        OBVIOUS
  <2>2. \A i \in T : i + 1 \in R /\ f[i + 1] = i
        OBVIOUS
  <2>3. \A i, j \in R : f[i] = f[j] => i = j
        BY <2>1
  <2>4. f \in [R -> T]
        BY <2>1
  <2>5. f \in Injection(R, T)
        BY <2>3, <2>4 DEF Injection, IsInjective
  <2>6. f \in Surjection(R, T)
        BY <2>2, <2>4 DEF Surjection
  <2> QED BY <2>5, <2>6 DEF Bijection
<1>4. ExistsBijection(R, T)
      BY <1>3 DEF ExistsBijection
<1>5. IsFiniteSet(T) /\ Cardinality(T) = Cardinality(R)
      BY <1>2, <1>4, FS_Bijection
<1>6. Cardinality(S) \in Nat /\ Cardinality(T) \in Nat
      BY <1>1, <1>5, FS_CardinalityType
<1> QED BY <1>2, <1>5, <1>6

LEMMA CountAppend ==
    ASSUME NEW n \in Nat, NEW S \in SUBSET (1 .. n)
    PROVE  /\ Cardinality(S) \in Nat
           /\ Cardinality(S \cup {n + 1}) = Cardinality(S) + 1
<1>1. IsFiniteSet(S)
  <2>1. 1 \in Int /\ n \in Int
        OBVIOUS
  <2>2. IsFiniteSet(1 .. n)
        BY <2>1, FS_Interval
  <2> QED BY <2>2, FS_Subset
<1>2. n + 1 \notin S
      OBVIOUS
<1> QED BY <1>1, <1>2, FS_AddElement, FS_CardinalityType

LEMMA InboxTail ==
    ASSUME inbox \in Seq(LineSet), inbox # <<>>, inbox' = Tail(inbox)
    PROVE  /\ \A i \in AskedAt' : i + 1 \in AskedAt /\ inbox'[i] = inbox[i + 1] /\ i \in Nat /\ i > 0
           /\ Head(inbox) = inbox[1]
           /\ Head(inbox) \in M!Requests <=> 1 \in AskedAt
           /\ Cardinality(AskedAt) \in Nat /\ Cardinality(AskedAt') \in Nat
           /\ Cardinality(AskedAt') = Cardinality(AskedAt) - (IF 1 \in AskedAt THEN 1 ELSE 0)
<1> DEFINE n == Len(inbox)
<1>1. n \in Nat \ {0} /\ DOMAIN inbox = 1 .. n
      BY EmptySeq, LenProperties
<1>2. /\ inbox' \in Seq(LineSet) /\ Len(inbox') = n - 1
      /\ \A i \in 1 .. n - 1 : inbox'[i] = inbox[i + 1]
      BY HeadTailProperties
<1>3. DOMAIN inbox' = 1 .. n - 1
      BY <1>2, LenProperties
<1>4. AskedAt' = {i \in 1 .. n - 1 : i + 1 \in AskedAt}
      BY <1>1, <1>2, <1>3 DEF AskedAt
<1>5. AskedAt \in SUBSET (1 .. n)
      BY <1>1 DEF AskedAt
<1>6. /\ Cardinality(AskedAt) \in Nat /\ Cardinality(AskedAt') \in Nat
      /\ Cardinality(AskedAt') = Cardinality(AskedAt) - (IF 1 \in AskedAt THEN 1 ELSE 0)
      BY <1>1, <1>4, <1>5, CountTail
<1>7. Head(inbox) = inbox[1]
      OBVIOUS
<1>8. Head(inbox) \in M!Requests <=> 1 \in AskedAt
      BY <1>1, <1>7 DEF AskedAt
<1> QED BY <1>1, <1>2, <1>4, <1>6, <1>7, <1>8

LEMMA OutboxTail ==
    ASSUME outbox \in Seq(Message), outbox # <<>>, outbox' = Tail(outbox)
    PROVE  /\ \A i \in AnsweredAt' : /\ i + 1 \in AnsweredAt /\ outbox'[i] = outbox[i + 1]
                                     /\ i \in Nat /\ i > 0
           /\ Head(outbox) = outbox[1]
           /\ Head(outbox).kind = "answer" <=> 1 \in AnsweredAt
           /\ Cardinality(AnsweredAt) \in Nat /\ Cardinality(AnsweredAt') \in Nat
           /\ Cardinality(AnsweredAt')
                  = Cardinality(AnsweredAt) - (IF 1 \in AnsweredAt THEN 1 ELSE 0)
<1> DEFINE n == Len(outbox)
<1>1. n \in Nat \ {0} /\ DOMAIN outbox = 1 .. n
      BY EmptySeq, LenProperties
<1>2. /\ outbox' \in Seq(Message) /\ Len(outbox') = n - 1
      /\ \A i \in 1 .. n - 1 : outbox'[i] = outbox[i + 1]
      BY HeadTailProperties
<1>3. DOMAIN outbox' = 1 .. n - 1
      BY <1>2, LenProperties
<1>4. AnsweredAt' = {i \in 1 .. n - 1 : i + 1 \in AnsweredAt}
      BY <1>1, <1>2, <1>3 DEF AnsweredAt
<1>5. AnsweredAt \in SUBSET (1 .. n)
      BY <1>1 DEF AnsweredAt
<1>6. /\ Cardinality(AnsweredAt) \in Nat /\ Cardinality(AnsweredAt') \in Nat
      /\ Cardinality(AnsweredAt')
             = Cardinality(AnsweredAt) - (IF 1 \in AnsweredAt THEN 1 ELSE 0)
      BY <1>1, <1>4, <1>5, CountTail
<1>7. Head(outbox) = outbox[1]
      OBVIOUS
<1>8. Head(outbox).kind = "answer" <=> 1 \in AnsweredAt
      BY <1>1, <1>7 DEF AnsweredAt
<1> QED BY <1>1, <1>2, <1>4, <1>6, <1>7, <1>8

LEMMA InboxAppend ==
    ASSUME inbox \in Seq(LineSet), NEW line \in LineSet, inbox' = Append(inbox, line)
    PROVE  /\ \A i \in AskedAt : inbox'[i] = inbox[i]
           /\ inbox'[Len(inbox) + 1] = line /\ Len(inbox) + 1 \notin AskedAt
           /\ AskedAt' = AskedAt \cup (IF line \in M!Requests THEN {Len(inbox) + 1} ELSE {})
           /\ Cardinality(AskedAt) \in Nat
           /\ Cardinality(AskedAt')
                  = Cardinality(AskedAt) + (IF line \in M!Requests THEN 1 ELSE 0)
<1> DEFINE n == Len(inbox)
<1>1. n \in Nat /\ DOMAIN inbox = 1 .. n
      BY LenProperties
<1>2. /\ DOMAIN inbox' = 1 .. n + 1
      /\ \A i \in 1 .. n : inbox'[i] = inbox[i]
      /\ inbox'[n + 1] = line
      OBVIOUS
<1>3. AskedAt' = AskedAt \cup (IF line \in M!Requests THEN {n + 1} ELSE {})
      BY <1>1, <1>2 DEF AskedAt
<1>4. AskedAt \in SUBSET (1 .. n)
      BY <1>1 DEF AskedAt
<1>5. /\ Cardinality(AskedAt) \in Nat
      /\ Cardinality(AskedAt \cup {n + 1}) = Cardinality(AskedAt) + 1
      BY <1>1, <1>4, CountAppend
<1>6. \A i \in AskedAt : inbox'[i] = inbox[i]
      BY <1>2, <1>4
<1>7. n + 1 \notin AskedAt
      BY <1>1, <1>4
<1>8. Cardinality(AskedAt') = Cardinality(AskedAt) + (IF line \in M!Requests THEN 1 ELSE 0)
  <2>1. CASE line \in M!Requests BY <1>3, <1>5, <2>1
  <2>2. CASE line \notin M!Requests
    <3>1. AskedAt' = AskedAt BY <1>3, <2>2
    <3> QED BY <1>5, <2>2, <3>1
  <2> QED BY <2>1, <2>2
<1> QED BY <1>2, <1>3, <1>5, <1>6, <1>7, <1>8

LEMMA OutboxAppend ==
    ASSUME outbox \in Seq(Message), NEW m \in Message, outbox' = outbox \o <<m>>
    PROVE  /\ \A i \in AnsweredAt : outbox'[i] = outbox[i]
           /\ outbox'[Len(outbox) + 1] = m /\ Len(outbox) + 1 \notin AnsweredAt
           /\ AnsweredAt' = AnsweredAt \cup (IF m.kind = "answer" THEN {Len(outbox) + 1} ELSE {})
           /\ Cardinality(AnsweredAt) \in Nat
           /\ Cardinality(AnsweredAt')
                  = Cardinality(AnsweredAt) + (IF m.kind = "answer" THEN 1 ELSE 0)
<1> DEFINE n == Len(outbox)
<1>1. n \in Nat /\ DOMAIN outbox = 1 .. n
      BY LenProperties
<1>2. /\ outbox' \in Seq(Message) /\ Len(outbox') = n + 1
      /\ \A i \in 1 .. n : outbox'[i] = outbox[i]
      /\ outbox'[n + 1] = m
      BY Appended
<1>3. DOMAIN outbox' = 1 .. n + 1
      BY <1>2, LenProperties
<1>4. AnsweredAt' = AnsweredAt \cup (IF m.kind = "answer" THEN {n + 1} ELSE {})
      BY <1>1, <1>2, <1>3 DEF AnsweredAt
<1>5. AnsweredAt \in SUBSET (1 .. n)
      BY <1>1 DEF AnsweredAt
<1>6. /\ Cardinality(AnsweredAt) \in Nat
      /\ Cardinality(AnsweredAt \cup {n + 1}) = Cardinality(AnsweredAt) + 1
      BY <1>1, <1>5, CountAppend
<1>7. \A i \in AnsweredAt : outbox'[i] = outbox[i]
      BY <1>2, <1>5
<1>8. n + 1 \notin AnsweredAt
      BY <1>1, <1>5
<1>9. Cardinality(AnsweredAt') = Cardinality(AnsweredAt) + (IF m.kind = "answer" THEN 1 ELSE 0)
  <2>1. CASE m.kind = "answer" BY <1>4, <1>6, <2>1
  <2>2. CASE m.kind # "answer"
    <3>1. AnsweredAt' = AnsweredAt BY <1>4, <2>2
    <3> QED BY <1>6, <2>2, <3>1
  <2> QED BY <2>1, <2>2
<1> QED BY <1>2, <1>4, <1>6, <1>7, <1>8, <1>9

-----------------------------------------------------------------------------
(* Each request is in one place until its answer is read.                  *)

LEMMA PlacesStart == ASSUME Init PROVE PlacesInv
<1>1. inbox = <<>> /\ outbox = <<>> /\ request = M!Idle /\ pending = {}
      BY DEF Init, M!McpInit
<1>2. AskedAt = {} /\ AnsweredAt = {}
      BY <1>1 DEF AskedAt, AnsweredAt
<1> QED BY <1>1, <1>2, FS_EmptySet DEF PlacesInv, OnePlace

LEMMA AskedCount == ASSUME inbox \in Seq(LineSet) PROVE Cardinality(AskedAt) \in Nat
<1>1. Len(inbox) \in Nat /\ AskedAt \in SUBSET (1 .. Len(inbox))
      BY LenProperties DEF AskedAt
<1> QED BY <1>1, CountAppend

LEMMA AnsweredCount == ASSUME outbox \in Seq(Message) PROVE Cardinality(AnsweredAt) \in Nat
<1>1. Len(outbox) \in Nat /\ AnsweredAt \in SUBSET (1 .. Len(outbox))
      BY LenProperties DEF AnsweredAt
<1> QED BY <1>1, CountAppend

\* A message that is no answer.
LEMMA NoAnswer ==
    ASSUME outbox \in Seq(Message), NEW m \in Message, m.kind # "answer",
           outbox' = outbox \o <<m>>
    PROVE  /\ AnsweredAt' = AnsweredAt
           /\ \A i \in AnsweredAt : outbox'[i] = outbox[i]
BY OutboxAppend

LEMMA Placed ==
    ASSUME PlacesInv, pc # "ended", \A i \in AskedAt : inbox'[i] = inbox[i]
    PROVE  \A i \in AskedAt :
               /\ inbox'[i].id \in pending
               /\ \A j \in AskedAt : i # j => inbox'[i].id # inbox'[j].id
               /\ request # M!Idle => inbox'[i].id # request.id
               /\ \A j \in AnsweredAt : inbox'[i].id # outbox[j].to.id
<1>1. \A i \in AskedAt : /\ inbox[i].id \in pending
                         /\ \A j \in AskedAt : i # j => inbox[i].id # inbox[j].id
                         /\ request # M!Idle => inbox[i].id # request.id
                         /\ \A j \in AnsweredAt : inbox[i].id # outbox[j].to.id
      BY DEF PlacesInv, OnePlace
<1> QED BY <1>1

LEMMA PlacesStep == ASSUME LoopInv, PlacesInv, MessageStep PROVE PlacesInv'
<1>1. /\ inbox \in Seq(LineSet) /\ outbox \in Seq(Message)
      /\ request = M!Idle <=> pc \in {"read", "ended"}
      /\ pending \subseteq Ids /\ IsFiniteSet(pending)
      BY DEF LoopInv, PlacesInv
<1>2. pc # "ended" =>
         /\ OnePlace
         /\ Cardinality(pending) = Cardinality(AskedAt)
                + (IF request = M!Idle THEN 0 ELSE 1) + Cardinality(AnsweredAt)
      BY DEF PlacesInv
<1>3. CASE Stays
      BY <1>3 DEF Stays, PlacesInv, OnePlace, AskedAt, AnsweredAt
<1>4. CASE TellsChange
  <2>1. /\ AnsweredAt' = AnsweredAt
        /\ \A i \in AnsweredAt : outbox'[i] = outbox[i]
        BY <1>1, <1>4, NoAnswer, MessageTypes DEF TellsChange
  <2>2. AskedAt' = AskedAt
        BY <1>4 DEF TellsChange, AskedAt
  <2>3. pc # "ended" /\ UNCHANGED <<inbox, request, pending>>
        BY <1>4 DEF TellsChange
  <2>4. OnePlace'
        BY <1>2, <2>1, <2>2, <2>3 DEF OnePlace
  <2> QED BY <1>1, <1>2, <2>1, <2>2, <2>3, <2>4 DEF PlacesInv
<1>5. CASE TakesRequest
  <2>1. /\ inbox # <<>> /\ inbox' = Tail(inbox) /\ request = M!Idle /\ pc # "ended"
        /\ request' = Head(inbox) /\ Head(inbox) \in M!Requests /\ request' # M!Idle
        /\ UNCHANGED <<outbox, pending>>
        BY <1>1, <1>5, RequestKinds DEF TakesRequest
  <2>2. /\ \A i \in AskedAt' : /\ i + 1 \in AskedAt /\ inbox'[i] = inbox[i + 1]
                               /\ i \in Nat /\ i > 0
        /\ Head(inbox) = inbox[1] /\ 1 \in AskedAt
        /\ Cardinality(AskedAt) \in Nat /\ Cardinality(AskedAt') \in Nat
        /\ Cardinality(AskedAt') = Cardinality(AskedAt) - 1
        BY <1>1, <2>1, InboxTail
  <2>3. AnsweredAt' = AnsweredAt
        BY <2>1 DEF AnsweredAt
  <2>4. OnePlace'
    <3>1. \A i \in AskedAt' : i + 1 # 1 /\ \A j \in AskedAt' : i # j => i + 1 # j + 1
          BY <2>2
    <3>2. ASSUME NEW i \in AskedAt'
          PROVE  /\ inbox'[i].id \in pending
                 /\ \A j \in AskedAt' : i # j => inbox'[i].id # inbox'[j].id
                 /\ inbox'[i].id # request'.id
                 /\ \A j \in AnsweredAt : inbox'[i].id # outbox[j].to.id
      <4>1. i + 1 \in AskedAt /\ inbox'[i] = inbox[i + 1]
            BY <2>2
      <4>2. /\ inbox[i + 1].id \in pending
            /\ \A j \in AskedAt : i + 1 # j => inbox[i + 1].id # inbox[j].id
            /\ \A j \in AnsweredAt : inbox[i + 1].id # outbox[j].to.id
            BY <1>2, <2>1, <4>1 DEF OnePlace
      <4>3. \A j \in AskedAt' : i # j => inbox'[i].id # inbox'[j].id
            BY <2>2, <3>1, <4>1, <4>2
      <4>4. inbox'[i].id # request'.id
            BY <2>1, <2>2, <3>1, <4>1, <4>2
      <4> QED BY <4>1, <4>2, <4>3, <4>4
    <3>3. request'.id \in pending /\ \A j \in AnsweredAt : request'.id # outbox[j].to.id
          BY <1>2, <2>1, <2>2 DEF OnePlace
    <3>4. \A i \in AnsweredAt : /\ outbox[i].to.id \in pending
                                /\ \A j \in AnsweredAt : i # j => outbox[i].to.id # outbox[j].to.id
          BY <1>2, <2>1 DEF OnePlace
    <3> QED BY <2>1, <2>3, <3>2, <3>3, <3>4 DEF OnePlace
  <2>5. Cardinality(pending)' = Cardinality(AskedAt)'
                + (IF request = M!Idle THEN 0 ELSE 1)' + Cardinality(AnsweredAt)'
        BY <1>2, <2>1, <2>2, <2>3
  <2> QED BY <1>1, <2>1, <2>4, <2>5 DEF PlacesInv
<1>6. CASE DropsLine
  <2>1. /\ inbox # <<>> /\ inbox' = Tail(inbox) /\ pc # "ended"
        /\ Head(inbox) \notin M!Requests
        /\ outbox' = outbox \/ outbox' = outbox \o <<[kind |-> "error"]>>
        /\ UNCHANGED <<request, pending>>
        BY <1>6 DEF DropsLine
  <2>2. /\ \A i \in AskedAt' : /\ i + 1 \in AskedAt /\ inbox'[i] = inbox[i + 1]
                               /\ i \in Nat /\ i > 0
        /\ Cardinality(AskedAt) \in Nat /\ Cardinality(AskedAt') \in Nat
        /\ Cardinality(AskedAt') = Cardinality(AskedAt)
    <3>1. /\ \A i \in AskedAt' : /\ i + 1 \in AskedAt /\ inbox'[i] = inbox[i + 1]
                                 /\ i \in Nat /\ i > 0
          /\ 1 \notin AskedAt
          /\ Cardinality(AskedAt) \in Nat /\ Cardinality(AskedAt') \in Nat
          /\ Cardinality(AskedAt') = Cardinality(AskedAt) - (IF 1 \in AskedAt THEN 1 ELSE 0)
          BY <1>1, <2>1, InboxTail
    <3> QED BY <3>1
  <2>3. /\ AnsweredAt' = AnsweredAt
        /\ \A i \in AnsweredAt : outbox'[i] = outbox[i]
    <3>1. CASE outbox' = outbox BY <3>1 DEF AnsweredAt
    <3>2. CASE outbox' = outbox \o <<[kind |-> "error"]>>
          BY <1>1, <3>2, NoAnswer, MessageTypes
    <3> QED BY <2>1, <3>1, <3>2
  <2>4. OnePlace'
    <3>1. \A i \in AskedAt' : \A j \in AskedAt' : i # j => i + 1 # j + 1
          BY <2>2
    <3>2. ASSUME NEW i \in AskedAt'
          PROVE  /\ inbox'[i].id \in pending
                 /\ \A j \in AskedAt' : i # j => inbox'[i].id # inbox'[j].id
                 /\ request # M!Idle => inbox'[i].id # request.id
                 /\ \A j \in AnsweredAt : inbox'[i].id # outbox[j].to.id
      <4>1. i + 1 \in AskedAt /\ inbox'[i] = inbox[i + 1]
            BY <2>2
      <4>2. /\ inbox[i + 1].id \in pending
            /\ \A j \in AskedAt : i + 1 # j => inbox[i + 1].id # inbox[j].id
            /\ request # M!Idle => inbox[i + 1].id # request.id
            /\ \A j \in AnsweredAt : inbox[i + 1].id # outbox[j].to.id
            BY <1>2, <2>1, <4>1 DEF OnePlace
      <4>3. \A j \in AskedAt' : i # j => inbox'[i].id # inbox'[j].id
            BY <2>2, <3>1, <4>1, <4>2
      <4> QED BY <4>1, <4>2, <4>3
    <3>3. /\ request # M!Idle => /\ request.id \in pending
                                /\ \A j \in AnsweredAt : request.id # outbox'[j].to.id
          /\ \A i \in AnsweredAt :
                 /\ outbox'[i].to.id \in pending
                 /\ \A j \in AnsweredAt : i # j => outbox'[i].to.id # outbox'[j].to.id
          BY <1>2, <2>1, <2>3 DEF OnePlace
    <3>4. \A i \in AskedAt' : \A j \in AnsweredAt : inbox'[i].id # outbox'[j].to.id
          BY <2>3, <3>2
    <3> QED BY <2>1, <2>3, <3>2, <3>3, <3>4 DEF OnePlace
  <2> QED BY <1>1, <1>2, <2>1, <2>2, <2>3, <2>4 DEF PlacesInv
<1>7. CASE McpReceives
  <2>1. /\ outbox # <<>> /\ outbox' = Tail(outbox)
        /\ UNCHANGED <<inbox, request, pc>>
        BY <1>7 DEF McpReceives, M!Receive
  <2>2. /\ \A i \in AnsweredAt' : /\ i + 1 \in AnsweredAt /\ outbox'[i] = outbox[i + 1]
                                  /\ i \in Nat /\ i > 0
        /\ Head(outbox) = outbox[1]
        /\ Head(outbox).kind = "answer" <=> 1 \in AnsweredAt
        /\ Cardinality(AnsweredAt) \in Nat /\ Cardinality(AnsweredAt') \in Nat
        /\ Cardinality(AnsweredAt') = Cardinality(AnsweredAt) - (IF 1 \in AnsweredAt THEN 1 ELSE 0)
        BY <1>1, <2>1, OutboxTail
  <2>3. AskedAt' = AskedAt
        BY <2>1 DEF AskedAt
  <2>4. \A i \in AnsweredAt' : i + 1 # 1 /\ \A j \in AnsweredAt' : i # j => i + 1 # j + 1
        BY <2>2
  <2>5. CASE Head(outbox).kind # "answer"
    <3>1. pending' = pending
      <4>1. Head(outbox) \in Message
            BY <1>1, <2>1, HeadTailProperties
      <4>2. CASE Head(outbox).kind = "changed"
            BY <1>7, <4>2 DEF McpReceives, M!Receive
      <4>3. CASE Head(outbox).kind = "error"
            BY <1>7, <4>3 DEF McpReceives, M!Receive, M!clientVars
      <4> QED BY <2>5, <4>1, <4>2, <4>3, MessageKinds
    <3>2. pc # "ended" => OnePlace'
      <4> SUFFICES ASSUME pc # "ended" PROVE OnePlace'
          OBVIOUS
      <4>1. \A i \in AnsweredAt' :
                /\ outbox'[i].to.id \in pending
                /\ \A j \in AnsweredAt' : i # j => outbox'[i].to.id # outbox'[j].to.id
                /\ request # M!Idle => request.id # outbox'[i].to.id
                /\ \A j \in AskedAt : inbox[j].id # outbox'[i].to.id
            BY <1>2, <2>2, <2>4 DEF OnePlace
      <4> QED BY <1>2, <2>1, <2>3, <3>1, <4>1 DEF OnePlace
    <3> QED BY <1>1, <1>2, <2>1, <2>2, <2>3, <2>5, <3>1, <3>2 DEF PlacesInv
  <2>6. CASE Head(outbox).kind = "answer"
    <3>1. pending' = pending \ {outbox[1].to.id}
          BY <1>7, <2>2, <2>6 DEF McpReceives, M!Receive
    <3>2. pending' \subseteq Ids /\ IsFiniteSet(pending')
          BY <1>1, <3>1, FS_RemoveElement
    <3>3. ASSUME pc # "ended" PROVE OnePlace'
      <4>1. \A i \in AnsweredAt' :
                /\ outbox'[i].to.id \in pending'
                /\ \A j \in AnsweredAt' : i # j => outbox'[i].to.id # outbox'[j].to.id
                /\ request # M!Idle => request.id # outbox'[i].to.id
                /\ \A j \in AskedAt : inbox[j].id # outbox'[i].to.id
            BY <1>2, <2>2, <2>4, <2>6, <3>1, <3>3 DEF OnePlace
      <4>2. \A i \in AskedAt : inbox[i].id \in pending'
            BY <1>2, <2>2, <2>6, <3>1, <3>3 DEF OnePlace
      <4>3. request # M!Idle => request.id \in pending'
            BY <1>2, <2>2, <2>6, <3>1, <3>3 DEF OnePlace
      <4>4. \A i \in AskedAt : /\ \A j \in AskedAt : i # j => inbox[i].id # inbox[j].id
                               /\ request # M!Idle => inbox[i].id # request.id
            BY <1>2, <3>3 DEF OnePlace
      <4> QED BY <2>1, <2>3, <4>1, <4>2, <4>3, <4>4 DEF OnePlace
    <3>4. ASSUME pc # "ended"
          PROVE  Cardinality(pending)' = Cardinality(AskedAt)'
                     + (IF request = M!Idle THEN 0 ELSE 1)' + Cardinality(AnsweredAt)'
      <4>1. outbox[1].to.id \in pending
            BY <1>2, <2>2, <2>6, <3>4 DEF OnePlace
      <4>2. Cardinality(pending') = Cardinality(pending) - 1
            BY <1>1, <3>1, <4>1, FS_RemoveElement
      <4>3. Cardinality(AskedAt) \in Nat
            BY <1>1, AskedCount
      <4> QED BY <1>2, <2>1, <2>2, <2>3, <2>6, <3>4, <4>2, <4>3
    <3> QED BY <2>1, <3>2, <3>3, <3>4 DEF PlacesInv
  <2> QED BY <2>5, <2>6
<1>8. CASE M!Ends
      BY <1>1, <1>8 DEF M!Ends, M!clientVars, PlacesInv
<1>9. CASE \E line \in LineSet : Writes(line)
  <2>1. PICK line \in LineSet : Writes(line)
        BY <1>9
  <2>2. /\ inbox' = Append(inbox, line) /\ UNCHANGED <<outbox, request, pc>> /\ pc # "ended"
        BY <2>1 DEF Writes
  <2>3. /\ \A i \in AskedAt : inbox'[i] = inbox[i]
        /\ inbox'[Len(inbox) + 1] = line /\ Len(inbox) + 1 \notin AskedAt
        /\ AskedAt' = AskedAt \cup (IF line \in M!Requests THEN {Len(inbox) + 1} ELSE {})
        /\ Cardinality(AskedAt) \in Nat
        /\ Cardinality(AskedAt')
               = Cardinality(AskedAt) + (IF line \in M!Requests THEN 1 ELSE 0)
        BY <1>1, <2>2, InboxAppend
  <2>4. AnsweredAt' = AnsweredAt /\ Cardinality(AnsweredAt) \in Nat
        BY <1>1, <2>2, AnsweredCount DEF AnsweredAt
  <2>5. CASE line \notin M!Requests
    <3>1. pending' = pending /\ AskedAt' = AskedAt
          BY <2>1, <2>3, <2>5 DEF Writes
    <3>2. OnePlace'
      <4>1. \A i \in AskedAt : /\ inbox'[i].id \in pending
                               /\ \A j \in AskedAt : i # j => inbox'[i].id # inbox'[j].id
                               /\ request # M!Idle => inbox'[i].id # request.id
                               /\ \A j \in AnsweredAt : inbox'[i].id # outbox[j].to.id
            BY <2>2, <2>3, Placed
      <4>2. /\ request # M!Idle => /\ request.id \in pending
                                  /\ \A j \in AnsweredAt : request.id # outbox[j].to.id
            /\ \A i \in AnsweredAt :
                   /\ outbox[i].to.id \in pending
                   /\ \A j \in AnsweredAt : i # j => outbox[i].to.id # outbox[j].to.id
            BY <1>2, <2>2 DEF OnePlace
      <4> QED BY <2>2, <2>4, <3>1, <4>1, <4>2 DEF OnePlace
    <3> QED BY <1>1, <1>2, <2>2, <2>4, <3>1, <3>2 DEF PlacesInv
  <2>6. CASE line \in M!Requests
    <3>1. line.id \notin pending /\ pending' = pending \cup {line.id} /\ line.id \in Ids
          BY <2>1, <2>6, RequestKinds DEF Writes
    <3>2. AskedAt' = AskedAt \cup {Len(inbox) + 1}
          BY <2>3, <2>6
    <3>3. OnePlace'
      <4>1. \A i \in AskedAt' : /\ inbox'[i].id \in pending'
                                /\ \A j \in AskedAt' : i # j => inbox'[i].id # inbox'[j].id
                                /\ request # M!Idle => inbox'[i].id # request.id
                                /\ \A j \in AnsweredAt : inbox'[i].id # outbox[j].to.id
        <5>1. \A i \in AskedAt : inbox'[i].id \in pending /\ inbox'[i].id # line.id
              BY <1>2, <2>2, <2>3, <3>1 DEF OnePlace
        <5>2. /\ request # M!Idle => line.id # request.id
              /\ \A j \in AnsweredAt : line.id # outbox[j].to.id
              BY <1>2, <2>2, <3>1 DEF OnePlace
        <5>3. \A i \in AskedAt : /\ \A j \in AskedAt : i # j => inbox'[i].id # inbox'[j].id
                                 /\ request # M!Idle => inbox'[i].id # request.id
                                 /\ \A j \in AnsweredAt : inbox'[i].id # outbox[j].to.id
              BY <2>2, <2>3, Placed
        <5> QED BY <2>3, <3>1, <3>2, <5>1, <5>2, <5>3
      <4>2. request # M!Idle => /\ request.id \in pending'
                                /\ \A j \in AnsweredAt : request.id # outbox[j].to.id
            BY <1>2, <2>2, <3>1 DEF OnePlace
      <4>3. \A i \in AnsweredAt : /\ outbox[i].to.id \in pending'
                                  /\ \A j \in AnsweredAt : i # j => outbox[i].to.id # outbox[j].to.id
            BY <1>2, <2>2, <3>1 DEF OnePlace
      <4> QED BY <2>2, <2>4, <4>1, <4>2, <4>3 DEF OnePlace
    <3>4. /\ pending' \subseteq Ids /\ IsFiniteSet(pending')
          /\ Cardinality(pending') = Cardinality(pending) + 1
          BY <1>1, <3>1, FS_AddElement
    <3>5. Cardinality(pending') = Cardinality(AskedAt')
                + (IF request = M!Idle THEN 0 ELSE 1) + Cardinality(AnsweredAt)
          BY <1>2, <2>2, <2>3, <2>4, <2>6, <3>4
    <3> QED BY <2>2, <2>4, <3>3, <3>4, <3>5 DEF PlacesInv
  <2> QED BY <2>5, <2>6
<1>10. CASE \E outcome \in Said \cup SUBSET CATALOGUE : Replies(outcome)
  <2>1. PICK outcome \in Said \cup SUBSET CATALOGUE : Replies(outcome)
        BY <1>10
  <2>2. /\ request \in M!Requests /\ request # M!Idle /\ request' = M!Idle
        /\ pc # "ended" /\ pc' # "ended"
        /\ outbox' = outbox \o <<M!Answer(outcome)>> /\ UNCHANGED <<inbox, pending>>
        BY <2>1, RequestKinds DEF Replies, Waits
  <2>3. /\ M!Answer(outcome) \in Message
        /\ M!Answer(outcome).kind = "answer" /\ M!Answer(outcome).to = request
        BY <2>2, MessageTypes DEF M!Answer
  <2>4. /\ \A i \in AnsweredAt : outbox'[i] = outbox[i]
        /\ outbox'[Len(outbox) + 1].to = request /\ Len(outbox) + 1 \notin AnsweredAt
        /\ AnsweredAt' = AnsweredAt \cup {Len(outbox) + 1}
        /\ Cardinality(AnsweredAt) \in Nat
        /\ Cardinality(AnsweredAt') = Cardinality(AnsweredAt) + 1
        BY <1>1, <2>2, <2>3, OutboxAppend
  <2>5. AskedAt' = AskedAt /\ Cardinality(AskedAt) \in Nat
        BY <1>1, <2>2, AskedCount DEF AskedAt
  <2>6. OnePlace'
    <3>1. \A i \in AnsweredAt' :
              /\ outbox'[i].to.id \in pending
              /\ \A j \in AnsweredAt' : i # j => outbox'[i].to.id # outbox'[j].to.id
              /\ \A j \in AskedAt : inbox[j].id # outbox'[i].to.id
      <4>1. \A i \in AnsweredAt :
                /\ outbox[i].to.id \in pending /\ request.id # outbox[i].to.id
                /\ \A j \in AnsweredAt : i # j => outbox[i].to.id # outbox[j].to.id
                /\ \A j \in AskedAt : inbox[j].id # outbox[i].to.id
            BY <1>2, <2>2 DEF OnePlace
      <4>2. request.id \in pending /\ \A j \in AskedAt : inbox[j].id # request.id
            BY <1>2, <2>2 DEF OnePlace
      <4> QED BY <2>4, <4>1, <4>2
    <3> QED BY <1>2, <2>2, <2>5, <3>1 DEF OnePlace
  <2>7. Cardinality(pending) = Cardinality(AskedAt') + Cardinality(AnsweredAt')
        BY <1>2, <2>2, <2>4, <2>5
  <2> QED BY <1>1, <2>2, <2>4, <2>5, <2>6, <2>7 DEF PlacesInv
<1> QED BY <1>3, <1>4, <1>5, <1>6, <1>7, <1>8, <1>9, <1>10 DEF MessageStep

-----------------------------------------------------------------------------
(* What the client knows when the outbox grows, and when it reads from it.  *)

LEMMA ToldGrows ==
    ASSUME NEW box \in Seq(Message), NEW m \in Message, NEW cl, NEW now,
           m.kind = "changed" \/ Told(box, cl, now),
           Lists(m) => m.outcome = now
    PROVE  Told(box \o <<m>>, cl, now)
<1> DEFINE n == Len(box)
           more == box \o <<m>>
<1>1. /\ n \in Nat /\ Len(more) = n + 1
      /\ \A i \in 1 .. n : more[i] = box[i]
      /\ more[n + 1] = m
      BY LenProperties, Appended
<1> HIDE DEF more
<1>2. \A l \in 0 .. n : Quiet(more, l, n + 2) => ~News(m) /\ Quiet(box, l, n + 1)
  <2> SUFFICES ASSUME NEW l \in 0 .. n, \A j \in l + 1 .. n + 1 : ~News(more[j])
               PROVE  ~News(m) /\ \A j \in l + 1 .. n : ~News(box[j])
      BY <1>1 DEF Quiet
  <2>1. n + 1 \in l + 1 .. n + 1 /\ \A j \in l + 1 .. n : j \in l + 1 .. n + 1 /\ j \in 1 .. n
        BY <1>1
  <2> QED BY <1>1, <2>1
<1>3. \A l \in 1 .. n : Counts(more, cl, l) => Counts(box, cl, l)
  <2> SUFFICES ASSUME NEW l \in 1 .. n, Counts(more, cl, l) PROVE Counts(box, cl, l)
      OBVIOUS
  <2>1. \A j \in 1 .. l - 1 : j \in 1 .. n
        BY <1>1
  <2> QED BY <1>1, <2>1 DEF Counts
<1>4. ~News(m) => Told(box, cl, now)
      BY DEF News
<1>5. ASSUME Knows(cl), Quiet(more, 0, n + 2) PROVE cl.list = {now}
      BY <1>1, <1>2, <1>4, <1>5 DEF Told
<1>6. ASSUME NEW l \in 1 .. n + 1, Counts(more, cl, l), Quiet(more, l, n + 2)
      PROVE  more[l].outcome = now
  <2>1. CASE l = n + 1
        BY <1>1, <1>6, <2>1 DEF Counts
  <2>2. CASE l \in 1 .. n
        BY <1>1, <1>2, <1>3, <1>4, <1>6, <2>2 DEF Told
  <2> QED BY <1>1, <2>1, <2>2
<1> QED BY <1>1, <1>5, <1>6 DEF Told, more

LEMMA FittingGrows ==
    ASSUME NEW box \in Seq(Message), NEW m \in Message, NEW cl, NEW now,
           Fitting(box, cl),
           Calls(m) => Told(box, cl, now) /\ Fits(m, now)
    PROVE  Fitting(box \o <<m>>, cl)
<1> DEFINE n == Len(box)
           more == box \o <<m>>
<1>1. /\ n \in Nat /\ Len(more) = n + 1
      /\ \A i \in 1 .. n : more[i] = box[i]
      /\ more[n + 1] = m
      BY LenProperties, Appended
<1> HIDE DEF more
<1>2. \A l \in 0 .. n : \A i \in 1 .. n + 1 : Quiet(more, l, i) => Quiet(box, l, i)
  <2> SUFFICES ASSUME NEW l \in 0 .. n, NEW i \in 1 .. n + 1, NEW j \in l + 1 .. i - 1,
                      ~News(more[j])
               PROVE  ~News(box[j])
      BY DEF Quiet
  <2>1. j \in 1 .. n
        BY <1>1
  <2> QED BY <1>1, <2>1
<1>3. \A l \in 1 .. n : Counts(more, cl, l) => Counts(box, cl, l)
  <2> SUFFICES ASSUME NEW l \in 1 .. n, Counts(more, cl, l) PROVE Counts(box, cl, l)
      OBVIOUS
  <2>1. \A j \in 1 .. l - 1 : j \in 1 .. n
        BY <1>1
  <2> QED BY <1>1, <2>1 DEF Counts
<1>4. ASSUME NEW i \in 1 .. n + 1, Calls(more[i])
      PROVE  /\ Knows(cl) /\ Quiet(more, 0, i) => \A list \in cl.list : Fits(more[i], list)
             /\ \A l \in 1 .. i - 1 :
                    Counts(more, cl, l) /\ Quiet(more, l, i) => Fits(more[i], more[l].outcome)
  <2>1. /\ Quiet(more, 0, i) => Quiet(box, 0, i)
        /\ \A l \in 1 .. i - 1 :
               /\ l \in 1 .. n
               /\ Counts(more, cl, l) /\ Quiet(more, l, i) => Counts(box, cl, l) /\ Quiet(box, l, i)
               /\ more[l] = box[l]
        BY <1>1, <1>2, <1>3
  <2>2. CASE i \in 1 .. n
    <3>1. more[i] = box[i] /\ Calls(box[i])
          BY <1>1, <1>4, <2>2
    <3>2. /\ Knows(cl) /\ Quiet(box, 0, i) => \A list \in cl.list : Fits(box[i], list)
          /\ \A l \in 1 .. i - 1 :
                 Counts(box, cl, l) /\ Quiet(box, l, i) => Fits(box[i], box[l].outcome)
          BY <2>2, <3>1 DEF Fitting
    <3> QED BY <2>1, <3>1, <3>2
  <2>3. CASE i = n + 1
    <3>1. more[i] = m /\ Told(box, cl, now) /\ Fits(m, now)
          BY <1>1, <1>4, <2>3
    <3>2. /\ Knows(cl) /\ Quiet(box, 0, i) => cl.list = {now}
          /\ \A l \in 1 .. n : Counts(box, cl, l) /\ Quiet(box, l, i) => box[l].outcome = now
          BY <2>3, <3>1 DEF Told
    <3> QED BY <2>1, <3>1, <3>2
  <2> QED BY <1>1, <2>2, <2>3
<1> QED BY <1>1, <1>4 DEF Fitting, more

\* A client that reads the first message has of it what it believes later.
Reads(m, cl, cl2) ==
    /\ Knows(cl2) => \/ Lists(m) /\ cl.ready /\ cl2.list = {m.outcome}
                     \/ ~News(m) /\ Knows(cl) /\ cl2.list = cl.list
    /\ cl2.ready => cl.ready \/ Greets(m)
    /\ cl.ready => cl2.ready
    /\ cl2.list # {} => cl2.ready

LEMMA QuietTail ==
    ASSUME NEW box \in Seq(Message), box # <<>>
    PROVE  /\ Len(box) \in Nat \ {0} /\ Len(Tail(box)) = Len(box) - 1
           /\ \A i \in 1 .. Len(box) - 1 : Tail(box)[i] = box[i + 1]
           /\ \A l \in 0 .. Len(box) - 1 : \A r \in 1 .. Len(box) :
                  Quiet(Tail(box), l, r) => Quiet(box, l + 1, r + 1)
<1> DEFINE n == Len(box)
           rest == Tail(box)
<1>1. /\ n \in Nat \ {0} /\ Len(rest) = n - 1
      /\ \A i \in 1 .. n - 1 : rest[i] = box[i + 1]
      BY EmptySeq, LenProperties, HeadTailProperties
<1> HIDE DEF rest, n
<1>2. ASSUME NEW l \in 0 .. n - 1, NEW r \in 1 .. n, Quiet(rest, l, r)
      PROVE  Quiet(box, l + 1, r + 1)
  <2> SUFFICES ASSUME NEW j \in l + 2 .. r PROVE ~News(box[j])
      BY <1>1 DEF Quiet
  <2>1. j - 1 \in l + 1 .. r - 1 /\ j - 1 \in 1 .. n - 1 /\ (j - 1) + 1 = j
        BY <1>1
  <2> QED BY <1>1, <1>2, <2>1 DEF Quiet
<1> QED BY <1>1, <1>2 DEF rest, n

LEMMA CountsTail ==
    ASSUME NEW box \in Seq(Message), box # <<>>, NEW cl, NEW cl2, Reads(box[1], cl, cl2),
           NEW l \in 1 .. Len(box) - 1, Counts(Tail(box), cl2, l)
    PROVE  Counts(box, cl, l + 1)
<1>1. /\ Len(box) \in Nat \ {0}
      /\ \A i \in 1 .. Len(box) - 1 : Tail(box)[i] = box[i + 1]
      BY QuietTail
<1>2. Lists(box[l + 1])
      BY <1>1 DEF Counts
<1>3. CASE cl2.ready
      BY <1>1, <1>2, <1>3 DEF Counts, Reads
<1>4. ASSUME NEW j \in 1 .. l - 1, Greets(Tail(box)[j])
      PROVE  Counts(box, cl, l + 1)
  <2>1. j \in 1 .. Len(box) - 1 /\ j + 1 \in 1 .. (l + 1) - 1
        BY <1>1
  <2> QED BY <1>1, <1>2, <1>4, <2>1 DEF Counts
<1> QED BY <1>3, <1>4 DEF Counts

LEMMA ToldTail ==
    ASSUME NEW box \in Seq(Message), box # <<>>, NEW cl, NEW cl2, Reads(box[1], cl, cl2),
           NEW now, Told(box, cl, now)
    PROVE  Told(Tail(box), cl2, now)
<1> DEFINE n == Len(box)
<1>1. /\ n \in Nat \ {0} /\ Len(Tail(box)) = n - 1
      /\ \A i \in 1 .. n - 1 : Tail(box)[i] = box[i + 1]
      /\ \A l \in 0 .. n - 1 : Quiet(Tail(box), l, n) => Quiet(box, l + 1, n + 1)
      BY QuietTail
<1>2. ASSUME Knows(cl2), Quiet(Tail(box), 0, n) PROVE cl2.list = {now}
  <2>1. Quiet(box, 1, n + 1)
        BY <1>1, <1>2
  <2>2. CASE Lists(box[1]) /\ cl.ready /\ cl2.list = {box[1].outcome}
        BY <1>1, <2>1, <2>2 DEF Told, Counts
  <2>3. CASE ~News(box[1]) /\ Knows(cl) /\ cl2.list = cl.list
    <3>1. Quiet(box, 0, n + 1)
          BY <1>1, <2>1, <2>3 DEF Quiet
    <3> QED BY <2>3, <3>1 DEF Told
  <2> QED BY <1>2, <2>2, <2>3 DEF Reads
<1>3. ASSUME NEW l \in 1 .. n - 1, Counts(Tail(box), cl2, l), Quiet(Tail(box), l, n)
      PROVE  Tail(box)[l].outcome = now
  <2>1. Counts(box, cl, l + 1)
        BY <1>3, CountsTail
  <2>2. Quiet(box, l + 1, n + 1) /\ l + 1 \in 1 .. n
        BY <1>1, <1>3
  <2> QED BY <1>1, <2>1, <2>2 DEF Told
<1> QED BY <1>1, <1>2, <1>3 DEF Told

LEMMA FittingTail ==
    ASSUME NEW box \in Seq(Message), box # <<>>, NEW cl, NEW cl2, Reads(box[1], cl, cl2),
           Fitting(box, cl)
    PROVE  Fitting(Tail(box), cl2)
<1> DEFINE n == Len(box)
<1>1. /\ n \in Nat \ {0} /\ Len(Tail(box)) = n - 1
      /\ \A i \in 1 .. n - 1 : Tail(box)[i] = box[i + 1]
      /\ \A l \in 0 .. n - 1 : \A r \in 1 .. n :
             Quiet(Tail(box), l, r) => Quiet(box, l + 1, r + 1)
      BY QuietTail
<1>2. ASSUME NEW i \in 1 .. n - 1, Calls(Tail(box)[i])
      PROVE  /\ Knows(cl2) /\ Quiet(Tail(box), 0, i) =>
                    \A list \in cl2.list : Fits(Tail(box)[i], list)
             /\ \A l \in 1 .. i - 1 : Counts(Tail(box), cl2, l) /\ Quiet(Tail(box), l, i) =>
                    Fits(Tail(box)[i], Tail(box)[l].outcome)
  <2>1. Tail(box)[i] = box[i + 1] /\ Calls(box[i + 1]) /\ i + 1 \in 1 .. n
        BY <1>1, <1>2
  <2>2. /\ Knows(cl) /\ Quiet(box, 0, i + 1) => \A list \in cl.list : Fits(box[i + 1], list)
        /\ \A l \in 1 .. i :
               Counts(box, cl, l) /\ Quiet(box, l, i + 1) => Fits(box[i + 1], box[l].outcome)
        BY <2>1 DEF Fitting
  <2>3. ASSUME Knows(cl2), Quiet(Tail(box), 0, i)
        PROVE  \A list \in cl2.list : Fits(box[i + 1], list)
    <3>1. Quiet(box, 1, i + 1)
          BY <1>1, <2>3
    <3>2. CASE Lists(box[1]) /\ cl.ready /\ cl2.list = {box[1].outcome}
      <4>1. 1 \in 1 .. i /\ Counts(box, cl, 1)
            BY <1>1, <3>2 DEF Counts
      <4> QED BY <2>2, <3>1, <3>2, <4>1
    <3>3. CASE ~News(box[1]) /\ Knows(cl) /\ cl2.list = cl.list
      <4>1. Quiet(box, 0, i + 1)
            BY <1>1, <3>1, <3>3 DEF Quiet
      <4> QED BY <2>2, <3>3, <4>1
    <3> QED BY <2>3, <3>2, <3>3 DEF Reads
  <2>4. ASSUME NEW l \in 1 .. i - 1, Counts(Tail(box), cl2, l), Quiet(Tail(box), l, i)
        PROVE  Fits(box[i + 1], Tail(box)[l].outcome)
    <3>1. l \in 1 .. n - 1 /\ l + 1 \in 1 .. i /\ l \in 0 .. n - 1 /\ i \in 1 .. n
          BY <1>1
    <3>2. Counts(box, cl, l + 1)
          BY <2>4, <3>1, CountsTail
    <3>3. Quiet(box, l + 1, i + 1) /\ Tail(box)[l] = box[l + 1]
          BY <1>1, <2>4, <3>1
    <3> QED BY <2>2, <3>1, <3>2, <3>3
  <2> QED BY <2>1, <2>3, <2>4
<1> QED BY <1>1, <1>2 DEF Fitting

LEMMA ClientStarts == ASSUME Init PROVE ClientInv
<1>1. outbox = <<>> /\ client = [ready |-> FALSE, list |-> {}, stale |-> FALSE] /\ Len(outbox) = 0
      BY DEF Init, M!McpInit
<1>2. 1 .. Len(outbox) = {}
      BY <1>1
<1> QED BY <1>1, <1>2 DEF ClientInv, Greeted, Told, Fitting, Knows

\* What the messages and the client are stays, with the list that is visible.
LEMMA ClientFrame ==
    ASSUME ClientInv, UNCHANGED <<outbox, client, initialized>>, Now' = Now
    PROVE  ClientInv'
BY DEF ClientInv, Now

LEMMA GreetedGrows ==
    ASSUME NEW box \in Seq(Message), NEW m \in Message, NEW cl, Greeted(box \o <<m>>, cl)
    PROVE  Greeted(box, cl) \/ Greets(m)
<1>1. /\ Len(box) \in Nat /\ Len(box \o <<m>>) = Len(box) + 1
      /\ \A i \in 1 .. Len(box) : (box \o <<m>>)[i] = box[i]
      /\ (box \o <<m>>)[Len(box) + 1] = m
      BY LenProperties, Appended
<1>2. CASE cl.ready BY <1>2 DEF Greeted
<1>3. ASSUME NEW j \in 1 .. Len(box) + 1, Greets((box \o <<m>>)[j])
      PROVE  Greeted(box, cl) \/ Greets(m)
  <2>1. CASE j = Len(box) + 1 BY <1>1, <1>3, <2>1
  <2>2. CASE j \in 1 .. Len(box) BY <1>1, <1>3, <2>2 DEF Greeted
  <2> QED BY <1>1, <2>1, <2>2
<1> QED BY <1>1, <1>2, <1>3 DEF Greeted

\* A message is sent; only one that tells of a change may come with one.
LEMMA ClientSent ==
    ASSUME LoopInv, ClientInv, NEW m \in Message, outbox' = outbox \o <<m>>, client' = client,
           m.kind = "changed" \/ Now' = Now,
           Lists(m) => m.outcome = Now,
           Calls(m) => Fits(m, Now),
           initialized \/ Greets(m) => initialized'
    PROVE  ClientInv'
<1>1. outbox \in Seq(Message)
      BY DEF LoopInv
<1>2. /\ Greeted(outbox, client) => initialized
      /\ client.list # {} => client.ready
      /\ Told(outbox, client, Now) /\ Fitting(outbox, client)
      BY DEF ClientInv, Now
<1>3. Greeted(outbox', client') => initialized'
      BY <1>1, <1>2, GreetedGrows
<1>4. Told(outbox', client', Now')
  <2>1. Lists(m) => m.outcome = Now'
        BY DEF Lists
  <2>2. m.kind = "changed" \/ Told(outbox, client, Now')
        BY <1>2
  <2> HIDE DEF Now
  <2> QED BY <1>1, <2>1, <2>2, ToldGrows
<1>5. Fitting(outbox', client')
      BY <1>1, <1>2, FittingGrows
<1> QED BY <1>2, <1>3, <1>4, <1>5 DEF ClientInv, Now

\* The client reads its first message.
LEMMA ReceiveReads ==
    ASSUME LoopInv, ClientInv, M!Receive
    PROVE  Reads(outbox[1], client, client')
<1>1. /\ outbox # <<>> /\ outbox \in Seq(Message) /\ Head(outbox) = outbox[1]
      /\ client = [ready |-> client.ready, list |-> client.list, stale |-> client.stale]
      /\ client.list # {} => client.ready
      BY DEF M!Receive, LoopInv, ClientInv
<1> DEFINE m == outbox[1]
<1>2. m \in Message
      BY <1>1, HeadTailProperties
<1>3. m.kind \in {"changed", "error", "answer"}
      BY <1>2, MessageKinds
<1>4. CASE m.kind = "changed"
  <2>1. client' = [client EXCEPT !.stale = TRUE]
        BY <1>1, <1>4 DEF M!Receive
  <2>2. client'.stale /\ client'.ready = client.ready /\ client'.list = client.list
        BY <1>1, <2>1
  <2> QED BY <1>1, <2>2 DEF Reads, Knows
<1>5. CASE m.kind = "error"
  <2>1. client' = client
        BY <1>1, <1>5 DEF M!Receive, M!clientVars
  <2> QED BY <1>1, <1>5, <2>1 DEF Reads, News, Lists
<1>6. CASE m.kind = "answer"
  <2>1. client' = IF m.to.kind = "initialize" THEN [client EXCEPT !.ready = TRUE]
                  ELSE IF m.to.kind = "list" /\ client.ready
                  THEN [client EXCEPT !.list = {m.outcome}, !.stale = FALSE]
                  ELSE client
        BY <1>1, <1>6 DEF M!Receive
  <2>2. CASE m.to.kind = "initialize"
    <3>1. client'.ready /\ client'.stale = client.stale /\ client'.list = client.list
          BY <1>1, <2>1, <2>2
    <3> QED BY <1>6, <2>2, <3>1 DEF Reads, Greets, News, Lists, Knows
  <2>3. CASE m.to.kind = "list" /\ client.ready
    <3>1. client'.ready /\ client'.list = {m.outcome}
          BY <1>1, <2>1, <2>3
    <3> QED BY <1>6, <2>3, <3>1 DEF Reads, Lists
  <2>4. CASE m.to.kind = "list" /\ ~client.ready
    <3>1. client' = client
          BY <2>1, <2>4
    <3> QED BY <1>1, <2>4, <3>1 DEF Reads, Knows
  <2>5. CASE m.to.kind \notin {"initialize", "list"}
    <3>1. client' = client
          BY <2>1, <2>5
    <3> QED BY <1>1, <1>6, <2>5, <3>1 DEF Reads, News, Lists
  <2> QED BY <2>2, <2>3, <2>4, <2>5
<1> QED BY <1>3, <1>4, <1>5, <1>6

LEMMA ClientStep == ASSUME LoopInv, ClientInv, MessageStep PROVE ClientInv'
<1>1. /\ outbox \in Seq(Message)
      /\ initialized \in BOOLEAN
      BY DEF LoopInv
<1>2. CASE Stays
  <2>1. UNCHANGED <<outbox, client, initialized>>
        BY <1>2 DEF Stays
  <2>2. CASE initialized
        BY <1>2, <2>1, <2>2, ClientFrame DEF Stays
  <2>3. CASE ~initialized
    <3>1. ~client.ready /\ ~Knows(client) /\ \A j \in 1 .. Len(outbox) : ~Greets(outbox[j])
          BY <2>3 DEF ClientInv, Greeted, Knows
    <3>2. Len(outbox) \in Nat
          BY <1>1, LenProperties
    <3>3. \A l \in 1 .. Len(outbox) : ~Counts(outbox, client, l)
      <4> SUFFICES ASSUME NEW l \in 1 .. Len(outbox) PROVE ~Counts(outbox, client, l)
          OBVIOUS
      <4>1. \A j \in 1 .. l - 1 : j \in 1 .. Len(outbox)
            BY <3>2
      <4> QED BY <3>1, <4>1 DEF Counts
    <3>4. Told(outbox, client, Now')
      <4> HIDE DEF Now
      <4> QED BY <3>1, <3>3 DEF Told
    <3> QED BY <2>1, <3>4 DEF ClientInv, Now
  <2> QED BY <1>1, <2>2, <2>3
<1>3. CASE TakesRequest BY <1>3, ClientFrame DEF TakesRequest
<1>4. CASE \E line \in LineSet : Writes(line)
      BY <1>4, ClientFrame DEF Writes
<1>5. CASE M!Ends
      BY <1>5, ClientFrame DEF M!Ends, M!clientVars, Now, M!Selection
<1>6. CASE TellsChange
  <2>1. [kind |-> "changed"] \in Message
        BY MessageTypes
  <2>2. /\ outbox' = outbox \o <<[kind |-> "changed"]>> /\ client' = client
        /\ initialized' = initialized
        BY <1>6 DEF TellsChange
  <2>3. /\ ~Lists([kind |-> "changed"]) /\ ~Calls([kind |-> "changed"])
        /\ ~Greets([kind |-> "changed"]) /\ [kind |-> "changed"].kind = "changed"
        BY DEF Lists, Calls, Greets
  <2> QED BY <2>1, <2>2, <2>3, ClientSent
<1>7. CASE DropsLine
  <2>1. [kind |-> "error"] \in Message
        BY MessageTypes
  <2>2. CASE outbox' = outbox
        BY <1>7, <2>2, ClientFrame DEF DropsLine
  <2>3. CASE outbox' = outbox \o <<[kind |-> "error"]>>
    <3>1. client' = client /\ initialized' = initialized /\ Now' = Now
          BY <1>7 DEF DropsLine
    <3>2. /\ ~Lists([kind |-> "error"]) /\ ~Calls([kind |-> "error"])
          /\ ~Greets([kind |-> "error"])
          BY DEF Lists, Calls, Greets
    <3> QED BY <2>1, <2>3, <3>1, <3>2, ClientSent
  <2> QED BY <1>7, <2>2, <2>3 DEF DropsLine
<1>8. CASE \E outcome \in Said \cup SUBSET CATALOGUE : Replies(outcome)
  <2>1. PICK outcome \in Said \cup SUBSET CATALOGUE : Replies(outcome)
        BY <1>8
  <2> DEFINE m == M!Answer(outcome)
  <2>2. m \in Message
        BY <2>1, MessageTypes DEF Replies
  <2>3. m.kind = "answer" /\ m.to = request /\ m.outcome = outcome
        BY DEF M!Answer
  <2>4. /\ outbox' = outbox \o <<m>> /\ client' = client /\ Now' = Now
        /\ initialized' = (initialized \/ request.kind = "initialize")
        /\ request.kind = "list" => outcome = Now
        /\ request.kind \in {"call", "batch"} => Fits(m, Now)
        BY <2>1 DEF Replies
  <2> HIDE DEF m
  <2>5. /\ Lists(m) => m.outcome = Now
        /\ Calls(m) => Fits(m, Now)
        /\ initialized \/ Greets(m) => initialized'
        BY <2>3, <2>4 DEF Lists, Calls, Greets
  <2> QED BY <2>2, <2>4, <2>5, ClientSent
<1>9. CASE McpReceives
  <2>1. M!Receive /\ outbox # <<>> /\ outbox' = Tail(outbox)
        BY <1>9 DEF McpReceives, M!Receive
  <2>2. initialized' = initialized /\ Now' = Now
        BY <2>1 DEF M!Receive, M!surfaceVars, Now, M!Selection
  <2>3. Reads(outbox[1], client, client')
        BY <2>1, ReceiveReads
  <2>4. /\ Greeted(outbox, client) => initialized
        /\ Told(outbox, client, Now) /\ Fitting(outbox, client)
        BY DEF ClientInv, Now
  <2>5. Greeted(Tail(outbox), client') => Greeted(outbox, client)
    <3>1. /\ Len(outbox) \in Nat \ {0} /\ Len(Tail(outbox)) = Len(outbox) - 1
          /\ \A i \in 1 .. Len(outbox) - 1 : Tail(outbox)[i] = outbox[i + 1]
          BY <1>1, <2>1, QuietTail
    <3>2. CASE client'.ready
          BY <2>3, <3>1, <3>2 DEF Reads, Greeted
    <3>3. ASSUME NEW j \in 1 .. Len(outbox) - 1, Greets(Tail(outbox)[j])
          PROVE  Greeted(outbox, client)
      <4>1. j + 1 \in 1 .. Len(outbox) /\ Greets(outbox[j + 1])
            BY <3>1, <3>3
      <4> QED BY <4>1 DEF Greeted
    <3> QED BY <3>1, <3>2, <3>3 DEF Greeted
  <2>6. Told(outbox', client', Now)
        BY <1>1, <2>1, <2>3, <2>4, ToldTail
  <2>7. Fitting(outbox', client')
        BY <1>1, <2>1, <2>3, <2>4, FittingTail
  <2>8. client'.list # {} => client'.ready
        BY <2>3 DEF Reads
  <2> QED BY <2>1, <2>2, <2>4, <2>5, <2>6, <2>7, <2>8 DEF ClientInv, Now
<1> QED BY <1>2, <1>3, <1>4, <1>5, <1>6, <1>7, <1>8, <1>9 DEF MessageStep

-----------------------------------------------------------------------------
(* The theorems.                                                           *)

LEMMA ServersInvariant ==
    Spec => [](SurfaceInv /\ LockInv /\ ThreadsInv /\ LoopInv /\ PlacesInv /\ ClientInv)
<1> DEFINE Inv == SurfaceInv /\ LockInv /\ ThreadsInv /\ LoopInv /\ PlacesInv /\ ClientInv
<1>1. Init => Inv
      BY SurfaceStarts, LockStarts, LoopStarts, PlacesStart, ClientStarts
<1>2. Inv /\ [Next]_vars => Inv'
  <2> SUFFICES ASSUME Inv, [Next]_vars PROVE Inv'
      OBVIOUS
  <2>1. MessageStep
        BY Digest
  <2> QED BY <2>1, SurfaceStep, LockStep, ThreadsStep, LoopStep, PlacesStep, ClientStep
<1> QED BY <1>1, <1>2, PTL DEF Spec

\* A tool runs on the rows of the last process that wrote, no answer is made
\* from what a panicking tool left half done, and each request is in one place
\* (reacquire_store, the poisoned Mutex, the loop over stdin).
THEOREM WholeRows == Spec => []RunsOnWholeRows
<1>1. LockInv /\ ThreadsInv /\ LoopInv /\ PlacesInv => RunsOnWholeRows
  <2> SUFFICES ASSUME LockInv, ThreadsInv, LoopInv, PlacesInv PROVE RunsOnWholeRows
      OBVIOUS
  <2>1. TypeOK
        BY DEF TypeOK, LockInv, ThreadsInv, PlacesInv, AskedAt, AnsweredAt
  <2>2. store = "mcp" /\ pc = "run" => "mcp" \notin behind
        BY DEF LockInv
  <2>3. \A c \in Conns : (conn[c] = "run" => "http" \notin behind) /\ reply[c] # "torn"
        BY DEF ThreadsInv
  <2> QED BY <2>1, <2>2, <2>3 DEF RunsOnWholeRows
<1> QED BY <1>1, ServersInvariant, PTL

\* A client that has read everything and was told of no change since it listed
\* the tools has the list in force (tools/list, notifications/tools/list_changed).
THEOREM InStep == Spec => []ClientInStep
<1>1. LoopInv /\ ClientInv => ClientInStep
  <2> SUFFICES ASSUME ClientInv, client.list # {}, ~client.stale, outbox = <<>>
               PROVE  client.list = {M!Visible(M!Selection)}
      BY DEF ClientInStep
  <2>1. Len(outbox) = 0 /\ 1 .. 0 = {}
        OBVIOUS
  <2>2. Quiet(outbox, 0, Len(outbox) + 1) /\ Knows(client)
        BY <2>1 DEF Quiet, Knows
  <2> QED BY <2>2 DEF ClientInv, Told
<1> QED BY <1>1, ServersInvariant, PTL

\* A call of a tool that the client has in its list is refused as hidden only
\* after the client was told of a change, and only listed tools run
\* (tools_call, batch_one).
THEOREM CallsFit == Spec => []CallsFitTheList
<1>1. LoopInv /\ ClientInv => CallsFitTheList
  <2> SUFFICES ASSUME LoopInv, ClientInv, outbox # <<>>, Head(outbox).kind = "answer",
                      Head(outbox).to.kind \in {"call", "batch"},
                      client.list # {}, ~client.stale
               PROVE  \A list \in client.list : Fits(Head(outbox), list)
      BY DEF CallsFitTheList, Fits
  <2>1. Len(outbox) \in Nat \ {0} /\ Head(outbox) = outbox[1]
        BY EmptySeq DEF LoopInv
  <2>2. 1 \in 1 .. Len(outbox) /\ Calls(outbox[1])
        BY <2>1 DEF Calls
  <2>3. Quiet(outbox, 0, 1) /\ Knows(client)
        BY DEF Quiet, Knows
  <2> QED BY <2>1, <2>2, <2>3 DEF ClientInv, Fitting
<1> QED BY <1>1, ServersInvariant, PTL

-----------------------------------------------------------------------------
(* Doing what the refusals of a hidden tool say.                           *)

Setting(names) ==
    LET lists == [tools : SUBSET SUBSET names, disable : SUBSET SUBSET names]
    IN  [env : lists, lists : lists]

\* What still hides a tool, in the worst case, as a number.
One(reason) == IF reason THEN 1 ELSE 0
Left(at, tool) ==
    One(M!NotListed(M!SelectionAt(at), tool))
        + One(tool \in UNION at.env.disable) + One(M!GroupOf(tool) \in UNION at.env.disable)
        + One(tool \in UNION at.lists.disable) + One(M!GroupOf(tool) \in UNION at.lists.disable)

\* The lists of allowed tools grow, those of disabled ones shrink.
Wider(at, end) ==
    /\ at.env.tools = {} <=> end.env.tools = {}
    /\ \A list \in end.env.tools : \E old \in at.env.tools : old \subseteq list
    /\ \A list \in end.lists.tools : \E old \in at.lists.tools : old \subseteq list
    /\ UNION end.env.disable \subseteq UNION at.env.disable
    /\ UNION end.lists.disable \subseteq UNION at.lists.disable
    /\ at.env.disable = {} => end.env.disable = {}
    /\ M!EnvValid(at.env) => M!EnvValid(end.env)

LEMMA WiderTwice ==
    ASSUME NEW a, NEW b, NEW c, Wider(a, b), Wider(b, c) PROVE Wider(a, c)
<1>1. \A list \in c.env.tools : \E old \in a.env.tools : old \subseteq list
  <2> SUFFICES ASSUME NEW list \in c.env.tools PROVE \E old \in a.env.tools : old \subseteq list
      OBVIOUS
  <2>1. PICK mid \in b.env.tools : mid \subseteq list
        BY DEF Wider
  <2>2. PICK old \in a.env.tools : old \subseteq mid
        BY DEF Wider
  <2> QED BY <2>1, <2>2
<1>2. \A list \in c.lists.tools : \E old \in a.lists.tools : old \subseteq list
  <2> SUFFICES ASSUME NEW list \in c.lists.tools PROVE \E old \in a.lists.tools : old \subseteq list
      OBVIOUS
  <2>1. PICK mid \in b.lists.tools : mid \subseteq list
        BY DEF Wider
  <2>2. PICK old \in a.lists.tools : old \subseteq mid
        BY DEF Wider
  <2> QED BY <2>1, <2>2
<1> QED BY <1>1, <1>2 DEF Wider

LEMMA WiderItself == ASSUME NEW at PROVE Wider(at, at)
BY DEF Wider

\* The operations on lists.
LEMMA AddedHas ==
    ASSUME NEW lists, NEW item
    PROVE  /\ \A list \in M!Added(lists, item) : item \in list /\ \E old \in lists : list = old \cup {item}
           /\ M!Added(lists, item) = {} <=> lists = {}
BY DEF M!Added

LEMMA DroppedLacks ==
    ASSUME NEW lists, NEW item
    PROVE  /\ UNION M!Dropped(lists, item) = (UNION lists) \ {item}
           /\ lists = {} => M!Dropped(lists, item) = {}
           /\ \A list \in M!Dropped(lists, item) : \E old \in lists : list = old \ {item}
<1> DEFINE dropped == M!Dropped(lists, item)
<1>1. \A list \in dropped : \E old \in lists : list = old \ {item}
      BY DEF M!Dropped
<1>2. \A old \in lists : old \ {item} # {} => old \ {item} \in dropped
      BY DEF M!Dropped
<1>3. ASSUME NEW x \in UNION dropped PROVE x \in (UNION lists) \ {item}
      BY <1>1
<1>4. ASSUME NEW x \in (UNION lists) \ {item} PROVE x \in UNION dropped
  <2>1. PICK old \in lists : x \in old
        OBVIOUS
  <2>2. x \in old \ {item}
        BY <2>1
  <2> QED BY <1>2, <2>2
<1>5. lists = {} => dropped = {}
      BY <1>1
<1> HIDE DEF dropped
<1>6. UNION dropped = (UNION lists) \ {item}
      BY <1>3, <1>4
<1> QED BY <1>1, <1>5, <1>6 DEF dropped

LEMMA GroupIsGroup ==
    ASSUME NEW tool \in CATALOGUE PROVE M!GroupOf(tool) \in DOMAIN GROUPS
<1>1. \E g \in DOMAIN GROUPS : tool \in GROUPS[g]
      BY GroupsAssumption
<1> QED BY <1>1 DEF M!GroupOf, M!AllTools, M!GroupNames

\* A refusal names the list that is in force, and what is changed in it is
\* what hides the tool.
LEMMA FollowsAllowed ==
    ASSUME NEW names, DOMAIN GROUPS \subseteq names, NEW at \in Setting(names),
           NEW tool \in CATALOGUE, M!Hidden(M!SelectionAt(at), tool),
           M!NotListed(M!SelectionAt(at), tool)
    PROVE  /\ M!Follow(at, tool) \in Setting(names)
           /\ Wider(at, M!Follow(at, tool))
           /\ Left(M!Follow(at, tool), tool) < Left(at, tool)
<1> DEFINE sel == M!SelectionAt(at)
           group == M!GroupOf(tool)
           next == M!Follow(at, tool)
<1>1. group \in DOMAIN GROUPS /\ group \in names
      BY GroupIsGroup
<1>2. next = M!Changed(at, [from |-> sel.allowFrom, key |-> "tools", item |-> group])
      BY DEF M!Follow, M!Refusal
<1>3. next \in Setting(names) /\ next.env.disable = at.env.disable
      /\ next.lists.disable = at.lists.disable
      /\ \/ /\ at.env.tools # {} /\ next.env.tools = M!Added(at.env.tools, group)
            /\ next.lists.tools = at.lists.tools
         \/ /\ at.env.tools = {} /\ next.env.tools = {}
            /\ next.lists.tools = M!Added(at.lists.tools, group)
  <2>1. ASSUME NEW lists \in SUBSET SUBSET names
        PROVE  M!Added(lists, group) \in SUBSET SUBSET names
        BY <1>1 DEF M!Added
  <2>2. CASE at.env.tools # {}
    <3>1. sel.allowFrom = "env"
          BY <2>2 DEF M!SelectionAt, M!Select
    <3>2. next = [at EXCEPT !.env.tools = M!Added(@, group)]
          BY <1>2, <3>1 DEF M!Changed
    <3> HIDE DEF next
    <3> QED BY <2>1, <2>2, <3>2 DEF Setting
  <2>3. CASE at.env.tools = {}
    <3>1. sel.allowFrom = "file"
          BY <2>3 DEF M!SelectionAt, M!Select
    <3>2. next = [at EXCEPT !.lists.tools = M!Added(@, group)]
          BY <1>2, <3>1 DEF M!Changed
    <3> HIDE DEF next
    <3> QED BY <2>1, <2>3, <3>2 DEF Setting
  <2> QED BY <2>2, <2>3
<1> HIDE DEF next
<1>4. Wider(at, next)
  <2>1. /\ \A list \in next.env.tools : \E old \in at.env.tools : old \subseteq list
        /\ \A list \in next.lists.tools : \E old \in at.lists.tools : old \subseteq list
        /\ at.env.tools = {} <=> next.env.tools = {}
        BY <1>3, AddedHas
  <2>2. ASSUME M!EnvValid(at.env) PROVE M!EnvValid(next.env)
    <3>1. ASSUME NEW list \in next.env.tools PROVE M!Checked(list, TRUE)
      <4>1. PICK old \in at.env.tools : list = old \cup {group}
            BY <1>3, AddedHas
      <4>2. M!Checked(old, TRUE)
            BY <2>2 DEF M!EnvValid
      <4> QED BY <1>1, <4>1, <4>2 DEF M!Checked, M!GroupNames
    <3>2. ASSUME NEW list \in next.env.disable PROVE M!Checked(list, FALSE)
          BY <1>3, <2>2 DEF M!EnvValid
    <3> QED BY <3>1, <3>2 DEF M!EnvValid
  <2> QED BY <1>3, <2>1, <2>2 DEF Wider
<1>5. ~M!NotListed(M!SelectionAt(next), tool)
  <2> DEFINE allow == M!SelectionAt(next).allow
  <2>1. allow = IF next.env.tools # {} THEN next.env.tools ELSE next.lists.tools
        BY DEF M!SelectionAt, M!Select
  <2>2. \A list \in allow : group \in list
        BY <1>3, <2>1, AddedHas
  <2> QED BY <2>2 DEF M!NotListed, M!Named
<1>6. Left(next, tool) < Left(at, tool)
      BY <1>3, <1>5 DEF Left, One
<1> QED BY <1>3, <1>4, <1>6 DEF next

LEMMA FollowsDenied ==
    ASSUME NEW names, NEW at \in Setting(names),
           NEW tool \in CATALOGUE, M!Hidden(M!SelectionAt(at), tool),
           ~M!NotListed(M!SelectionAt(at), tool)
    PROVE  /\ M!Follow(at, tool) \in Setting(names)
           /\ Wider(at, M!Follow(at, tool))
           /\ Left(M!Follow(at, tool), tool) < Left(at, tool)
<1> DEFINE sel == M!SelectionAt(at)
           group == M!GroupOf(tool)
           item == IF tool \in sel.deny THEN tool ELSE group
           next == M!Follow(at, tool)
<1>1. item \in {tool, group} /\ item \in sel.deny
      BY DEF M!Hidden, M!Denied, M!Named
<1>2. next = M!Changed(at, [from |-> sel.denyFrom, key |-> "disable", item |-> item])
      BY DEF M!Follow, M!Refusal
<1>3. sel.deny = UNION (IF at.env.disable # {} THEN at.env.disable ELSE at.lists.disable)
      /\ sel.denyFrom = IF at.env.disable # {} THEN "env" ELSE "file"
      BY DEF M!SelectionAt, M!Select
<1> HIDE DEF item, sel
<1>4. next \in Setting(names) /\ next.env.tools = at.env.tools
      /\ next.lists.tools = at.lists.tools
      /\ \/ /\ next.env.disable = M!Dropped(at.env.disable, item)
            /\ item \in UNION at.env.disable
            /\ next.lists.disable = at.lists.disable
         \/ /\ at.env.disable = {} /\ next.env.disable = {}
            /\ item \in UNION at.lists.disable
            /\ next.lists.disable = M!Dropped(at.lists.disable, item)
  <2>1. ASSUME NEW lists \in SUBSET SUBSET names
        PROVE  M!Dropped(lists, item) \in SUBSET SUBSET names
        BY DEF M!Dropped
  <2>2. CASE at.env.disable # {}
    <3>1. next = [at EXCEPT !.env.disable = M!Dropped(@, item)]
          BY <1>2, <1>3, <2>2 DEF M!Changed
    <3> HIDE DEF next
    <3> QED BY <1>1, <1>3, <2>1, <2>2, <3>1 DEF Setting
  <2>3. CASE at.env.disable = {}
    <3>1. next = [at EXCEPT !.lists.disable = M!Dropped(@, item)]
          BY <1>2, <1>3, <2>3 DEF M!Changed
    <3> HIDE DEF next
    <3> QED BY <1>1, <1>3, <2>1, <2>3, <3>1 DEF Setting
  <2> QED BY <2>2, <2>3
<1> HIDE DEF next
<1>5. Wider(at, next)
  <2>1. /\ UNION next.env.disable \subseteq UNION at.env.disable
        /\ UNION next.lists.disable \subseteq UNION at.lists.disable
        /\ at.env.disable = {} => next.env.disable = {}
        BY <1>4, DroppedLacks
  <2>2. ASSUME M!EnvValid(at.env) PROVE M!EnvValid(next.env)
    <3>1. ASSUME NEW list \in next.env.disable PROVE M!Checked(list, FALSE)
      <4>1. PICK old \in at.env.disable : list \subseteq old
            BY <1>4, DroppedLacks
      <4>2. M!Checked(old, FALSE)
            BY <2>2 DEF M!EnvValid
      <4> QED BY <4>1, <4>2 DEF M!Checked
    <3> QED BY <1>4, <2>2, <3>1 DEF M!EnvValid
  <2> QED BY <1>4, <2>1, <2>2 DEF Wider
<1>6. M!NotListed(M!SelectionAt(next), tool) <=> M!NotListed(M!SelectionAt(at), tool)
      BY <1>4 DEF M!NotListed, M!SelectionAt, M!Select
<1>7. \/ /\ UNION next.env.disable = (UNION at.env.disable) \ {item}
         /\ item \in UNION at.env.disable /\ next.lists.disable = at.lists.disable
      \/ /\ next.env.disable = at.env.disable /\ item \in UNION at.lists.disable
         /\ UNION next.lists.disable = (UNION at.lists.disable) \ {item}
  <2>1. /\ UNION M!Dropped(at.env.disable, item) = (UNION at.env.disable) \ {item}
        /\ UNION M!Dropped(at.lists.disable, item) = (UNION at.lists.disable) \ {item}
        BY DroppedLacks
  <2> QED BY <1>4, <2>1
<1>8. Left(next, tool) < Left(at, tool)
  <2> DEFINE listed(x) == One(M!NotListed(M!SelectionAt(x), tool))
             byEnv(x) == One(tool \in UNION x.env.disable) + One(group \in UNION x.env.disable)
             byFile(x) == One(tool \in UNION x.lists.disable) + One(group \in UNION x.lists.disable)
  <2>1. \A x : Left(x, tool) = listed(x) + byEnv(x) + byFile(x)
        BY DEF Left, One
  <2>2. listed(next) = listed(at) /\ listed(at) \in {0, 1}
        BY <1>6 DEF One
  <2>3. byEnv(next) \in Nat /\ byEnv(at) \in Nat /\ byFile(next) \in Nat /\ byFile(at) \in Nat
        BY DEF One
  <2>4. \/ byEnv(next) < byEnv(at) /\ byFile(next) = byFile(at)
        \/ byEnv(next) = byEnv(at) /\ byFile(next) < byFile(at)
    <3> DEFINE fewer(x, y) == One(tool \in y) + One(group \in y) < One(tool \in x) + One(group \in x)
    <3>1. ASSUME NEW x, item \in x PROVE fewer(x, x \ {item})
      <4>1. CASE item = tool BY <3>1, <4>1 DEF One
      <4>2. CASE item = group BY <3>1, <4>2 DEF One
      <4> QED BY <1>1, <4>1, <4>2
    <3>2. CASE /\ UNION next.env.disable = (UNION at.env.disable) \ {item}
               /\ item \in UNION at.env.disable /\ next.lists.disable = at.lists.disable
          BY <3>1, <3>2
    <3>3. CASE /\ next.env.disable = at.env.disable /\ item \in UNION at.lists.disable
               /\ UNION next.lists.disable = (UNION at.lists.disable) \ {item}
          BY <3>1, <3>3
    <3> QED BY <1>7, <3>2, <3>3
  <2> HIDE DEF listed, byEnv, byFile
  <2> QED BY <2>1, <2>2, <2>3, <2>4
<1> QED BY <1>4, <1>5, <1>8 DEF next

LEMMA FollowOnce ==
    ASSUME NEW names, DOMAIN GROUPS \subseteq names, NEW at \in Setting(names),
           NEW tool \in CATALOGUE
    PROVE  /\ M!Follow(at, tool) \in Setting(names)
           /\ Wider(at, M!Follow(at, tool))
           /\ IF M!Hidden(M!SelectionAt(at), tool)
              THEN Left(M!Follow(at, tool), tool) < Left(at, tool)
              ELSE M!Follow(at, tool) = at
<1>1. CASE ~M!Hidden(M!SelectionAt(at), tool)
  <2>1. M!Follow(at, tool) = at
        BY <1>1 DEF M!Follow
  <2> QED BY <1>1, <2>1, WiderItself
<1> QED BY <1>1, FollowsAllowed, FollowsDenied

LEMMA LeftIs ==
    ASSUME NEW at, NEW tool
    PROVE  Left(at, tool) \in 0 .. 5 /\ (Left(at, tool) = 0 => ~M!Hidden(M!SelectionAt(at), tool))
<1>1. Left(at, tool) \in 0 .. 5
      BY DEF Left, One
<1>2. ASSUME Left(at, tool) = 0 PROVE ~M!Hidden(M!SelectionAt(at), tool)
  <2>1. /\ ~M!NotListed(M!SelectionAt(at), tool)
        /\ \A n \in M!Named(tool) : n \notin UNION at.env.disable /\ n \notin UNION at.lists.disable
        BY <1>2 DEF Left, One, M!Named
  <2>2. M!SelectionAt(at).deny
            = UNION (IF at.env.disable # {} THEN at.env.disable ELSE at.lists.disable)
        BY DEF M!SelectionAt, M!Select
  <2> QED BY <2>1, <2>2 DEF M!Hidden, M!Denied
<1> QED BY <1>1, <1>2

\* Who does what the refusals say shows no tool less, but for those of the
\* agent's list when the operator's became blank.
LEMMA WiderShows ==
    ASSUME NEW at, NEW end, Wider(at, end),
           NEW other \in M!Visible(M!SelectionAt(at)), other \notin M!Visible(M!SelectionAt(end))
    PROVE  at.env.disable # {} /\ end.env.disable = {}
<1> DEFINE before == M!SelectionAt(at)
           after == M!SelectionAt(end)
<1>1. /\ before.allow = IF at.env.tools # {} THEN at.env.tools ELSE at.lists.tools
      /\ after.allow = IF end.env.tools # {} THEN end.env.tools ELSE end.lists.tools
      /\ before.deny = UNION (IF at.env.disable # {} THEN at.env.disable ELSE at.lists.disable)
      /\ after.deny = UNION (IF end.env.disable # {} THEN end.env.disable ELSE end.lists.disable)
      BY DEF M!SelectionAt, M!Select
<1>2. other \in CATALOGUE /\ ~M!Hidden(before, other) /\ M!Hidden(after, other)
      BY DEF M!Visible
<1> HIDE DEF before, after
<1>3. M!NotListed(after, other) => M!NotListed(before, other)
  <2> SUFFICES ASSUME NEW list \in after.allow, "all" \notin list, M!Named(other) \cap list = {}
               PROVE  M!NotListed(before, other)
      BY DEF M!NotListed
  <2>1. PICK old \in before.allow : old \subseteq list
        BY <1>1 DEF Wider
  <2> QED BY <2>1 DEF M!NotListed
<1>4. M!Denied(after, other) /\ ~M!Denied(before, other)
      BY <1>2, <1>3 DEF M!Hidden
<1>5. ~(after.deny \subseteq before.deny)
      BY <1>4 DEF M!Denied
<1> QED BY <1>1, <1>5 DEF Wider

\* Who does what the refusals of a hidden tool say has it after five of them
\* at most, with settings that the server starts with, and no other tool less,
\* unless STELE_DISABLE became blank and the agent's list counts
\* (Selection::refusal, env_lists).
THEOREM RefusalsLeadOut ==
    ASSUME NEW names, DOMAIN GROUPS \subseteq names, NEW at \in Setting(names),
           NEW tool \in CATALOGUE
    PROVE  LET end == M!Followed(at, tool)
           IN  /\ tool \in M!Visible(M!SelectionAt(end))
               /\ M!EnvValid(at.env) => M!EnvValid(end.env)
               /\ \A other \in M!Visible(M!SelectionAt(at)) \ M!Visible(M!SelectionAt(end)) :
                      at.env.disable # {} /\ end.env.disable = {}
<1> DEFINE once(x) == M!Follow(x, tool)
           left(x) == Left(x, tool)
           open(x) == ~M!Hidden(M!SelectionAt(x), tool)
<1>1. \A x \in Setting(names) : /\ once(x) \in Setting(names) /\ Wider(x, once(x))
                                /\ IF open(x) THEN once(x) = x ELSE left(once(x)) < left(x)
  <2> TAKE x \in Setting(names)
  <2>1. /\ M!Follow(x, tool) \in Setting(names)
        /\ Wider(x, M!Follow(x, tool))
        /\ IF M!Hidden(M!SelectionAt(x), tool)
           THEN Left(M!Follow(x, tool), tool) < Left(x, tool)
           ELSE M!Follow(x, tool) = x
        BY FollowOnce
  <2> QED BY <2>1
<1>2. \A x : left(x) \in 0 .. 5 /\ (left(x) = 0 => open(x))
      BY LeftIs
<1> DEFINE a == once(at)
           b == once(a)
           c == once(b)
           d == once(c)
           e == once(d)
<1>3. M!Followed(at, tool) = e
      BY DEF M!Followed
<1> HIDE DEF once, left, open, a, b, c, d, e
\* One step, after k of them.
<1>4. ASSUME NEW x \in Setting(names), Wider(at, x), NEW k \in 0 .. 4, left(x) <= k + 1 \/ open(x)
      PROVE  /\ once(x) \in Setting(names) /\ Wider(at, once(x))
             /\ left(once(x)) <= k \/ open(once(x))
  <2>1. once(x) \in Setting(names) /\ Wider(x, once(x))
        BY <1>1
  <2>2. IF open(x) THEN once(x) = x ELSE left(once(x)) < left(x)
        BY <1>1
  <2>3. left(once(x)) \in 0 .. 5 /\ left(x) \in 0 .. 5 /\ (left(once(x)) = 0 => open(once(x)))
        BY <1>2
  <2>4. left(once(x)) <= k \/ open(once(x))
    <3>1. CASE open(x) BY <2>2, <3>1
    <3>2. CASE ~open(x)
      <4>1. left(once(x)) < left(x) /\ left(x) <= k + 1
            BY <1>4, <2>2, <3>2
      <4> QED BY <2>3, <4>1
    <3> QED BY <3>1, <3>2
  <2>5. Wider(at, once(x))
        BY <1>4, <2>1, WiderTwice
  <2> QED BY <2>1, <2>4, <2>5
<1>5. a \in Setting(names) /\ Wider(at, a) /\ (left(a) <= 4 \/ open(a))
  <2>1. left(at) <= 4 + 1 BY <1>2
  <2> QED BY <1>4, <2>1, WiderItself DEF a
<1>6. b \in Setting(names) /\ Wider(at, b) /\ (left(b) <= 3 \/ open(b))
      BY <1>4, <1>5 DEF b
<1>7. c \in Setting(names) /\ Wider(at, c) /\ (left(c) <= 2 \/ open(c))
      BY <1>4, <1>6 DEF c
<1>8. d \in Setting(names) /\ Wider(at, d) /\ (left(d) <= 1 \/ open(d))
      BY <1>4, <1>7 DEF d
<1>9. Wider(at, e) /\ open(e)
  <2>1. Wider(at, e) /\ (left(e) <= 0 \/ open(e))
        BY <1>4, <1>8 DEF e
  <2> QED BY <1>2, <2>1
<1>10. tool \in M!Visible(M!SelectionAt(e))
      BY <1>9 DEF M!Visible, open
<1>11. M!EnvValid(at.env) => M!EnvValid(e.env)
      BY <1>9 DEF Wider
<1>12. \A other \in M!Visible(M!SelectionAt(at)) \ M!Visible(M!SelectionAt(e)) :
           at.env.disable # {} /\ e.env.disable = {}
      BY <1>9, WiderShows
<1> QED BY <1>3, <1>10, <1>11, <1>12
===============================================================================
