------------------------------ MODULE CallTasks ------------------------------
(***************************************************************************)
(* A client calls a tool, and while it is refused does what the refusal    *)
(* says; a misspelt name is held against a list; and an operator who calls *)
(* a hidden tool changes the setting that the refusal names.               *)
(***************************************************************************)
EXTENDS Tasks

CONSTANTS LITE, STANDARD_EXTRA, REMOVED, SIGS, WRITE_TOOLS, AgentId, Alias, MAX_STRING_SIZE,
          ToolUses,      \* [mode, tool, keys, inject]
          Misspelt,      \* [name, candidates]
          GROUPS, CATALOGUE, Settings   \* [env, text]: the variables and AGENTS.md

T == INSTANCE ToolCalls
U == INSTANCE ToolSurface

CallInputs ==
    \/ Chosen("call") /\ input \in ToolUses
    \/ Chosen("suggest") /\ input \in Misspelt
    \/ Chosen("hidden") /\ input \in {[at |-> setting, tool |-> tool] : setting \in Settings, tool \in CATALOGUE}

\* The call after a refusal: {} when there is nothing to go by.
Renamed(keys, key, names) ==
    FlattenSeq([k \in DOMAIN keys |-> IF keys[k] = key THEN SetToSeq(names) ELSE <<keys[k]>>])
Advised(call, refusal) ==
    CASE refusal.outcome = "other mode" -> {[call EXCEPT !.mode = mode] : mode \in {"standard", "full"}}
      [] refusal.outcome = "replaced" -> {[call EXCEPT !.mode = "full"], [call EXCEPT !.tool = refusal.by]}
      [] refusal.outcome = "unknown tool" -> {[call EXCEPT !.tool = near] : near \in refusal.near}
      [] refusal.outcome = "unknown argument" -> {[call EXCEPT !.keys = Renamed(@, refusal.key, refusal.near)]}
      [] refusal.outcome = "missing" -> {[call EXCEPT !.keys = @ \o refusal.names]}
      [] OTHER -> {}

Answer(call) == T!ToolsCall(call.mode, call.tool, call.keys, call.inject)

\* A client keeps to one way out of a refusal, whichever there is.
RECURSIVE Outcomes(_, _)
Outcomes(call, patience) ==
    LET then(said, next) ==
            IF next = {} \/ patience = 0 THEN {said.outcome} ELSE UNION {Outcomes(c, patience - 1) : c \in next}
        after(said) == then(said, Advised(call, said))
    IN  after(Answer(call))

Call ==
    /\ Runs("call")
    /\ answer' = [said |-> Answer(input), ends |-> Outcomes(input, Len(input.keys) + 3)]

Suggest == Runs("suggest") /\ answer' = T!Suggestion(input.candidates, input.name)

Unhide ==
    LET read == [env |-> input.at.env, lists |-> U!FileLists(U!AgentToolsLines(input.at.text))]
        end == U!Followed(read, input.tool)
    IN  /\ Runs("hidden")
        /\ answer' = [before |-> U!Visible(U!SelectionAt(read)), after |-> U!Visible(U!SelectionAt(end)),
                      valid |-> U!EnvValid(end.env), read |-> read, end |-> end]

-----------------------------------------------------------------------------
\* The distance of two names, from its recurrence.
Apart(a, b) ==
    LET d[i \in 0..Len(a), j \in 0..Len(b)] ==
            IF i = 0 \/ j = 0 THEN 2 * (i + j)
            ELSE LET change == IF a[i] = b[j] THEN 0 ELSE IF Folded(a[i]) = Folded(b[j]) THEN 1 ELSE 2
                 IN  Min({d[i - 1, j] + 2, d[i, j - 1] + 2, d[i - 1, j - 1] + change})
    IN  d[Len(a), Len(b)]

\* The name that is proposed is the first of the nearest, if it is within a
\* third of the characters, whatever the search for it leaves out (suggestion,
\* levenshtein).
NearestIsProposed ==
    Answered("suggest") =>
        LET list == input.candidates
            near == {k \in DOMAIN list : /\ list[k] # input.name
                                         /\ Apart(input.name, list[k]) <= ((Len(input.name) + Len(list[k]) + 3) * 2) \div 6}
            nearest == {k \in near : \A n \in near : Apart(input.name, list[k]) <= Apart(input.name, list[n])}
        IN  answer = (IF nearest = {} THEN {} ELSE {list[Min(nearest)]})

\* A call is accepted just when a Python function with those parameters could
\* be called with those names, the extra name of one tool and the agent the
\* server fills in counted; and a client that does what the refusals say gets
\* there in a call for each name it got wrong and three more, or is told that
\* no tool has a name like that (tools_call, bind, unknown_tool).
RefusalsLead ==
    Answered("call") =>
        LET row == SIGS[input.tool]
            given == ToSet(input.keys)
            own == {row.params[k].name : k \in DOMAIN row.params}
            filled == given \cup (IF input.tool = Alias.tool /\ Alias.extra \in given THEN {Alias.stands} ELSE {})
                            \cup (IF input.inject /\ input.tool \in WRITE_TOOLS THEN {AgentId} ELSE {})
            callable == /\ ~row.var_kw => given \subseteq own \cup (IF input.tool = Alias.tool THEN {Alias.extra} ELSE {})
                        /\ \A k \in DOMAIN row.params : row.params[k].required => row.params[k].name \in filled
        IN  /\ T!ToolKnown(input.mode, input.tool) =>
                   (answer.said.outcome = "accepted" <=> (input.tool \in DOMAIN SIGS => callable))
            /\ answer.ends \subseteq (IF T!ToolKnown("full", input.tool) THEN {"accepted"} ELSE {"accepted", "unknown tool"})

\* An operator who calls a hidden tool and does what the refusals say has the
\* tool after five of them at most, is never sent to a setting that another
\* one overrides, and hides no other tool by it, unless STELE_DISABLE became
\* blank and the agent's list counts (Selection::refusal, agent_tools_lines).
RefusalsUnhide ==
    Answered("hidden") =>
        /\ input.tool \in answer.after
        /\ answer.valid
        /\ ~answer.before \subseteq answer.after =>
               answer.read.env.disable # {} /\ answer.end.env.disable = {}
        /\ input.tool \in answer.before => answer.end = answer.read
=============================================================================
