------------------------------ MODULE ToolCalls ------------------------------
(***************************************************************************)
(* What becomes of the name and the arguments of a tool call before the    *)
(* tool runs, and the advice in a refusal.  A name is a sequence of        *)
(* characters.  What the groups hide is in ToolSurface.                    *)
(***************************************************************************)
EXTENDS Integers, Sequences, SequencesExt, FiniteSetsExt

CONSTANTS LITE, STANDARD_EXTRA,
          REMOVED,            \* sequence of [old, new]
          SIGS,               \* tool |-> [var_kw, params: sequence of [name, required]]
          WRITE_TOOLS, AgentId,
          Alias,              \* [tool, extra, stands]: the extra name one tool takes
          Folded(_), MAX_STRING_SIZE

MOVE_COST == 2
CASE_COST == 1

-----------------------------------------------------------------------------
\* The nearest name.

SubstitutionCost(a, b) ==
    IF a = b THEN 0 ELSE IF Folded(a) = Folded(b) THEN CASE_COST ELSE MOVE_COST

\* What is left of two names without what they begin and end with.
Trimmed(a, b) ==
    LET same(s, t) == Max({n \in 0..Min({Len(s), Len(t)}) : SubSeq(s, 1, n) = SubSeq(t, 1, n)})
        after(s, n) == SubSeq(s, n + 1, Len(s))
        before(s, t, n) == <<SubSeq(s, 1, Len(s) - n), SubSeq(t, 1, Len(t) - n)>>
        rests(s, t) == before(s, t, same(Reverse(s), Reverse(t)))
        from(n) == rests(after(a, n), after(b, n))
    IN  from(same(a, b))

\* The next row of the distances, for one more character of the longer name;
\* a row of which every distance is beyond maxCost ends the search.
NextRow(short, code, buffer, k) ==
    LET cell(row, n) ==
            LET left == IF n = 1 THEN (k - 1) * MOVE_COST ELSE row[n - 1]
                corner == IF n = 1 THEN (k - 1) * MOVE_COST ELSE buffer[n - 1]
            IN  Append(row, Min({Min({left, buffer[n]}) + MOVE_COST, corner + SubstitutionCost(code, short[n])}))
    IN  FoldLeft(cell, <<>>, [n \in DOMAIN short |-> n])

Levenshtein(a, b, maxCost) ==
    LET beyond == maxCost + 1
        within(row) == IF row = <<>> \/ Min(ToSet(row)) > maxCost THEN <<>> ELSE row
        cost(row) == IF row = <<>> THEN beyond ELSE Last(row)
        rows(short, long) ==
            FoldLeft(LAMBDA buffer, k :
                         within(IF buffer = <<>> THEN <<>> ELSE NextRow(short, long[k], buffer, k)),
                     [n \in DOMAIN short |-> n * MOVE_COST], [k \in DOMAIN long |-> k])
        between(short, long) ==
            CASE short = <<>> -> Len(long) * MOVE_COST
              [] short # <<>> /\ Len(long) > MAX_STRING_SIZE -> beyond
              [] short # <<>> /\ Len(long) <= MAX_STRING_SIZE ->
                     IF (Len(long) - Len(short)) * MOVE_COST > maxCost THEN beyond ELSE cost(rows(short, long))
        sorted(rest) == IF Len(rest[2]) < Len(rest[1]) THEN between(rest[2], rest[1]) ELSE between(rest[1], rest[2])
    IN  sorted(Trimmed(a, b))

\* The first of the nearest candidates within a third of the characters: {}
\* or {name}.
Suggestion(candidates, name) ==
    LET better(best, item) ==
            LET third == ((Len(name) + Len(item) + 3) * MOVE_COST) \div 6
                maxCost == IF best.names = {} THEN third ELSE Min({third, best.distance - 1})
                distance == Levenshtein(name, item, maxCost)
            IN  IF item = name \/ distance > maxCost THEN best ELSE [names |-> {item}, distance |-> distance]
    IN  FoldLeft(better, [names |-> {}, distance |-> 0], candidates).names

-----------------------------------------------------------------------------
\* Tools.

OldNames == [k \in DOMAIN REMOVED |-> REMOVED[k].old]

ToolKnown(mode, name) ==
    \/ name \in ToSet(LITE)
    \/ mode \in {"standard", "full"} /\ name \in ToSet(STANDARD_EXTRA)
    \/ mode = "full" /\ name \in ToSet(OldNames)

\* The advice looks into the mode's list only, hidden tools among them.
UnknownTool(mode, name) ==
    LET current == LITE \o (IF mode = "lite" THEN <<>> ELSE STANDARD_EXTRA)
                        \o (IF mode = "full" THEN OldNames ELSE <<>>)
        replaced == {row \in ToSet(REMOVED) : row.old = name}
    IN  CASE name \in ToSet(STANDARD_EXTRA) -> [outcome |-> "other mode"]
          [] name \notin ToSet(STANDARD_EXTRA) /\ replaced # {} ->
                 [outcome |-> "replaced", by |-> (CHOOSE row \in replaced : TRUE).new]
          [] OTHER -> [outcome |-> "unknown tool", near |-> Suggestion(current, name)]

-----------------------------------------------------------------------------
\* Arguments.

Names(row) == [k \in DOMAIN row.params |-> row.params[k].name]

InjectsAgent(tool) ==
    tool \in WRITE_TOOLS /\ tool \in DOMAIN SIGS /\ AgentId \in ToSet(Names(SIGS[tool]))

\* A plausible slip: the extra name is let in, but stands for nothing.
StandsFor_Itself(key) == key

StandsFor(key) == IF key = Alias.extra THEN Alias.stands ELSE key

Accepted == [outcome |-> "accepted"]

\* The first unknown argument is refused, then all missing ones together.
Bind(tool, keys, inject) ==
    LET row == SIGS[tool]
        aliased(key) == tool = Alias.tool /\ key = Alias.extra
        known(key) == aliased(key) \/ row.var_kw \/ key \in ToSet(Names(row))
        unknown == SelectSeq(keys, LAMBDA key : ~known(key))
        bound == {IF aliased(key) THEN StandsFor(key) ELSE key : key \in ToSet(keys)}
                     \cup (IF inject /\ InjectsAgent(tool) THEN {AgentId} ELSE {})
        missing == SelectSeq(row.params, LAMBDA param : param.required /\ param.name \notin bound)
    IN  IF tool \notin DOMAIN SIGS THEN Accepted
        ELSE IF unknown # <<>>
        THEN [outcome |-> "unknown argument", key |-> Head(unknown), near |-> Suggestion(Names(row), Head(unknown))]
        ELSE IF missing # <<>> THEN [outcome |-> "missing", names |-> [k \in DOMAIN missing |-> missing[k].name]]
        ELSE Accepted

ToolsCall(mode, name, keys, inject) ==
    IF ToolKnown(mode, name) THEN Bind(name, keys, inject) ELSE UnknownTool(mode, name)
=============================================================================
