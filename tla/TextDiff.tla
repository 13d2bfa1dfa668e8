------------------------------ MODULE TextDiff ------------------------------
(***************************************************************************)
(* get_context: the chunks of files that are as they were indexed, and for *)
(* the others the difference between what was cached and what is on disk   *)
(* (the port of difflib in src/src/engine/query.rs).  A text is a sequence *)
(* of characters, a line one without newlines; positions count from 0, and *)
(* a range is from its first position to before its last.                  *)
(***************************************************************************)
EXTENDS Integers, Sequences, SequencesExt, FiniteSetsExt, Folds

CONSTANT CONTEXT                 \* lines shown around a change

LinesOf(text) ==
    FoldLeft(LAMBDA acc, c : IF c = "\n" THEN Append(acc, <<>>) ELSE [acc EXCEPT ![Len(acc)] = Append(@, c)],
             << <<>> >>, text)

\* A last line without text is none.
TrimSplit(lines) == IF Last(lines) = <<>> THEN Front(lines) ELSE lines

Block(i, j, size) == [a |-> i, b |-> j, size |-> size]

\* The longest of runs <<a, b, size>>, of those the one that begins first in a,
\* then first in b.
Better(run, other) ==
    \/ run[3] > other[3]
    \/ run[3] = other[3] /\ (run[1] < other[1] \/ (run[1] = other[1] /\ run[2] <= other[2]))
Best(runs, none) ==
    LET block(run) == Block(run[1], run[2], run[3])
    IN  IF runs = {} THEN none ELSE block(CHOOSE run \in runs : \A other \in runs : Better(run, other))

\* A plausible slip: lines before the blocks of the left are matched again.
LongestMatch_NoFloor(a, b, alo, ahi, blo, bhi) ==
    LET runs == {run \in (alo..ahi - 1) \X (0..bhi - 1) \X (1..ahi - alo) :
                    /\ run[1] + run[3] <= ahi /\ run[2] + run[3] <= bhi
                    /\ \A n \in 1..run[3] : a[run[1] + n] = b[run[2] + n]}
    IN  Best(runs, Block(alo, blo, 0))

\* The longest run of equal lines.
LongestMatch(a, b, alo, ahi, blo, bhi) ==
    LET runs == {run \in (alo..ahi - 1) \X (blo..bhi - 1) \X (1..ahi - alo) :
                    /\ run[1] + run[3] <= ahi /\ run[2] + run[3] <= bhi
                    /\ \A n \in 1..run[3] : a[run[1] + n] = b[run[2] + n]}
    IN  Best(runs, Block(alo, blo, 0))

\* The longest run, then those before it and after it; runs that touch are
\* one, and an empty one ends the list.
MatchingBlocks(a, b) ==
    LET in[alo, ahi \in 0..Len(a), blo, bhi \in 0..Len(b)] ==
            LET m == LongestMatch(a, b, alo, ahi, blo, bhi)
            IN  IF m.size = 0 THEN <<>>
                ELSE (IF alo < m.a /\ blo < m.b THEN in[alo, m.a, blo, m.b] ELSE <<>>)
                     \o <<m>>
                     \o (IF m.a + m.size < ahi /\ m.b + m.size < bhi
                         THEN in[m.a + m.size, ahi, m.b + m.size, bhi] ELSE <<>>)
        Touches(x, y) == x.a + x.size = y.a /\ x.b + x.size = y.b
    IN  Append(FoldLeft(LAMBDA acc, m : IF acc # <<>> /\ Touches(Last(acc), m)
                                        THEN Append(Front(acc), [Last(acc) EXCEPT !.size = @ + m.size])
                                        ELSE Append(acc, m),
                        <<>>, in[0, Len(a), 0, Len(b)]),
               Block(Len(a), Len(b), 0))

Code(tag, i1, i2, j1, j2) == [tag |-> tag, i1 |-> i1, i2 |-> i2, j1 |-> j1, j2 |-> j2]

\* What lies between the blocks is replaced, deleted or inserted.
Opcodes(a, b) ==
    LET Add(acc, m) ==
            LET gap == CASE acc.i < m.a /\ acc.j < m.b  -> <<"replace">>
                         [] acc.i < m.a /\ acc.j >= m.b -> <<"delete">>
                         [] acc.i >= m.a /\ acc.j < m.b -> <<"insert">>
                         [] OTHER                       -> <<>>
                codes == [n \in DOMAIN gap |-> Code(gap[n], acc.i, m.a, acc.j, m.b)]
                equal == IF m.size = 0 THEN <<>> ELSE <<Code("equal", m.a, m.a + m.size, m.b, m.b + m.size)>>
            IN  [codes |-> acc.codes \o codes \o equal, i |-> m.a + m.size, j |-> m.b + m.size]
    IN  FoldLeft(Add, [codes |-> <<>>, i |-> 0, j |-> 0], MatchingBlocks(a, b)).codes

\* The changes with CONTEXT lines around them, in groups apart where more than
\* twice as many lines are equal.
Groups(codes) ==
    LET Cut(n) == LET c == codes[n]
                      from == IF n = 1 /\ c.tag = "equal" THEN Max({c.i1, c.i2 - CONTEXT}) ELSE c.i1
                      to == IF n = Len(codes) /\ c.tag = "equal" THEN Min({c.i2, from + CONTEXT}) ELSE c.i2
                  IN  Code(c.tag, from, to,
                           IF c.tag = "equal" THEN c.j1 + (from - c.i1) ELSE c.j1,
                           IF c.tag = "equal" THEN c.j2 - (c.i2 - to) ELSE c.j2)
        Add(acc, c) ==
            IF c.tag = "equal" /\ c.i2 - c.i1 > 2 * CONTEXT
            THEN [groups |-> Append(acc.groups,
                                    Append(acc.group, Code(c.tag, c.i1, c.i1 + CONTEXT, c.j1, c.j1 + CONTEXT))),
                  group |-> <<Code(c.tag, c.i2 - CONTEXT, c.i2, c.j2 - CONTEXT, c.j2)>>]
            ELSE [acc EXCEPT !.group = Append(@, c)]
        all(done) == Append(done.groups, done.group)
    IN  SelectSeq(all(FoldLeft(Add, [groups |-> <<>>, group |-> <<>>], [n \in DOMAIN codes |-> Cut(n)])),
                  LAMBDA group : \E n \in DOMAIN group : group[n].tag # "equal")

GroupedOpcodes(a, b) == Groups(Opcodes(a, b))

\* A hunk of the unified diff: where it begins and how long it is in either
\* text, and its lines, each kept, taken out or put in.
Hunk(a, b, group) ==
    LET Mark(sign, lines) == [n \in DOMAIN lines |-> [sign |-> sign, line |-> lines[n]]]
        Shown(c) ==
            (CASE c.tag = "equal" -> Mark(" ", SubSeq(a, c.i1 + 1, c.i2))
               [] c.tag \in {"delete", "replace"} -> Mark("-", SubSeq(a, c.i1 + 1, c.i2))
               [] OTHER -> <<>>)
            \o (IF c.tag \in {"insert", "replace"} THEN Mark("+", SubSeq(b, c.j1 + 1, c.j2)) ELSE <<>>)
    IN  [from |-> group[1].i1, size |-> Last(group).i2 - group[1].i1,
         into |-> group[1].j1, newSize |-> Last(group).j2 - group[1].j1,
         rows |-> FlattenSeq([n \in DOMAIN group |-> Shown(group[n])])]

Unified(cached, disk) ==
    LET hunks(a, b, groups) == [n \in DOMAIN groups |-> Hunk(a, b, groups[n])]
        between(a, b) == IF a = b THEN <<>> ELSE hunks(a, b, GroupedOpcodes(a, b))
    IN  between(TrimSplit(LinesOf(cached)), TrimSplit(LinesOf(disk)))

-----------------------------------------------------------------------------
\* The cached text is put together again from the chunks, newlines standing in
\* for what was trimmed; chunks are sorted by their start.
Padded(chunks) ==
    LET Add(acc, chunk) ==
            LET start == acc.text \o [i \in 1..Max({chunk.start - acc.cursor, 0}) |-> "\n"]
                cursor == Max({acc.cursor, chunk.start}) + Len(chunk.content)
            IN  [text |-> start \o chunk.content \o [i \in 1..Max({chunk.end - cursor, 0}) |-> "\n"],
                 cursor |-> Max({cursor, chunk.end})]
    IN  FoldLeft(Add, [text |-> <<>>, cursor |-> 0], chunks).text

\* The difference is exact when a guess at the cached text is the text that was
\* indexed, whose hash is stored.
CacheDiff(chunks, stored, disk) ==
    LET padded == Padded(chunks)
        guesses == <<padded, Append(padded, "\n"), FlattenSeq([n \in DOMAIN chunks |-> chunks[n].content])>>
        right == {n \in DOMAIN guesses : guesses[n] = stored}
        rows(diff, sign) == SelectSeq(FlattenSeq([n \in DOMAIN diff |-> diff[n].rows]), LAMBDA row : row.sign = sign)
        report(cached, diff) ==
            [exact |-> right # {}, cached |-> cached, diff |-> diff,
             added |-> Len(rows(diff, "+")), removed |-> Len(rows(diff, "-"))]
        from(cached) == report(cached, Unified(cached, disk))
    IN  from(guesses[IF right = {} THEN 1 ELSE Min(right)])

\* get_context of one path.  stat: whether the file has the size and time that
\* are stored with its document.
Context(isFile, known, stat, readable, chunks, stored, disk) ==
    CASE ~isFile                                  -> [in |-> "nothing"]
      [] isFile /\ ~known                         -> [in |-> "new"]
      [] isFile /\ known /\ stat                  -> [in |-> "unchanged", chunks |-> chunks]
      [] isFile /\ known /\ ~stat /\ readable     -> [in |-> "changed", diff |-> CacheDiff(chunks, stored, disk)]
      [] OTHER                                    -> [in |-> "nothing"]
=============================================================================
