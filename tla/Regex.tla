------------------------------- MODULE Regex -------------------------------
(***************************************************************************)
(* The regular expressions of grep and of the symbol patterns: the parser  *)
(* and the backtracking matcher.  Patterns and texts are sequences of      *)
(* characters; a position of a text counts the characters before it.       *)
(***************************************************************************)
EXTENDS Integers, Sequences, SequencesExt, FiniteSetsExt

CONSTANTS Ordinal(_),        \* the code of a character
          WordChars, Spaces, \* \w and \s
          FUEL, BEHIND    \* steps of one attempt, and how far a lookbehind reaches

Digits == <<"0", "1", "2", "3", "4", "5", "6", "7", "8", "9">>
Metas == {")", "*", "+", "?", "|", "{", "}"}
Unbounded == 10000

-----------------------------------------------------------------------------
\* The parser: what is left, what was seen, and the node just read.

Parser(chars) == [chars |-> chars, at |-> 1, groups |-> 0, look |-> FALSE, backref |-> FALSE,
                  error |-> "", node |-> [kind |-> "empty"]]

None == "none"
Peek(p) == IF p.at \in DOMAIN p.chars THEN p.chars[p.at] ELSE None
Bump(p) == IF p.at \in DOMAIN p.chars THEN [p EXCEPT !.at = @ + 1] ELSE p
Fail(p, code) == [p EXCEPT !.error = code]
Read(p, node) == [p EXCEPT !.node = node]
Failed(p) == p.error # ""

Atom(kind) == [kind |-> kind]
Literal(char) == [kind |-> "lit", char |-> char]
Repeat(inner, least, most) == [kind |-> "repeat", inner |-> inner, min |-> least, max |-> most]

RECURSIVE AltNode(_, _)

\* The closing bracket, or what was wrong before it.
Closed(p) == IF Failed(p) THEN p
             ELSE IF Peek(p) = ")" THEN Bump(p) ELSE Fail(Bump(p), "regex_syntax")

LookNode(p, behind, negative) ==
    LET inner == Closed(AltNode([p EXCEPT !.look = TRUE], <<>>))
    IN  Read(inner, [kind |-> "look", behind |-> behind, negative |-> negative, inner |-> inner.node])

Extension(p) ==
    LET q == Bump(p)
    IN  CASE Peek(p) = ":" -> Closed(AltNode(q, <<>>))
          [] Peek(p) = "=" -> LookNode(q, FALSE, FALSE)
          [] Peek(p) = "!" -> LookNode(q, FALSE, TRUE)
          [] Peek(p) = "<" /\ Peek(q) \in {"=", "!"} -> LookNode(Bump(q), TRUE, Peek(q) = "!")
          [] Peek(p) \in {"<", None} /\ Peek(q) \notin {"=", "!"} -> Fail(q, "regex_syntax")
          [] OTHER -> Fail([q EXCEPT !.backref = TRUE], "regex_syntax")

GroupNode(p) ==
    LET open == [p EXCEPT !.groups = @ + 1]
        inner == Closed(AltNode(open, <<>>))
    IN  IF Peek(p) = "?" THEN Extension(Bump(p))
        ELSE Read(inner, [kind |-> "group", index |-> open.groups, inner |-> inner.node])

ClassPart(char) == CASE char = "w" -> Atom("word") [] char = "d" -> Atom("digit") [] char = "s" -> Atom("space")
                     [] char = "n" -> Literal("\n") [] char = "t" -> Literal("\t")
                     [] char = "r" -> Literal("\r") [] OTHER -> Literal(char)

RECURSIVE ClassParts(_, _)
ClassParts(p, parts) ==
    LET char == Peek(p)
        next == Bump(p)
        past == Bump(next)
        dash == Peek(next) = "-" /\ Peek(past) # "]"
    IN  CASE char \in {"]", None} -> Read(p, parts)
          [] char = "\\" -> IF Peek(next) = None THEN Fail(next, "regex_syntax")
                            ELSE ClassParts(past, Append(parts, ClassPart(Peek(next))))
          [] char \notin {"]", None, "\\"} /\ dash ->
                 IF Peek(past) = None THEN Fail(past, "regex_syntax")
                 ELSE ClassParts(Bump(past), Append(parts, [kind |-> "range", low |-> char, high |-> Peek(past)]))
          [] OTHER -> ClassParts(next, Append(parts, Literal(char)))

ClassNode(p) ==
    LET negated == Peek(p) = "^"
        body == ClassParts(IF negated THEN Bump(p) ELSE p, <<>>)
    IN  IF Failed(body) THEN body
        ELSE IF Peek(body) # "]" THEN Fail(body, "regex_syntax")
        ELSE Read(Bump(body), [kind |-> "class", negated |-> negated, parts |-> body.node])

Escape(p) ==
    LET char == Peek(p)
        kinds == [w |-> "word", W |-> "not word", s |-> "space", S |-> "not space", d |-> "digit",
                  D |-> "not digit", b |-> "bound", B |-> "not bound"]
    IN  CASE char \in DOMAIN kinds -> Read(Bump(p), Atom(kinds[char]))
          [] char \in ToSet(Digits) -> Fail([Bump(p) EXCEPT !.backref = TRUE], "regex_backreference")
          [] char = None -> Fail(p, "regex_syntax")
          [] OTHER -> Read(Bump(p), ClassPart(char))

AtomNode(p) ==
    LET char == Peek(p)
        q == Bump(p)
    IN  CASE char = "." -> Read(q, Atom("any"))
          [] char = "^" -> Read(q, Atom("start"))
          [] char = "$" -> Read(q, Atom("end"))
          [] char = "[" -> ClassNode(q)
          [] char = "(" -> GroupNode(q)
          [] char = "\\" -> Escape(q)
          [] char \in Metas \cup {None} -> Fail(q, "regex_syntax")
          [] OTHER -> Read(q, Literal(char))

Number(p) ==
    LET end == Min({i \in p.at..Len(p.chars) + 1 : i > Len(p.chars) \/ p.chars[i] \notin ToSet(Digits)})
        value(digit) == (CHOOSE k \in DOMAIN Digits : Digits[k] = digit) - 1
    IN  IF end = p.at THEN Fail(p, "regex_syntax")
        ELSE Read([p EXCEPT !.at = end],
                  FoldLeft(LAMBDA n, digit : 10 * n + value(digit), 0, SubSeq(p.chars, p.at, end - 1)))

\* {n}, {n,} and {n,m}.
Brace(p) ==
    LET least == Number(Bump(p))
        comma == Bump(least)
        most == CASE Failed(least) -> least
                  [] Peek(least) # "," -> least
                  [] Peek(comma) = "}" -> Read(comma, Unbounded)
                  [] OTHER -> Number(comma)
    IN  IF Failed(most) THEN most
        ELSE IF Peek(most) # "}" THEN Fail(Bump(most), "regex_syntax")
        ELSE Read(Bump(most), <<least.node, most.node>>)

\* An atom with its quantifier; a lazy one is read as if it were greedy.
Quantifier(atom) ==
    CASE Peek(atom) = "*" -> Read(Bump(atom), <<0, Unbounded>>)
      [] Peek(atom) = "+" -> Read(Bump(atom), <<1, Unbounded>>)
      [] Peek(atom) = "?" -> Read(Bump(atom), <<0, 1>>)
      [] Peek(atom) = "{" -> Brace(atom)

Piece(p) ==
    LET times(node, q) ==
            IF Failed(q) THEN q
            ELSE Read(IF Peek(q) = "?" THEN Bump(q) ELSE q, Repeat(node, q.node[1], q.node[2]))
        piece(atom) == IF Failed(atom) \/ Peek(atom) \notin {"*", "+", "?", "{"} THEN atom
                       ELSE times(atom.node, Quantifier(atom))
    IN  piece(AtomNode(p))

RECURSIVE ConcatNode(_, _)
ConcatNode(p, parts) ==
    LET before(piece) == IF Failed(piece) THEN piece ELSE ConcatNode(piece, Append(parts, piece.node))
    IN  IF Peek(p) \in {"|", ")", None}
        THEN Read(p, CASE Len(parts) = 0 -> Atom("empty") [] Len(parts) = 1 -> parts[1]
                       [] OTHER -> [kind |-> "concat", parts |-> parts])
        ELSE before(Piece(p))

AltNode(p, before) ==
    LET from(arm, arms) ==
            IF Failed(arm) THEN arm
            ELSE IF Peek(arm) = "|" THEN AltNode(Bump(arm), arms)
            ELSE Read(arm, IF Len(arms) = 1 THEN arm.node ELSE [kind |-> "alt", arms |-> arms])
        with(arm) == from(arm, Append(before, arm.node))
    IN  with(ConcatNode(p, <<>>))

Compile(pattern) ==
    LET whole(p) == IF ~Failed(p) /\ Peek(p) # None THEN Fail(p, "regex_syntax") ELSE p
    IN  whole(AltNode(Parser(pattern), <<>>))

\* What a user's pattern may be.
CompileLinear(pattern) ==
    LET linear(p) ==
            IF Failed(p) THEN p
            ELSE IF p.backref THEN Fail(p, "regex_backreference")
            ELSE IF p.look THEN Fail(p, "regex_lookaround") ELSE p
    IN  linear(Compile(pattern))

-----------------------------------------------------------------------------
\* The matcher.  An attempt gives the end of the match (Nowhere without one),
\* the spans of the groups, and the fuel that is left.

Nowhere == -1
Out(end, caps, fuel) == [end |-> end, caps |-> caps, fuel |-> fuel]

IsWord(char) == char \in WordChars
InClass(char, parts) ==
    \E part \in ToSet(parts) :
        CASE part.kind = "lit" -> char = part.char
          [] part.kind = "range" -> Ordinal(char) \in Ordinal(part.low)..Ordinal(part.high)
          [] part.kind = "word" -> IsWord(char)
          [] part.kind = "space" -> char \in Spaces
          [] part.kind = "digit" -> char \in ToSet(Digits)
IsBoundary(text, pos) == (pos > 0 /\ IsWord(text[pos])) # (pos < Len(text) /\ IsWord(text[pos + 1]))

Takes(node, char) ==
    CASE node.kind = "lit" -> char = node.char
      [] node.kind = "any" -> char # "\n"
      [] node.kind = "class" -> InClass(char, node.parts) # node.negated
      [] node.kind = "word" -> IsWord(char)
      [] node.kind = "not word" -> ~IsWord(char)
      [] node.kind = "space" -> char \in Spaces
      [] node.kind = "not space" -> char \notin Spaces
      [] node.kind = "digit" -> char \in ToSet(Digits)
      [] node.kind = "not digit" -> char \notin ToSet(Digits)

Holds(node, text, pos) ==
    CASE node.kind = "empty" -> TRUE
      [] node.kind = "bound" -> IsBoundary(text, pos)
      [] node.kind = "not bound" -> ~IsBoundary(text, pos)
      [] node.kind = "start" -> pos = 0
      [] node.kind = "end" -> pos = Len(text) \/ (pos + 1 = Len(text) /\ text[pos + 1] = "\n")

Consuming == {"lit", "any", "class", "word", "not word", "space", "not space", "digit", "not digit"}
AtomEnd(node, text, pos) ==
    IF node.kind \in Consuming
    THEN IF pos < Len(text) /\ Takes(node, text[pos + 1]) THEN pos + 1 ELSE Nowhere
    ELSE IF Holds(node, text, pos) THEN pos ELSE Nowhere

RECURSIVE Eval(_, _, _, _, _), EvalArms(_, _, _, _, _), EvalBehind(_, _, _, _, _, _)
RECURSIVE Grow(_, _, _, _, _, _), Shorten(_, _, _, _, _, _), EvalConcat(_, _, _, _, _)

\* One more round of a repetition while it gets on; its groups are those of
\* the last round.
Grow(node, text, caps, steps, fuel, rounds) ==
    LET trial == Eval(node.inner, text, Last(steps).at, caps, fuel)
    IN  IF rounds = node.max THEN [steps |-> steps, fuel |-> fuel]
        ELSE IF trial.end > Last(steps).at
             THEN Grow(node, text, caps, Append(steps, [at |-> trial.end, caps |-> trial.caps]), trial.fuel, rounds + 1)
             ELSE [steps |-> steps, fuel |-> trial.fuel]
Grown(node, text, pos, caps, fuel) == Grow(node, text, caps, <<[at |-> pos, caps |-> caps]>>, fuel, 0)

\* The rest of a concatenation after ever fewer rounds.
Shorten(rest, text, steps, least, caps, fuel) ==
    LET end == EvalConcat(rest, text, Last(steps).at, Last(steps).caps, fuel)
    IN  IF Len(steps) <= least THEN Out(Nowhere, caps, fuel)
        ELSE IF end.end # Nowhere THEN end
        ELSE Shorten(rest, text, Front(steps), least, caps, end.fuel)

\* Mutant: as many rounds as there are, or none.
EvalConcat_Greedy(parts, text, pos, caps, fuel) ==
    LET first == Eval(Head(parts), text, pos, caps, fuel)
        rest == EvalConcat(Tail(parts), text, first.end, first.caps, first.fuel)
    IN  IF parts = <<>> THEN Out(pos, caps, fuel)
        ELSE IF first.end = Nowhere THEN first
        ELSE IF rest.end = Nowhere THEN Out(Nowhere, caps, rest.fuel) ELSE rest

\* Only a repetition is tried again when what follows does not match.
EvalConcat(parts, text, pos, caps, fuel) ==
    LET grown == Grown(Head(parts), text, pos, caps, fuel)
        first == Eval(Head(parts), text, pos, caps, fuel)
        rest == EvalConcat(Tail(parts), text, first.end, first.caps, first.fuel)
    IN  IF parts = <<>> THEN Out(pos, caps, fuel)
        ELSE IF Head(parts).kind = "repeat"
        THEN Shorten(Tail(parts), text, grown.steps, Head(parts).min, caps, grown.fuel)
        ELSE IF first.end = Nowhere THEN first
        ELSE IF rest.end = Nowhere THEN Out(Nowhere, caps, rest.fuel) ELSE rest

EvalArms(arms, text, pos, caps, fuel) ==
    LET arm == Eval(Head(arms), text, pos, caps, fuel)
    IN  IF arms = <<>> THEN Out(Nowhere, caps, fuel)
        ELSE IF arm.end # Nowhere THEN arm ELSE EvalArms(Tail(arms), text, pos, caps, arm.fuel)

EvalGroup(node, text, pos, caps, fuel) ==
    LET inner == Eval(node.inner, text, pos, [caps EXCEPT ![node.index] = <<pos, pos>>], fuel)
    IN  [inner EXCEPT !.caps[node.index] = IF inner.end = Nowhere THEN caps[node.index] ELSE <<pos, inner.end>>]

\* From pos backwards.
EvalBehind(inner, text, pos, from, caps, fuel) ==
    LET trial == Eval(inner, text, from, caps, fuel)
    IN  IF trial.end = pos THEN [hit |-> TRUE, fuel |-> trial.fuel, caps |-> caps]
        ELSE IF from = Max({0, pos - BEHIND}) THEN [hit |-> FALSE, fuel |-> trial.fuel, caps |-> caps]
        ELSE EvalBehind(inner, text, pos, from - 1, caps, trial.fuel)

EvalLook(node, text, pos, caps, fuel) ==
    LET ahead == Eval(node.inner, text, pos, caps, fuel)
        seen == IF node.behind THEN EvalBehind(node.inner, text, pos, pos, caps, fuel)
                ELSE [hit |-> ahead.end # Nowhere, fuel |-> ahead.fuel, caps |-> ahead.caps]
    IN  Out(IF seen.hit # node.negative THEN pos ELSE Nowhere,
            IF seen.hit = node.negative THEN caps ELSE seen.caps, seen.fuel)

EvalRepeat(node, text, pos, caps, fuel) ==
    LET grown == Grown(node, text, pos, caps, fuel)
    IN  IF Len(grown.steps) <= node.min THEN Out(Nowhere, caps, grown.fuel)
        ELSE Out(Last(grown.steps).at, Last(grown.steps).caps, grown.fuel)

Eval(node, text, pos, caps, fuel) ==
    CASE fuel = 0 -> Out(Nowhere, caps, 0)
      [] fuel > 0 /\ node.kind = "concat" -> EvalConcat(node.parts, text, pos, caps, fuel - 1)
      [] fuel > 0 /\ node.kind = "alt" -> EvalArms(node.arms, text, pos, caps, fuel - 1)
      [] fuel > 0 /\ node.kind = "group" -> EvalGroup(node, text, pos, caps, fuel - 1)
      [] fuel > 0 /\ node.kind = "look" -> EvalLook(node, text, pos, caps, fuel - 1)
      [] fuel > 0 /\ node.kind = "repeat" -> EvalRepeat(node, text, pos, caps, fuel - 1)
      [] OTHER -> Out(AtomEnd(node, text, pos), caps, fuel - 1)

FindAt(regex, text, pos) == Eval(regex.node, text, pos, [g \in 1..regex.groups |-> <<>>], FUEL)

RECURSIVE FindIter(_, _, _)
FindIter(regex, text, pos) ==
    LET found == FindAt(regex, text, pos)
    IN  IF pos > Len(text) THEN <<>>
        ELSE IF found.end = Nowhere THEN FindIter(regex, text, pos + 1)
        ELSE <<[start |-> pos, end |-> found.end, groups |-> found.caps]>>
             \o FindIter(regex, text, IF found.end = pos THEN pos + 1 ELSE found.end)
=============================================================================
