-------------------------------- MODULE Json --------------------------------
(***************************************************************************)
(* The JSON parser and writer behind the snapshot, the journal, the        *)
(* coordination file and the server's lines.  A text is a sequence of      *)
(* characters; an object keeps its pairs in the order they came.           *)
(***************************************************************************)
EXTENDS Integers, Sequences, SequencesExt, FiniteSetsExt

CONSTANTS MAX_INT,       \* a whole number beyond it is read as a float
          Float(_),      \* the shortest text of the number a lexeme means, in a set: {} if not finite
          Controls,      \* the characters below a space that have no letter of their own
          Hex(_),        \* the four digits of a character
          Scalar(_)      \* the character of four digits, in a set: {} if there is none

Null == [kind |-> "null"]
Bool(b) == [kind |-> "bool", bool |-> b]
IntOf(n) == [kind |-> "int", int |-> n]
FloatOf(text) == [kind |-> "float", float |-> text]     \* <<>> is not finite
String(text) == [kind |-> "string", text |-> text]
Array(items) == [kind |-> "array", items |-> items]
Object(pairs) == [kind |-> "object", pairs |-> pairs]

Digits == <<"0", "1", "2", "3", "4", "5", "6", "7", "8", "9">>
Digit(char) == char \in ToSet(Digits)
Blank == {" ", "\n", "\t", "\r", "\f"}

-----------------------------------------------------------------------------
\* The parser.  What is read at a place: {} or the value and the place after it.

Nothing == {}
Read(value, at) == {[value |-> value, at |-> at]}
At(text, k) == IF k \in DOMAIN text THEN text[k] ELSE "nothing left"

\* The first place from at on that is not a blank, and that has no digit.
Skip(text, at) == CHOOSE k \in at..Len(text) + 2 : At(text, k) \notin Blank /\ \A j \in at..k - 1 : At(text, j) \in Blank
Run(text, at) == CHOOSE k \in at..Len(text) + 2 : ~Digit(At(text, k)) /\ \A j \in at..k - 1 : Digit(At(text, j))

LiteralAt(text, at, word, value) ==
    IF SubSeq(text, at, at + Len(word) - 1) = word THEN Read(value, at + Len(word)) ELSE Nothing

Whole(digits) ==
    FoldLeft(LAMBDA n, char : 10 * n + (CHOOSE k \in DOMAIN Digits : Digits[k] = char) - 1, 0, digits)

NumberAt(text, at) ==
    LET sign == IF At(text, at) = "-" THEN 1 ELSE 0
        first == at + sign
        whole == IF At(text, first) = "0" THEN first + 1 ELSE Run(text, first)
        point == At(text, whole) = "."
        part == IF point THEN Run(text, whole + 1) ELSE whole
        power == At(text, part) \in {"e", "E"}
        signed == IF At(text, part + 1) \in {"+", "-"} THEN part + 2 ELSE part + 1
        end == IF power THEN Run(text, signed) ELSE part
        lexeme == SubSeq(text, at, end - 1)
        number == Whole(SubSeq(text, first, whole - 1))
    IN  IF \/ whole = first
           \/ point /\ part = whole + 1
           \/ power /\ end = signed
        THEN Nothing
        ELSE IF ~point /\ ~power /\ number <= MAX_INT + sign
        THEN Read(IntOf(IF sign = 1 THEN -number ELSE number), end)
        ELSE UNION {Read(FloatOf(float), end) : float \in Float(lexeme)}

\* A letter after a backslash.
Unescaped == [b |-> "^H", f |-> "\f", n |-> "\n", r |-> "\r", t |-> "\t"]

\* A string from after its quote; a control character must be escaped.
RECURSIVE StringAt(_, _, _)
StringAt(text, at, before) ==
    LET char == At(text, at)
        escape == At(text, at + 1)
        hex == SubSeq(text, at + 2, at + 5)
    IN  CASE char = "\"" -> Read(before, at + 1)
          [] char \in {"nothing left", "\n", "\t", "\r", "\f", "^H"} \cup Controls -> Nothing
          [] char = "\\" ->
                 CASE escape \in {"\"", "\\", "/"} -> StringAt(text, at + 2, Append(before, escape))
                   [] escape \in DOMAIN Unescaped -> StringAt(text, at + 2, Append(before, Unescaped[escape]))
                   [] escape = "u" /\ Len(hex) = 4 ->
                          UNION {StringAt(text, at + 6, Append(before, code)) : code \in Scalar(hex)}
                   [] OTHER -> Nothing
          [] OTHER -> StringAt(text, at + 1, Append(before, char))

\* A key that comes again keeps its place and takes the new value.
Put(pairs, key, value) ==
    IF \E k \in DOMAIN pairs : pairs[k][1] = key
    THEN [k \in DOMAIN pairs |-> IF pairs[k][1] = key THEN <<key, value>> ELSE pairs[k]]
    ELSE Append(pairs, <<key, value>>)

RECURSIVE ValueAt(_, _), ItemsAt(_, _, _), PairsAt(_, _, _)

ItemsAt(text, at, before) ==
    UNION {LET next == Skip(text, item.at)
               items == Append(before, item.value)
           IN  CASE At(text, next) = "," -> ItemsAt(text, Skip(text, next + 1), items)
                 [] At(text, next) = "]" -> Read(Array(items), next + 1)
                 [] OTHER -> Nothing : item \in ValueAt(text, at)}

PairsAt(text, at, before) ==
    LET open == Skip(text, at)
    IN  IF At(text, open) # "\"" THEN Nothing
        ELSE UNION {LET colon == Skip(text, key.at)
                    IN  IF At(text, colon) # ":" THEN Nothing
                        ELSE UNION {LET next == Skip(text, item.at)
                                        pairs == Put(before, key.value, item.value)
                                    IN  CASE At(text, next) = "," -> PairsAt(text, next + 1, pairs)
                                          [] At(text, next) = "}" -> Read(Object(pairs), next + 1)
                                          [] OTHER -> Nothing : item \in ValueAt(text, colon + 1)} :
                        key \in StringAt(text, open + 1, <<>>)}

ValueAt(text, from) ==
    LET at == Skip(text, from)
        char == At(text, at)
        inner == Skip(text, at + 1)
    IN  CASE char = "n" -> LiteralAt(text, at, <<"n", "u", "l", "l">>, Null)
          [] char = "t" -> LiteralAt(text, at, <<"t", "r", "u", "e">>, Bool(TRUE))
          [] char = "f" -> LiteralAt(text, at, <<"f", "a", "l", "s", "e">>, Bool(FALSE))
          [] char = "\"" -> {[value |-> String(read.value), at |-> read.at] : read \in StringAt(text, at + 1, <<>>)}
          [] char = "[" -> IF At(text, inner) = "]" THEN Read(Array(<<>>), inner + 1) ELSE ItemsAt(text, inner, <<>>)
          [] char = "{" -> IF At(text, inner) = "}" THEN Read(Object(<<>>), inner + 1) ELSE PairsAt(text, inner, <<>>)
          [] char = "-" \/ Digit(char) -> NumberAt(text, at)
          [] OTHER -> Nothing

\* The value of a whole text, in a set.
Parse(text) == {read.value : read \in {read \in ValueAt(text, 1) : Skip(text, read.at) = Len(text) + 1}}

-----------------------------------------------------------------------------
\* The writer; gap is what follows a comma or a colon.

Decimal(n) ==
    LET size == Min({k \in 1..9 : n < 10 ^ k})
    IN  [k \in 1..size |-> Digits[((n \div 10 ^ (size - k)) % 10) + 1]]

IntText(n) == IF n < 0 THEN <<"-">> \o Decimal(-n) ELSE Decimal(n)

Escaped(char) ==
    CASE char \in {"\"", "\\"} -> <<"\\", char>>
      [] char \in Range(Unescaped) -> <<"\\", CHOOSE letter \in DOMAIN Unescaped : Unescaped[letter] = char>>
      [] char \in Controls -> <<"\\", "u">> \o Hex(char)
      [] OTHER -> <<char>>
WriteString(text) == <<"\"">> \o FlattenSeq([k \in DOMAIN text |-> Escaped(text[k])]) \o <<"\"">>

Listed(open, parts, gap, close) ==
    <<open>> \o FlattenSeq([k \in DOMAIN parts |-> IF k = 1 THEN parts[k] ELSE <<",">> \o gap \o parts[k]]) \o <<close>>

RECURSIVE Written(_, _)
Written(value, gap) ==
    CASE value.kind = "null" -> <<"n", "u", "l", "l">>
      [] value.kind = "bool" -> IF value.bool THEN <<"t", "r", "u", "e">> ELSE <<"f", "a", "l", "s", "e">>
      [] value.kind = "int" -> IntText(value.int)
      [] value.kind = "float" -> IF value.float = <<>> THEN <<"n", "u", "l", "l">>
                                 ELSE value.float \o (IF ToSet(value.float) \cap {".", "e", "E"} = {} THEN <<".", "0">> ELSE <<>>)
      [] value.kind = "string" -> WriteString(value.text)
      [] value.kind = "array" ->
             Listed("[", [k \in DOMAIN value.items |-> Written(value.items[k], gap)], gap, "]")
      [] value.kind = "object" ->
             Listed("{", [k \in DOMAIN value.pairs |->
                             WriteString(value.pairs[k][1]) \o <<":">> \o gap \o Written(value.pairs[k][2], gap)], gap, "}")

ToText(value) == Written(value, <<>>)
DumpsPython(value) == Written(value, <<" ">>)
=============================================================================
