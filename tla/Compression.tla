----------------------------- MODULE Compression -----------------------------
(***************************************************************************)
(* The compressor of the session files and the decoder of the streams in   *)
(* a PDF.  Bytes are numbers, a stream is a sequence of bytes whose bits   *)
(* are read from the low end, and a place in it counts bits from 0.  What  *)
(* is read is {} when the code gives up.                                   *)
(***************************************************************************)
EXTENDS Integers, Sequences, SequencesExt, FiniteSetsExt

CONSTANTS MAX_CHAIN, NICE, LAZY, WINDOW, MAX_MATCH,
          Hash(_)        \* the hash of three bytes

MIN_MATCH == 3

-----------------------------------------------------------------------------
\* Matches.  Data is numbered from 0, as the code does.

Byte(data, i) == data[i + 1]
Hash3(data, i) == Hash(SubSeq(data, i + 1, i + 3))

MatchLen(data, start, i) ==
    LET max == Min({Len(data) - i, MAX_MATCH})
    IN  CHOOSE n \in 0..max : /\ n = max \/ Byte(data, start + n) # Byte(data, i + n)
                              /\ \A k \in 0..n - 1 : Byte(data, start + k) = Byte(data, i + k)

\* The hash chain of a place: every place before it was inserted.
ChainOf(data, i) ==
    LET same == SelectSeq([k \in 1..i |-> i - k], LAMBDA prev : Hash3(data, prev) = Hash3(data, i))
    IN  SubSeq(same, 1, Min({Len(same), MAX_CHAIN}))

NoMatch == [len |-> 0, dist |-> 0]
FindMatch(data, i) ==
    LET better(best, prev) ==
            IF best.len >= NICE \/ i - prev > WINDOW \/ MatchLen(data, prev, i) <= best.len THEN best
            ELSE [len |-> MatchLen(data, prev, i), dist |-> i - prev]
        best == FoldLeft(better, NoMatch, ChainOf(data, i))
    IN  IF i + MIN_MATCH > Len(data) \/ best.len < MIN_MATCH THEN NoMatch ELSE best

Lit(byte) == [len |-> 1, byte |-> byte]

RECURSIVE TokensFrom(_, _, _, _, _)

\* prev is what was found one place before: it is a token if this place has
\* nothing longer, otherwise the byte before is one.
TokensFrom(data, i, prev, available, out) ==
    LET searched == IF prev.len < LAZY /\ i < Len(data) THEN FindMatch(data, i) ELSE NoMatch
        none == [len |-> MIN_MATCH - 1, dist |-> 0]
        found == IF searched.len = 0 THEN none ELSE searched
    IN  IF i >= Len(data) THEN out \o (IF available THEN <<Lit(Last(data))>> ELSE <<>>)
        ELSE IF prev.len >= MIN_MATCH /\ found.len <= prev.len
        THEN TokensFrom(data, i + prev.len - 1, none, FALSE, Append(out, prev))
        ELSE TokensFrom(data, i + 1, found, TRUE, out \o (IF available THEN <<Lit(Byte(data, i - 1))>> ELSE <<>>))

Tokens(data) == TokensFrom(data, 0, [len |-> MIN_MATCH - 1, dist |-> 0], FALSE, <<>>)

-----------------------------------------------------------------------------
\* Codes of lengths and distances.

LenBase == <<3, 4, 5, 6, 7, 8, 9, 10, 11, 13, 15, 17, 19, 23, 27, 31, 35, 43, 51, 59, 67, 83, 99, 115,
             131, 163, 195, 227, 258>>
LenExtraBits(index) == IF index < 8 \/ index = 28 THEN 0 ELSE (index \div 4) - 1
DistBase == <<1, 2, 3, 4, 5, 7, 9, 13, 17, 25, 33, 49, 65, 97, 129, 193, 257, 385, 513, 769, 1025, 1537,
              2049, 3073, 4097, 6145, 8193, 12289, 16385, 24577>>
DistExtraBits(index) == IF index < 4 THEN 0 ELSE (index \div 2) - 1

\* The first row that reaches n; a length of 258 is in the row before its own.
LenCode(len) == 257 + Min({k \in 0..28 : len < LenBase[k + 1] + 2 ^ LenExtraBits(k)})
DistCode(dist) == Min({k \in 0..29 : dist < DistBase[k + 1] + 2 ^ DistExtraBits(k)})

Low(value, width) == [k \in 1..width |-> (value \div 2 ^ (k - 1)) % 2]
High(code, width) == Reverse(Low(code, width))

FixedLit(symbol) ==
    CASE symbol <= 143 -> High(48 + symbol, 8)
      [] symbol \in 144..255 -> High(400 + symbol - 144, 9)
      [] symbol \in 256..279 -> High(symbol - 256, 7)
      [] OTHER -> High(192 + symbol - 280, 8)

TokenBits(token) ==
    IF "byte" \in DOMAIN token THEN FixedLit(token.byte)
    ELSE LET row == LenCode(token.len) - 257
             from == DistCode(token.dist)
         IN  FixedLit(LenCode(token.len)) \o Low(token.len - LenBase[row + 1], LenExtraBits(row))
             \o High(from, 5) \o Low(token.dist - DistBase[from + 1], DistExtraBits(from))

DeflateFixed(data) ==
    LET tokens == Tokens(data)
    IN  <<1, 1, 0>> \o FlattenSeq([k \in DOMAIN tokens |-> TokenBits(tokens[k])]) \o FixedLit(256)

\* The writer fills bytes from the low end.
Packed(bits) ==
    [n \in 1..(Len(bits) + 7) \div 8 |->
        LET bit(k) == IF 8 * n - 7 + k \in DOMAIN bits THEN bits[8 * n - 7 + k] ELSE 0
        IN  bit(0) + 2 * bit(1) + 4 * bit(2) + 8 * bit(3) + 16 * bit(4) + 32 * bit(5) + 64 * bit(6) + 128 * bit(7)]

\* Terms are added by halves.
RECURSIVE SumOf(_, _, _)
SumOf(terms, from, to) ==
    CASE from > to -> 0
      [] from = to -> terms[from]
      [] OTHER -> LET mid == (from + to) \div 2 IN SumOf(terms, from, mid) + SumOf(terms, mid + 1, to)

\* One word sums the bytes, the other the sums, modulo 65521.
Adler32(data) ==
    LET size == Len(data)
        a == 1 + SumOf(data, 1, size)
        b == size + SumOf([k \in 1..size |-> (size - k + 1) * data[k]], 1, size)
        word(n) == <<(n % 65521) \div 256, (n % 65521) % 256>>
    IN  word(b) \o word(a)

Compress(data) == <<120, 156>> \o Packed(DeflateFixed(data)) \o Adler32(data)

-----------------------------------------------------------------------------
\* The decoder.

Bit(bytes, pos) == (bytes[(pos \div 8) + 1] \div 2 ^ (pos % 8)) % 2
Take(bytes, pos, n) ==
    IF pos + n > 8 * Len(bytes) THEN {}
    ELSE {[value |-> FoldLeft(LAMBDA sum, k : sum + Bit(bytes, pos + k - 1) * 2 ^ (k - 1), 0, [k \in 1..n |-> k]),
           pos |-> pos + n]}

\* A code from the lengths of its symbols 0, 1, ...: the first code word of
\* each length, and the symbols of each length.
FromLengths(lengths) ==
    LET row(rows, len) ==
            [first |-> IF rows = <<>> THEN 0 ELSE 2 * (Last(rows).first + Len(Last(rows).symbols)),
             symbols |-> SelectSeq([k \in DOMAIN lengths |-> k - 1], LAMBDA s : lengths[s + 1] = len)]
    IN  FoldLeft(LAMBDA rows, len : Append(rows, row(rows, len)), <<>>, [len \in 1..15 |-> len])

\* Word after word of the code until one is a symbol's; from a word that no
\* symbol begins with the walk goes on at the root, for 16 bits in all.
RECURSIVE DecodeFrom(_, _, _, _, _)
DecodeFrom(huff, bytes, pos, word, left) ==
    LET value == 2 * word.value + Bit(bytes, pos)
        len == word.len + 1
        hit == value - huff[len].first + 1
        inner == \E longer \in len + 1..15 :
                     LET stem == value * 2 ^ (longer - len)
                     IN  /\ huff[longer].symbols # <<>>
                         /\ stem < huff[longer].first + Len(huff[longer].symbols)
                         /\ stem + 2 ^ (longer - len) > huff[longer].first
    IN  IF left = 0 \/ pos >= 8 * Len(bytes) THEN {}
        ELSE IF hit \in DOMAIN huff[len].symbols THEN {[value |-> huff[len].symbols[hit], pos |-> pos + 1]}
        ELSE DecodeFrom(huff, bytes, pos + 1, IF inner THEN [value |-> value, len |-> len] ELSE [value |-> 0, len |-> 0], left - 1)
Decode(huff, bytes, pos) == DecodeFrom(huff, bytes, pos, [value |-> 0, len |-> 0], 16)

FixedLits == FromLengths([k \in 1..288 |-> IF k <= 144 THEN 8 ELSE IF k <= 256 THEN 9 ELSE IF k <= 280 THEN 7 ELSE 8])
FixedDists == FromLengths([k \in 1..32 |-> 5])

\* A row of lengths, then a distance: so much of what is there comes again.
\* Symbols 30 and 31 of the distances, which the fixed code has and no stream
\* uses, end the program: they are not modelled.
Copied(bytes, pos, row, dist, out) ==
    LET copy(length, distance) == out \o [k \in 1..length |-> out[Len(out) - distance + 1 + ((k - 1) % distance)]]
        copies(more, from) ==
            {[out |-> copy(LenBase[row + 1] + more.value, DistBase[from.value + 1] + far.value), pos |-> far.pos] :
                far \in {far \in Take(bytes, from.pos, DistExtraBits(from.value)) :
                            DistBase[from.value + 1] + far.value <= Len(out)}}
    IN  UNION {UNION {copies(more, from) : from \in Decode(dist, bytes, more.pos)} :
                  more \in Take(bytes, pos, LenExtraBits(row))}

RECURSIVE HuffmanBlock(_, _, _, _, _)
HuffmanBlock(bytes, pos, lit, dist, out) ==
    UNION {CASE symbol.value <= 255 -> HuffmanBlock(bytes, symbol.pos, lit, dist, Append(out, symbol.value))
             [] symbol.value = 256 -> {[out |-> out, pos |-> symbol.pos]}
             [] symbol.value \in 257..285 ->
                    UNION {HuffmanBlock(bytes, copied.pos, lit, dist, copied.out) :
                              copied \in Copied(bytes, symbol.pos, symbol.value - 257, dist, out)}
             [] OTHER -> {} : symbol \in Decode(lit, bytes, pos)}

Stored(bytes, pos, out) ==
    LET at == ((pos + 7) \div 8) * 8
    IN  UNION {LET from == check.pos \div 8
               IN  IF check.value # 65535 - len.value \/ from + len.value > Len(bytes) THEN {}
                   ELSE {[out |-> out \o SubSeq(bytes, from + 1, from + len.value), pos |-> 8 * (from + len.value)]} :
                  <<len, check>> \in Take(bytes, at, 16) \X Take(bytes, at + 16, 16)}

\* The lengths of a dynamic block: a length, the one before again, or zeros.
\* (A repetition past the last symbol ends the program: not modelled.)
RECURSIVE Lengths(_, _, _, _, _)
Lengths(cl, bytes, pos, count, before) ==
    LET again(bits, least, length, at) ==
            UNION {Lengths(cl, bytes, more.pos, count, before \o [k \in 1..least + more.value |-> length]) :
                      more \in Take(bytes, at, bits)}
    IN  IF Len(before) >= count THEN {[lengths |-> SubSeq(before, 1, count), pos |-> pos]}
        ELSE UNION {CASE symbol.value <= 15 -> Lengths(cl, bytes, symbol.pos, count, Append(before, symbol.value))
                      [] symbol.value = 16 -> IF before = <<>> THEN {} ELSE again(2, 3, Last(before), symbol.pos)
                      [] symbol.value = 17 -> again(3, 3, 0, symbol.pos)
                      [] symbol.value = 18 -> again(7, 11, 0, symbol.pos) : symbol \in Decode(cl, bytes, pos)}

ClOrder == <<16, 17, 18, 0, 8, 7, 9, 6, 10, 5, 11, 4, 12, 3, 13, 2, 14, 1, 15>>
Dynamic(bytes, pos, out) ==
    UNION {LET at == pos + 14
               sent == [k \in 1..head.cl + 4 |-> Take(bytes, at + 3 * (k - 1), 3)]
               cl == FromLengths([s \in 1..19 |-> LET k == CHOOSE k \in 1..19 : ClOrder[k] = s - 1
                                                  IN  IF k \in DOMAIN sent THEN (CHOOSE t \in sent[k] : TRUE).value ELSE 0])
           IN  IF {} \in ToSet(sent) THEN {}
               ELSE UNION {HuffmanBlock(bytes, read.pos, FromLengths(SubSeq(read.lengths, 1, head.lit + 257)),
                                        FromLengths(SubSeq(read.lengths, head.lit + 258, Len(read.lengths))), out) :
                              read \in Lengths(cl, bytes, at + 3 * (head.cl + 4), head.lit + head.dist + 258, <<>>)} :
              head \in {[lit |-> a.value, dist |-> b.value, cl |-> c.value] :
                           <<a, b, c>> \in Take(bytes, pos, 5) \X Take(bytes, pos + 5, 5) \X Take(bytes, pos + 10, 4)}}

RECURSIVE InflateFrom(_, _, _)
InflateFrom(bytes, pos, out) ==
    UNION {LET block == CASE head.value \div 2 = 0 -> Stored(bytes, head.pos, out)
                          [] head.value \div 2 = 1 -> HuffmanBlock(bytes, head.pos, FixedLits, FixedDists, out)
                          [] head.value \div 2 = 2 -> Dynamic(bytes, head.pos, out)
                          [] OTHER -> {}
           IN  IF head.value % 2 = 1 THEN {read.out : read \in block}
               ELSE UNION {InflateFrom(bytes, read.pos, read.out) : read \in block} : head \in Take(bytes, pos, 3)}

\* The check sum at the end is not looked at.
ZlibDecode(bytes) ==
    IF Len(bytes) < 6 \/ bytes[1] % 16 # 8 THEN {} ELSE InflateFrom(SubSeq(bytes, 3, Len(bytes) - 4), 0, <<>>)
=============================================================================
