------------------------------- MODULE RsText -------------------------------
(***************************************************************************)
(* The text algorithms that backend_rs writes by hand, as the loops they   *)
(* are in the code: the query parameters and their decoders, the segments  *)
(* of a path, the echo of the parameters as JSON, SHA-1 and base64.        *)
(*                                                                         *)
(* A job is one call.  Text is a sequence of bytes, or of code points      *)
(* where the code has made a String of it.                                 *)
(***************************************************************************)
EXTENDS Integers, SequencesExt, Bitwise

CONSTANTS
    Inputs,        \* for each kind of job, what it is called with
    Vectors        \* inputs with the digest and the accept key the RFCs give

Kinds == {"query", "path", "decode", "echo", "base64", "sha1"}

ASSUME InputsAssumption == DOMAIN Inputs = Kinds

VARIABLES
    job,
    pos,           \* how much of the input the loop is past
    acc,           \* what it has made of that
    done

vars == <<job, pos, acc, done>>

n == Len(job.input)

Init ==
    /\ \E kind \in Kinds : \E input \in Inputs[kind] :
          job = [kind |-> kind, input |-> input]
    /\ pos = IF job.kind = "path" THEN 4 ELSE 0
    /\ acc = IF job.kind = "sha1"
             THEN [count |-> 0, blocks |-> <<>>,
                   buffer |-> [k \in 1..64 |-> 0]]
             ELSE <<>>
    /\ done = FALSE

Loop(kind) == ~done /\ job.kind = kind /\ pos < n /\ UNCHANGED <<job, done>>

\* The loop's condition is false.
Return ==
    /\ ~done /\ pos = n
    /\ job.kind \in {"query", "path", "echo", "base64"}
    /\ done' = TRUE
    /\ UNCHANGED <<job, pos, acc>>

-----------------------------------------------------------------------------
(* Decoding.  An operator reads its text from the back: no element is read *)
(* twice.  -1 marks what cannot be decoded.                                *)

Percent == 37
Plus == 43
Space == 32

Hex(b) == IF b \in 48..57 THEN b - 48
          ELSE IF b \in 65..70 THEN b - 55
          ELSE IF b \in 97..102 THEN b - 87 ELSE -1

\* from_str_radix takes a sign for the first digit.
HexByte(h, l) == IF Hex(l) = -1 \/ (Hex(h) = -1 /\ h # Plus) THEN -1
                 ELSE (IF h = Plus THEN 0 ELSE 16 * Hex(h)) + Hex(l)

\* from_utf8, for characters of one or two bytes.
Chars(s) ==
    LET from[k \in 1..Len(s) + 1] ==
            IF k > Len(s) THEN <<>>
            ELSE IF s[k] < 128 THEN <<s[k]>> \o from[k + 1]
            ELSE IF s[k] \in 194..223 /\ k < Len(s) /\ s[k + 1] \in 128..191
                 THEN <<(64 * (s[k] % 32)) + (s[k + 1] % 64)>> \o from[k + 2]
            ELSE <<-1>>
    IN  from[1]

\* main.rs reads two bytes that are no UTF-8 as "00".
EncodedByte(h, l) == IF Contains(Chars(<<h, l>>), -1) THEN 0 ELSE HexByte(h, l)

\* main.rs: a percent sign that encodes nothing stays, and bytes that are no
\* UTF-8 make the whole text empty.
PercentDecode(s) ==
    LET from[k \in 1..Len(s) + 1] ==
            IF k > Len(s) THEN <<>>
            ELSE IF /\ s[k] = Percent /\ k + 2 <= Len(s)
                    /\ EncodedByte(s[k + 1], s[k + 2]) # -1
                 THEN <<EncodedByte(s[k + 1], s[k + 2])>> \o from[k + 3]
            ELSE <<IF s[k] = Plus THEN Space ELSE s[k]>> \o from[k + 1]
    IN  IF Contains(Chars(from[1]), -1) THEN <<>> ELSE Chars(from[1])

\* main2.rs: a percent sign that encodes nothing is an error, on which the
\* caller takes the text as it is; a byte becomes the character of its number.
\* (What from_utf8_lossy puts in place of bytes that are no UTF-8, before this,
\* is not followed: it is never a hexadecimal digit.)
UrlDecode(s) ==
    LET from[k \in 1..Len(s) + 1] ==
            IF k > Len(s) THEN <<>>
            ELSE IF s[k] # Percent
                 THEN <<IF s[k] = Plus THEN Space ELSE s[k]>> \o from[k + 1]
            ELSE IF k + 2 <= Len(s)
                 THEN <<HexByte(s[k + 1], s[k + 2])>> \o from[k + 3]
            ELSE <<-1>>
    IN  IF Contains(from[1], -1) THEN s ELSE from[1]

Decode ==
    /\ ~done /\ job.kind = "decode"
    /\ pos' = n
    /\ acc' = LET s == FlattenSeq([k \in 1..n |-> job.input[k].bytes])
              IN  [percent |-> PercentDecode(s), url |-> UrlDecode(s)]
    /\ done' = TRUE
    /\ UNCHANGED job

-----------------------------------------------------------------------------
(* Splitting.                                                              *)

Ampersand == 38
Slash == 47
EqualSign == 61

\* The first of these bytes after a position, or the end.
Upto(from, bytes) ==
    LET p == SelectInSubSeq(job.input, from + 1, n, LAMBDA b : b \in bytes)
    IN  IF p = 0 THEN n + 1 ELSE p

Slice(from, upto) == SubSeq(job.input, from + 1, upto - 1)

\* Mutant: a key goes on to the next equal sign.
QueryPairLong ==
    LET key == Upto(pos, {EqualSign})
        end == IF key <= n THEN Upto(key, {Ampersand}) ELSE key
    IN  /\ Loop("query")
        /\ acc' = Append(acc, <<PercentDecode(Slice(pos, key)),
                                PercentDecode(Slice(key, end))>>)
        /\ pos' = Min({end, n})

\* parse_query_params: a key, and a value if an equal sign follows.
QueryPair ==
    LET key == Upto(pos, {EqualSign, Ampersand})
        end == IF key <= n /\ job.input[key] = EqualSign
               THEN Upto(key, {Ampersand}) ELSE key
    IN  /\ Loop("query")
        /\ acc' = Append(acc, <<PercentDecode(Slice(pos, key)),
                                PercentDecode(Slice(key, end))>>)
        /\ pos' = Min({end, n})

\* The segments of a path after "/rs/", the empty ones left out.
Segment ==
    LET end == Upto(pos, {Slash})
    IN  /\ Loop("path")
        /\ acc' = IF end = pos + 1 THEN acc ELSE Append(acc, Slice(pos, end))
        /\ pos' = Min({end, n})

Join(segments) ==
    FlattenSeq([k \in DOMAIN segments |->
                   IF k = 1 THEN segments[k] ELSE <<Slash>> \o segments[k]])

-----------------------------------------------------------------------------
(* The echo.                                                               *)

Quote == 34
Backslash == 92
Null == "null"
Short == [c \in {8, 9, 10, 12, 13} |->
             CASE c = 8 -> 98 [] c = 9 -> 116 [] c = 10 -> 110
               [] c = 12 -> 102 [] c = 13 -> 114]

Escape(c) ==
    IF c \in {Quote, Backslash} THEN <<Backslash, c>>
    ELSE IF c \in DOMAIN Short THEN <<Backslash, Short[c]>> ELSE <<c>>

Escaped(s) == FlattenSeq([k \in DOMAIN s |-> Escape(s[k])])

\* The escapes of backspace and form feed in a value are pushed to the key.
EchoParam ==
    LET key == job.input[pos + 1][1]
        value == job.input[pos + 1][2]
        strays == SelectSeq(value, LAMBDA c : c \in {8, 12})
        stays == SelectSeq(value, LAMBDA c : c \notin {8, 12})
    IN  /\ Loop("echo")
        /\ acc' = Append(acc,
               [key |-> Escaped(key) \o Escaped(strays),
                value |-> IF value = <<>> THEN Null ELSE Escaped(stays)])
        /\ pos' = pos + 1

-----------------------------------------------------------------------------
(* base64_encode.                                                          *)

Charset(v) == IF v < 26 THEN 65 + v ELSE IF v < 52 THEN 71 + v
              ELSE IF v < 62 THEN v - 4 ELSE IF v = 62 THEN 43 ELSE 47

\* Four characters for the three bytes from k on.
Group(s, k) ==
    LET octet(d) == IF k + d <= Len(s) THEN s[k + d] ELSE 0
        triple == 65536 * octet(0) + 256 * octet(1) + octet(2)
        sextet(d) == Charset((triple \div 64^(3 - d)) % 64)
    IN  <<sextet(0), sextet(1),
          IF k + 1 <= Len(s) THEN sextet(2) ELSE EqualSign,
          IF k + 2 <= Len(s) THEN sextet(3) ELSE EqualSign>>

Base64(s) == FlattenSeq([g \in 1..(Len(s) + 2) \div 3 |-> Group(s, 3 * g - 2)])

Base64Group ==
    /\ Loop("base64")
    /\ acc' = acc \o Group(job.input, pos + 1)
    /\ pos' = Min({pos + 3, n})

-----------------------------------------------------------------------------
(* SHA-1.  A word is a pair of 16-bit halves; blocks are transformed when  *)
(* the digest is taken, not when they are full.                            *)

Half == 65536

Add(x, y) == LET low == x[2] + y[2]
             IN  <<(x[1] + y[1] + (low \div Half)) % Half, low % Half>>
XorW(x, y) == <<x[1] ^^ y[1], x[2] ^^ y[2]>>
AndW(x, y) == <<x[1] & y[1], x[2] & y[2]>>
OrW(x, y) == <<x[1] | y[1], x[2] | y[2]>>
NotW(x) == <<Half - 1 - x[1], Half - 1 - x[2]>>

\* rotate_left, by less than 16.
Rotate(x, k) ==
    LET m == 2^k
        w == Half \div m
    IN  <<((x[1] % w) * m) + (x[2] \div w), ((x[2] % w) * m) + (x[1] \div w)>>

Start == << <<26437, 8961>>, <<61389, 43913>>, <<39098, 56574>>,
            <<4146, 21622>>, <<50130, 57840>> >>

Schedule(block) ==
    FoldLeftDomain(LAMBDA w, k :
        IF k <= 16
        THEN Append(w, <<256 * block[4 * k - 3] + block[4 * k - 2],
                         256 * block[4 * k - 1] + block[4 * k]>>)
        ELSE Append(w, Rotate(XorW(XorW(w[k - 3], w[k - 8]),
                                   XorW(w[k - 14], w[k - 16])), 1)),
        <<>>, [k \in 1..80 |-> 0])

Round(h, k, word) ==
    LET b == h[2]
        c == h[3]
        d == h[4]
        f == IF k <= 20 THEN OrW(AndW(b, c), AndW(NotW(b), d))
             ELSE IF k <= 40 \/ k > 60 THEN XorW(XorW(b, c), d)
             ELSE OrW(OrW(AndW(b, c), AndW(b, d)), AndW(c, d))
        const == IF k <= 20 THEN <<23170, 31129>>
                 ELSE IF k <= 40 THEN <<28377, 60321>>
                 ELSE IF k <= 60 THEN <<36635, 48348>> ELSE <<51810, 49622>>
        temp == Add(Add(Add(Add(Rotate(h[1], 5), f), h[5]), const), word)
    IN  <<temp, h[1], Rotate(Rotate(b, 15), 15), c, d>>

Transform(h, block) ==
    LET w == Schedule(block)
        rounds == FoldLeftDomain(LAMBDA s, k : Round(s, k, w[k]), h, w)
    IN  [k \in 1..5 |-> Add(h[k], rounds[k])]

\* A byte goes to its place in the buffer; the 64th one ends a block.
Fed(h, byte) ==
    LET buffer == [h.buffer EXCEPT ![(h.count % 64) + 1] = byte]
    IN  [count |-> h.count + 1, buffer |-> buffer,
         blocks |-> IF (h.count + 1) % 64 = 0 THEN Append(h.blocks, buffer)
                                              ELSE h.blocks]

Update ==
    /\ Loop("sha1")
    /\ acc' = Fed(acc, job.input[pos + 1])
    /\ pos' = pos + 1

\* Mutant: room for the length, but not for the bit in front of it.
PaddingTight(count) ==
    LET rest == 64 - (count % 64)
        len == IF rest < 8 THEN rest + 64 ELSE rest
        bits == 8 * count
    IN  [k \in 1..len |-> IF k > len - 4 THEN (bits \div 256^(len - k)) % 256
                          ELSE IF k = 1 THEN 128 ELSE 0]

\* A bit, zeros, and eight bytes for the number of bits: the upper four are 0.
Padding(count) ==
    LET rest == 64 - (count % 64)
        len == IF rest < 9 THEN rest + 64 ELSE rest
        bits == 8 * count
    IN  [k \in 1..len |-> IF k > len - 4 THEN (bits \div 256^(len - k)) % 256
                          ELSE IF k > len - 8 THEN 0
                          ELSE IF k = 1 THEN 128 ELSE 0]

Finalize ==
    /\ ~done /\ job.kind = "sha1" /\ pos = n
    /\ acc' = FoldLeft(Fed, acc, Padding(acc.count))
    /\ done' = TRUE
    /\ UNCHANGED <<job, pos>>

Digest(blocks) ==
    LET h == FoldLeft(Transform, Start, blocks)
    IN  FlattenSeq([k \in 1..5 |-> <<h[k][1] \div 256, h[k][1] % 256,
                                     h[k][2] \div 256, h[k][2] % 256>>])

\* What the server writes for a key: Sec-WebSocket-Accept.
Accept(blocks) == Base64(Digest(blocks))

-----------------------------------------------------------------------------
Next ==
    \/ QueryPair \/ Segment \/ EchoParam \/ Base64Group \/ Return
    \/ Decode \/ Update \/ Finalize

Spec == Init /\ [][Next]_vars

-----------------------------------------------------------------------------
(* Properties.                                                             *)

Result(kind) == done /\ job.kind = kind

\* The pieces between separators, whole text or a part of it.
Pieces(s, separator) ==
    LET isCut(k) == k \in {0, Len(s) + 1} \/ s[k] = separator
        cuts == SelectSeq([k \in 1..Len(s) + 2 |-> k - 1], isCut)
    IN  [k \in 1..Len(cuts) - 1 |-> SubSeq(s, cuts[k] + 1, cuts[k + 1] - 1)]

KeyValue(piece) ==
    LET sign == SelectInSeq(piece, LAMBDA b : b = EqualSign)
    IN  IF sign = 0 THEN <<PercentDecode(piece), <<>> >>
        ELSE <<PercentDecode(SubSeq(piece, 1, sign - 1)),
               PercentDecode(SubSeq(piece, sign + 1, Len(piece)))>>

\* A query is its pieces between ampersands, but for an empty last one, each
\* split at its first equal sign; a path is its segments that are not empty.
SplitRight ==
    /\ Result("query") =>
          LET pieces == Pieces(job.input, Ampersand)
              kept == IF Last(pieces) = <<>> THEN Front(pieces) ELSE pieces
          IN  acc = [k \in DOMAIN kept |-> KeyValue(kept[k])]
    /\ Result("path") =>
          LET pieces == Pieces(SubSeq(job.input, 5, n), Slash)
          IN  /\ acc = SelectSeq(pieces, LAMBDA piece : piece # <<>>)
              /\ acc # <<>> => Pieces(Join(acc), Slash) = acc

Ascii(chars) == \A x \in DOMAIN chars : chars[x] < 128

\* Both decoders give back the characters that were encoded, main2.rs only
\* those of ASCII.  Encoded bytes that are no UTF-8 leave nothing in main.rs.  A
\* percent sign that encodes nothing stays as it is in main.rs, and in main2.rs
\* keeps the whole text from being decoded; but both decode it before a plus and
\* one digit ("signed"), and main.rs reads it as the byte 0 before two bytes that
\* are no UTF-8 ("raw"), even when it splits a character for that, which leaves
\* nothing again ("split").
Decoded ==
    Result("decode") =>
        LET chars == FlattenSeq([k \in 1..n |-> job.input[k].chars])
            bytes == FlattenSeq([k \in 1..n |-> job.input[k].bytes])
            has(kinds) == \E k \in 1..n : job.input[k].is \in kinds
        IN  /\ acc.percent = IF has({"broken", "split"}) THEN <<>> ELSE chars
            /\ has({"stray", "raw", "split"}) => acc.url = bytes
            /\ ~has({"stray", "raw", "split", "broken"}) /\ Ascii(chars)
                  => acc.url = chars

\* How JSON reads the inside of a string; -1 for what it does not allow.
ReadJson(s) ==
    LET from[k \in 1..Len(s) + 1] ==
            IF k > Len(s) THEN <<>>
            ELSE IF s[k] = Quote \/ s[k] < 32 THEN <<-1>>
            ELSE IF s[k] # Backslash THEN <<s[k]>> \o from[k + 1]
            ELSE IF k = Len(s) THEN <<-1>>
            ELSE <<IF s[k + 1] \in {Quote, Backslash} THEN s[k + 1]
                   ELSE CHOOSE c \in DOMAIN Short : Short[c] = s[k + 1]>>
                     \o from[k + 2]
    IN  from[1]

\* A control character that the echo has no escape for, and pushes as it is.
Bare(s) == \E k \in DOMAIN s : s[k] \in 0..31 \ DOMAIN Short

\* JSON reads this as s, and refuses it when s has a bare control character.
ReadsAs(json, s) ==
    IF Bare(s) THEN Contains(ReadJson(json), -1) ELSE ReadJson(json) = s

\* The echo reads as the parameters it was made of, and null for no value, but
\* for two kinds of text: a bare control character leaves no JSON, and the
\* backspaces and form feeds of a value are read at the end of its key.
EchoReads ==
    Result("echo") =>
        \A k \in 1..n :
            LET key == job.input[k][1]
                value == job.input[k][2]
                moved == SelectSeq(value, LAMBDA c : c \in {8, 12})
                kept == SelectSeq(value, LAMBDA c : c \notin {8, 12})
            IN  /\ ReadsAs(acc[k].key, key \o moved)
                /\ IF value = <<>> THEN acc[k].value = Null
                                   ELSE ReadsAs(acc[k].value, kept)

Value(char) == CHOOSE v \in 0..63 : Charset(v) = char

\* Four characters of base64 stand for three bytes, or fewer at the end.
Base64Decodes ==
    Result("base64") =>
        LET bits(g) == [d \in 1..4 |-> IF acc[4 * g - 4 + d] = EqualSign THEN 0
                                       ELSE Value(acc[4 * g - 4 + d])]
            triple(g) == FoldLeft(LAMBDA t, b : 64 * t + b, 0, bits(g))
            padded == Len(SelectSeq(acc, LAMBDA c : c = EqualSign))
        IN  /\ Len(acc) = 4 * ((n + 2) \div 3)
            /\ padded = (3 - (n % 3)) % 3
            /\ job.input = [k \in 1..n |->
                   (triple((k + 2) \div 3) \div 256^(2 - ((k - 1) % 3))) % 256]

\* The blocks that are hashed are the padded input of RFC 3174, for inputs of
\* any length modulo 64; the digests and the accept key of the RFCs come out.
Sha1Right ==
    Result("sha1") =>
        LET zeros == (55 - n) % 64
            bits == 8 * n
        IN  /\ FlattenSeq(acc.blocks) =
                  job.input \o <<128>> \o [k \in 1..zeros + 4 |-> 0]
                      \o [k \in 1..4 |-> (bits \div 256^(4 - k)) % 256]
            /\ \A v \in Vectors :
                  v.input = job.input => /\ Digest(acc.blocks) = v.digest
                                         /\ Accept(acc.blocks) = v.accept

\* What the routes of main.rs and main2.rs are given of a target is what it
\* says, and what main.rs echoes is what it was given, but for the texts that
\* Decoded and EchoReads name, whose outcome they state.
ParametersRead == SplitRight /\ Decoded /\ EchoReads

\* A client that asks for an upgrade is sent the key that it expects.
AcceptKeyRight == Base64Decodes /\ Sha1Right
=============================================================================
