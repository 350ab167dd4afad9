--------------------------- MODULE WsFrames_proofs ---------------------------
(***************************************************************************)
(* Theorems about WsFrames, for each of the three programs and any frames  *)
(* that a client may send.                                                 *)
(***************************************************************************)
EXTENDS WsFrames, DataLemmas

-----------------------------------------------------------------------------
(* The codec.                                                              *)

\* The lengths that the field of four bytes, and that of two, has room for.
Lengths == {n \in Nat : n < 4294967296}
ShortLengths == {n \in Nat : n < 65536}

Digit(n, i) == (n \div Weight[i]) % 256

LEMMA Digits ==
    ASSUME NEW n \in Lengths
    PROVE  /\ \A i \in 1..4 : Digit(n, i) \in Nat
           /\ n \in ShortLengths => 256 * Digit(n, 2) + Digit(n, 1) = n
           /\ 256 * (256 * (256 * Digit(n, 4) + Digit(n, 3)) + Digit(n, 2)) + Digit(n, 1) = n
<1>1. /\ Digit(n, 1) = n % 256
      /\ Digit(n, 2) = (n \div 256) % 256
      /\ Digit(n, 3) = (n \div 65536) % 256
      /\ Digit(n, 4) = (n \div 16777216) % 256
  BY SMT DEF Digit, Weight, Lengths
<1>2. \A i \in 1..4 : Digit(n, i) \in Nat
  BY SMT, <1>1 DEF Lengths
<1>3. n \in ShortLengths => 256 * Digit(n, 2) + Digit(n, 1) = n
  BY SMT, <1>1 DEF ShortLengths
<1>4. 256 * (256 * (256 * Digit(n, 4) + Digit(n, 3)) + Digit(n, 2)) + Digit(n, 1) = n
  <2>1. n \in Nat /\ n = 256 * (n \div 256) + (n % 256)
    BY SMT DEF Lengths
  <2>2. n \div 256 = 256 * (n \div 65536) + ((n \div 256) % 256)
    BY SMT DEF Lengths
  <2>3. n \div 65536 = 256 * (n \div 16777216) + ((n \div 65536) % 256)
    BY SMT DEF Lengths
  <2>4. n \div 16777216 = (n \div 16777216) % 256
    BY SMT DEF Lengths
  <2>5. n \div 65536 = 256 * Digit(n, 4) + Digit(n, 3)
    BY SMT, <1>1, <2>3, <2>4
  <2>6. n \div 256 = 256 * (n \div 65536) + Digit(n, 2)
    BY SMT, <1>1, <2>2
  <2>7. n = 256 * (n \div 256) + Digit(n, 1)
    BY SMT, <1>1, <2>1
  <2> QED
    BY <2>5, <2>6, <2>7
<1> QED
  BY <1>2, <1>3, <1>4

LEMMA TwoBytes ==
    ASSUME NEW n \in Lengths, n \in ShortLengths
    PROVE  FromBigEndian(BigEndian(n, 2)) = n
<1> DEFINE s == Append(<<>>, Digit(n, 2))
<1>1. /\ Digit(n, 1) \in Nat /\ Digit(n, 2) \in Nat
      /\ 256 * Digit(n, 2) + Digit(n, 1) = n
  BY Digits
<1>2. BigEndian(n, 2) = Append(s, Digit(n, 1))
  <2>1. BigEndian(n, 2) = [i \in 1..2 |-> Digit(n, 3 - i)]
    BY SMT DEF BigEndian, Digit
  <2>2. [i \in 1..2 |-> Digit(n, 3 - i)] = Append(s, Digit(n, 1))
    BY SMT, <1>1
  <2> QED
    BY <2>1, <2>2
<1>3. <<>> \in Seq(Nat) /\ s \in Seq(Nat) /\ 256 \in Nat
  BY <1>1
<1>4. Horner(256, s) = Digit(n, 2)
  BY <1>1, <1>3, HornerOne
<1> HIDE DEF s
<1>5. Horner(256, Append(s, Digit(n, 1))) = 256 * Horner(256, s) + Digit(n, 1)
  BY <1>1, <1>3, HornerAppend
<1> QED
  BY <1>1, <1>2, <1>4, <1>5, Zenon DEF FromBigEndian

LEMMA FourBytes ==
    ASSUME NEW n \in Lengths
    PROVE  FromBigEndian(BigEndian(n, 4)) = n
<1> DEFINE s == Append(<<>>, Digit(n, 4))
           t == Append(s, Digit(n, 3))
           u == Append(t, Digit(n, 2))
<1>1. /\ Digit(n, 1) \in Nat /\ Digit(n, 2) \in Nat
      /\ Digit(n, 3) \in Nat /\ Digit(n, 4) \in Nat
      /\ 256 * (256 * (256 * Digit(n, 4) + Digit(n, 3)) + Digit(n, 2)) + Digit(n, 1) = n
  BY Digits
<1>2. BigEndian(n, 4) = Append(u, Digit(n, 1))
  <2>1. BigEndian(n, 4) = [i \in 1..4 |-> Digit(n, 5 - i)]
    BY SMT DEF BigEndian, Digit
  <2>2. [i \in 1..4 |-> Digit(n, 5 - i)] = Append(u, Digit(n, 1))
    BY SMT, <1>1
  <2> QED
    BY <2>1, <2>2
<1>3. <<>> \in Seq(Nat) /\ s \in Seq(Nat) /\ t \in Seq(Nat) /\ u \in Seq(Nat) /\ 256 \in Nat
  BY <1>1
<1>4. Horner(256, s) = Digit(n, 4)
  BY <1>1, <1>3, HornerOne
<1> HIDE DEF s
<1>5. Horner(256, t) = 256 * Horner(256, s) + Digit(n, 3)
  BY <1>1, <1>3, HornerAppend
<1> HIDE DEF t
<1>6. Horner(256, u) = 256 * Horner(256, t) + Digit(n, 2)
  BY <1>1, <1>3, HornerAppend
<1> HIDE DEF u
<1>7. Horner(256, Append(u, Digit(n, 1))) = 256 * Horner(256, u) + Digit(n, 1)
  BY <1>1, <1>3, HornerAppend
<1>8. Horner(256, Append(u, Digit(n, 1))) =
          256 * (256 * (256 * Digit(n, 4) + Digit(n, 3)) + Digit(n, 2)) + Digit(n, 1)
  <2>1. Horner(256, t) = 256 * Digit(n, 4) + Digit(n, 3)
    BY <1>4, <1>5, Zenon
  <2>2. Horner(256, u) = 256 * (256 * Digit(n, 4) + Digit(n, 3)) + Digit(n, 2)
    BY <1>6, <2>1, Zenon
  <2> QED
    BY <1>7, <2>2, Zenon
<1>9. Horner(256, Append(u, Digit(n, 1))) = n
  BY <1>1, <1>8, Zenon
<1> QED
  BY <1>2, <1>9, Zenon DEF FromBigEndian

\* What parse reads is what serialize was given, for all three length fields
\* and every length of up to four bytes.
THEOREM CodecRoundTrip ==
    ASSUME NEW opcode, NEW fin, NEW len \in Lengths
    PROVE  Parse(Serialize(opcode, fin, len)) =
               [opcode |-> opcode, fin |-> fin, len |-> len]
<1>1. CASE len <= 125
  <2>1. Serialize(opcode, fin, len) =
            [opcode |-> opcode, fin |-> fin, field |-> len, extended |-> <<>>]
    BY SMT, <1>1 DEF Serialize
  <2>2. len \notin {126, 127}
    BY SMT, <1>1 DEF Lengths
  <2> QED
    BY <2>1, <2>2 DEF Parse
<1>2. CASE len > 125 /\ len \in ShortLengths
  <2>1. Serialize(opcode, fin, len) =
            [opcode |-> opcode, fin |-> fin, field |-> 126, extended |-> BigEndian(len, 2)]
    BY SMT, <1>2 DEF Serialize, ShortLengths
  <2>2. FromBigEndian(BigEndian(len, 2)) = len
    BY <1>2, TwoBytes
  <2> QED
    BY <2>1, <2>2 DEF Parse
<1>3. CASE len > 125 /\ len \notin ShortLengths
  <2>1. Serialize(opcode, fin, len) =
            [opcode |-> opcode, fin |-> fin, field |-> 127, extended |-> BigEndian(len, 4)]
    BY SMT, <1>3 DEF Serialize, ShortLengths, Lengths
  <2>2. FromBigEndian(BigEndian(len, 4)) = len
    BY FourBytes
  <2> QED
    BY <2>1, <2>2 DEF Parse
<1> QED
  BY SMT, <1>1, <1>2, <1>3 DEF Lengths

-----------------------------------------------------------------------------
(* Where frames begin.                                                     *)

LEMMA SizeType ==
    ASSUME NEW f \in Frame
    PROVE  Size(f) \in Nat /\ HeaderSize(f) \in Nat /\ Size(f) >= 6 + f.len /\ f.len \in Nat
  BY DEF Frame, Size, HeaderSize

LEMMA AfterSteps ==
    ASSUME frames \in Seq(Frame)
    PROVE  /\ After(0) = 0
           /\ \A k \in 0..Len(frames) : After(k) \in Nat
           /\ \A k \in 1..Len(frames) : After(k) = After(k - 1) + Size(frames[k])
<1> DEFINE S(k) == [i \in 1..k |-> Size(frames[i])]
<1>1. \A k \in 0..Len(frames) : S(k) \in Seq(Nat)
  <2>1. \A i \in 1..Len(frames) : Size(frames[i]) \in Nat
    BY SizeType
  <2> QED
    BY <2>1
<1>2. S(0) = <<>>
  OBVIOUS
<1>3. \A k \in 1..Len(frames) : S(k) = Append(S(k - 1), Size(frames[k]))
  <2> TAKE k \in 1..Len(frames)
  <2>1. k - 1 \in 0..Len(frames) /\ Len(S(k - 1)) = k - 1
    OBVIOUS
  <2>2. Append(S(k - 1), Size(frames[k])) =
            [i \in 1..(k - 1) + 1 |-> IF i = (k - 1) + 1 THEN Size(frames[k]) ELSE S(k - 1)[i]]
    BY <1>1, <2>1
  <2>3. \A i \in 1..k : S(k)[i] = IF i = k THEN Size(frames[k]) ELSE S(k - 1)[i]
    OBVIOUS
  <2> QED
    BY <2>2, <2>3
<1>4. \A k : After(k) = Horner(1, S(k))
  BY Zenon DEF After
<1> HIDE DEF S
<1>5. \A k \in 0..Len(frames) : After(k) \in Nat
  <2> TAKE k \in 0..Len(frames)
  <2>1. Horner(1, S(k)) \in Nat
    BY <1>1, HornerAppend
  <2> QED
    BY <1>4, <2>1
<1>6. After(0) = 0
  BY <1>2, <1>4, HornerEmpty
<1>7. \A k \in 1..Len(frames) : After(k) = After(k - 1) + Size(frames[k])
  <2> TAKE k \in 1..Len(frames)
  <2>1. k - 1 \in 0..Len(frames) /\ S(k - 1) \in Seq(Nat) /\ Size(frames[k]) \in Nat
    BY <1>1, SizeType
  <2>2. Horner(1, Append(S(k - 1), Size(frames[k]))) = 1 * Horner(1, S(k - 1)) + Size(frames[k])
    BY <2>1, HornerAppend
  <2>3. After(k - 1) \in Nat /\ After(k - 1) = Horner(1, S(k - 1))
    BY <1>4, <1>5, <2>1
  <2>4. After(k) = Horner(1, Append(S(k - 1), Size(frames[k])))
    BY <1>3, <1>4, Zenon
  <2>5. After(k) = 1 * After(k - 1) + Size(frames[k])
    BY <2>2, <2>3, <2>4, Zenon
  <2> QED
    BY <2>1, <2>3, <2>5
<1> QED
  BY <1>5, <1>6, <1>7

LEMMA BordersGrow ==
    ASSUME frames \in Seq(Frame)
    PROVE  \A j, k \in 0..Len(frames) : j < k => After(j) + 6 <= After(k)
<1> DEFINE n == Len(frames)
    T == {k \in 0..n : \A j \in 0..n : j < k => After(j) + 6 <= After(k)}
<1>1. n \in Nat /\ \A k \in 1..n : frames[k] \in Frame
  OBVIOUS
<1>2. 0 \in T
  OBVIOUS
<1>3. ASSUME NEW k \in 1..n, k - 1 \in T PROVE k \in T
  <2> SUFFICES ASSUME NEW j \in 0..n, j < k PROVE After(j) + 6 <= After(k)
    OBVIOUS
  <2>1. /\ After(k) = After(k - 1) + Size(frames[k])
        /\ After(k - 1) \in Nat /\ After(j) \in Nat
    BY <1>1, AfterSteps
  <2>2. Size(frames[k]) \in Nat /\ Size(frames[k]) >= 6
    BY <1>1, SizeType
  <2>3. j = k - 1 \/ j < k - 1
    BY <1>1
  <2>4. After(j) <= After(k - 1)
    BY <1>3, <2>1, <2>3
  <2> QED
    BY <2>1, <2>2, <2>4
<1>4. 0..n \subseteq T
  <2> HIDE DEF T, n
  <2> QED
    BY <1>1, <1>2, <1>3, BoundedInduction
<1> QED
  BY <1>4

\* The frame in front.
LEMMA CurrentIs ==
    ASSUME frames \in Seq(Frame), NEW j \in 0..Len(frames), base = After(j), base < Total
    PROVE  Current = j + 1 /\ Current \in DOMAIN frames
<1>1. j # Len(frames)
  BY AfterSteps DEF Total
<1>2. j + 1 \in DOMAIN frames /\ After((j + 1) - 1) = base
  BY <1>1
<1>3. ASSUME NEW k \in DOMAIN frames, After(k - 1) = base PROVE k = j + 1
  <2>1. k - 1 \in 0..Len(frames) /\ k \in Nat /\ j \in Nat
    OBVIOUS
  <2>2. After(k - 1) \in Nat /\ After(j) \in Nat
    BY <2>1, AfterSteps
  <2>3. ~(k - 1 < j) /\ ~(j < k - 1)
    BY <1>3, <2>1, <2>2, BordersGrow
  <2> QED
    BY <2>1, <2>3
<1> QED
  BY <1>2, <1>3 DEF Current

-----------------------------------------------------------------------------
(* Types.  A handler that parses has a frame in front.                     *)

Heads == {Serialize(opcode, fin, len) : opcode \in Opcodes, fin \in BOOLEAN, len \in Nat}
Entries == [for : Nat, head : Heads]
Typed == TypeOK /\ out \in Seq(Entries)

LEMMA Known ==
    ASSUME Typed
    PROVE  /\ frames \in Seq(Frame) /\ Len(frames) \in Nat
           /\ DOMAIN frames = 1..Len(frames)
           /\ Total \in Nat /\ Cap \in Nat /\ Cap <= 8192
           /\ sent \in Nat /\ filled \in Nat /\ base \in Nat /\ start \in Nat
           /\ start <= base /\ base <= filled /\ filled <= sent /\ sent <= Total
           /\ filled <= start + Cap
           /\ impl \in {"rs", "cc", "zig"}
<1>1. frames \in Seq(Frame) /\ impl \in {"rs", "cc", "zig"}
  BY FramesAssumption DEF Typed, TypeOK
<1>2. Len(frames) \in Nat /\ DOMAIN frames = 1..Len(frames)
  BY <1>1
<1>3. Total \in Nat
  BY <1>1, <1>2, AfterSteps DEF Total
<1>4. Cap \in Nat /\ Cap <= 8192
  BY DEF Cap
<1>5. /\ sent \in 0..Total /\ filled \in 0..sent /\ base \in 0..filled
      /\ start \in 0..base /\ filled - start <= Cap
  BY DEF Typed, TypeOK, Used
<1>6. /\ sent \in Nat /\ filled \in Nat /\ base \in Nat /\ start \in Nat
      /\ start <= base /\ base <= filled /\ filled <= sent /\ sent <= Total
  BY <1>3, <1>5
<1>7. filled <= start + Cap
  BY <1>4, <1>5, <1>6
<1> QED
  BY <1>1, <1>2, <1>3, <1>4, <1>6, <1>7

LEMMA InFront ==
    ASSUME Typed, AtBorder(base), base < filled
    PROVE  /\ Current \in DOMAIN frames /\ Current \in 1..Len(frames)
           /\ Current - 1 \in 0..Len(frames)
           /\ frames[Current] \in Frame
           /\ After(Current - 1) = base
           /\ After(Current) = base + Size(frames[Current])
           /\ After(Current) \in Nat /\ After(Current) > base
<1>1. PICK j \in 0..Len(frames) : After(j) = base
  BY DEF AtBorder
<1>2. base < Total
  BY Known
<1>3. Current = j + 1 /\ Current \in DOMAIN frames
  BY <1>1, <1>2, Known, CurrentIs
<1>4. Current \in 1..Len(frames) /\ Current - 1 = j /\ frames[Current] \in Frame
  BY <1>1, <1>3, Known
<1>5. After(Current) = base + Size(frames[Current]) /\ After(Current) \in Nat
  BY <1>1, <1>4, Known, AfterSteps
<1>6. Size(frames[Current]) \in Nat /\ Size(frames[Current]) >= 6
  BY <1>4, SizeType
<1>7. base \in Nat
  BY Known
<1> QED
  BY <1>1, <1>3, <1>4, <1>5, <1>6, <1>7

\* What is parsed has arrived, and is short enough for the codec.
LEMMA Arrived ==
    ASSUME Typed, AtBorder(base), Whole
    PROVE  /\ After(Current) <= filled
           /\ frames[Current].len \in Lengths
<1>1. base < filled /\ filled - base >= Size(frames[Current])
  BY DEF Whole
<1>2. /\ frames[Current] \in Frame /\ After(Current) = base + Size(frames[Current])
      /\ filled \in Nat /\ base \in Nat /\ start \in Nat
      /\ start <= base /\ filled <= start + 8192
  BY <1>1, InFront, Known
<1>3. /\ Size(frames[Current]) \in Nat /\ frames[Current].len \in Nat
      /\ Size(frames[Current]) >= 6 + frames[Current].len
  BY <1>2, SizeType
<1>4. After(Current) <= filled /\ frames[Current].len < 8192
  BY <1>1, <1>2, <1>3
<1> QED
  BY SMT, <1>3, <1>4 DEF Lengths

LEMMA AnswersKnown ==
    ASSUME Typed, NEW i \in DOMAIN out
    PROVE  /\ out[i].for \in 1..Len(frames) /\ out[i].for \in 0..Len(frames)
           /\ After(out[i].for) \in Nat
<1>1. out[i].for \in DOMAIN frames
  BY DEF Typed, TypeOK
<1>2. PICK k \in 1..Len(frames) : k = out[i].for
  BY <1>1, Known
<1>3. k \in 0..Len(frames)
  BY Known
<1>4. After(k) \in Nat
  BY <1>3, Known, AfterSteps
<1> QED
  BY <1>2, <1>3, <1>4

\* What depends on the program and the client's frames only.
LEMMA SameFrames ==
    ASSUME UNCHANGED input
    PROVE  /\ impl' = impl /\ frames' = frames /\ Total' = Total /\ Cap' = Cap
           /\ \A k : After(k)' = After(k) /\ (IsClose(k)' <=> IsClose(k))
           /\ \A k : Expects(k)' <=> Expects(k)
           /\ \A p : AtBorder(p)' <=> AtBorder(p)
           /\ \A head, f : Copies(head, f)' <=> Copies(head, f)
<1>1. impl' = impl /\ frames' = frames
  BY DEF input
<1>2. \A k : After(k)' = After(k)
  BY <1>1, Zenon DEF After
<1>3. \A k : IsClose(k)' <=> IsClose(k)
  BY <1>1, Zenon DEF IsClose
<1>4. \A k : Expects(k)' <=> Expects(k)
  BY <1>1, <1>3, Zenon DEF Expects
<1>5. \A p : AtBorder(p)' <=> AtBorder(p)
  BY <1>1, <1>2, Zenon DEF AtBorder
<1>6. \A head, f : Copies(head, f)' <=> Copies(head, f)
  BY <1>1, Zenon DEF Copies
<1>7. Total' = Total
  BY <1>1, Zenon DEF Total, After
<1>8. Cap' = Cap
  BY SMT, <1>1 DEF Cap
<1> QED
  BY <1>1, <1>2, <1>3, <1>4, <1>5, <1>6, <1>7, <1>8

LEMMA TypeInit == Init => Typed
<1> SUFFICES ASSUME Init PROVE Typed
  OBVIOUS
<1>1. frames \in Seq(Frame)
  BY FramesAssumption DEF Init
<1>2. Len(frames) \in Nat /\ Total \in Nat
  BY <1>1, AfterSteps DEF Total
<1>3. Cap \in Nat
  BY DEF Cap
<1>4. sent \in 0..Total /\ filled \in 0..sent /\ base \in 0..filled /\ start \in 0..base
  BY <1>2 DEF Init
<1>5. Used <= Cap
  BY <1>3 DEF Init, Used
<1>6. out \in Seq(Entries) /\ \A i \in DOMAIN out : out[i].for \in DOMAIN frames
  BY DEF Init
<1> QED
  BY <1>4, <1>5, <1>6 DEF Init, Typed, TypeOK

LEMMA EntryType ==
    ASSUME NEW k \in Nat, NEW opcode \in Opcodes, NEW fin \in BOOLEAN, NEW len \in Nat
    PROVE  [for |-> k, head |-> Serialize(opcode, fin, len)] \in Entries
  BY DEF Entries, Heads

\* Nothing is written, or one frame for the one in front.
LEMMA OutType ==
    ASSUME Typed, UNCHANGED input,
           \/ UNCHANGED out
           \/ /\ Current \in DOMAIN frames
              /\ \E opcode \in Opcodes, fin \in BOOLEAN, len \in Nat : Write(opcode, fin, len)
    PROVE  /\ out' \in Seq(Entries)
           /\ \A i \in DOMAIN out' : out'[i].for \in DOMAIN frames'
<1>1. frames' = frames /\ DOMAIN frames \in SUBSET Nat
  BY Known, SameFrames
<1>2. out \in Seq(Entries) /\ \A i \in DOMAIN out : out[i].for \in DOMAIN frames
  BY DEF Typed, TypeOK
<1>3. CASE UNCHANGED out
  BY <1>1, <1>2, <1>3
<1>4. ASSUME Current \in DOMAIN frames,
             NEW opcode \in Opcodes, NEW fin \in BOOLEAN, NEW len \in Nat,
             Write(opcode, fin, len)
      PROVE  /\ out' \in Seq(Entries)
             /\ \A i \in DOMAIN out' : out'[i].for \in DOMAIN frames'
  <2> DEFINE e == [for |-> Current, head |-> Serialize(opcode, fin, len)]
  <2>1. e \in Entries /\ e.for = Current
    BY <1>1, <1>4, EntryType
  <2>2. out' = Append(out, e)
    BY <1>4 DEF Write
  <2> HIDE DEF e
  <2> QED
    BY <1>1, <1>2, <1>4, <2>1, <2>2
<1> QED
  BY <1>3, <1>4

LEMMA ReadFills ==
    ASSUME Typed, Read
    PROVE  filled' \in Nat /\ filled <= filled' /\ filled' <= sent /\ filled' <= start + Cap
<1> DEFINE S == {sent, start + Cap}
<1>1. S \in SUBSET Nat /\ S # {} /\ filled' = Min(S)
  BY Known DEF Read
<1>2. Min(S) \in S /\ \A x \in S : Min(S) <= x
  <2> HIDE DEF S
  <2> QED
    BY <1>1, MinIsLeast
<1>3. filled <= sent /\ filled <= start + Cap
  BY Known
<1>4. filled' \in {sent, start + Cap} /\ filled' <= sent /\ filled' <= start + Cap
  BY <1>1, <1>2
<1> QED
  BY <1>1, <1>3, <1>4

\* The types are kept when positions move as they may.
LEMMA TypeStep ==
    ASSUME Typed, UNCHANGED input, gone' \in BOOLEAN,
           sent' \in Nat, filled' \in Nat, base' \in Nat, start' \in Nat,
           start' <= base', base' <= filled', filled' <= sent', sent' <= Total,
           filled' <= start' + Cap,
           pc' \in {"read", "parse", "adrift", "closed", "aborted"},
           \/ UNCHANGED out
           \/ /\ Current \in DOMAIN frames
              /\ \E opcode \in Opcodes, fin \in BOOLEAN, len \in Nat : Write(opcode, fin, len)
    PROVE  Typed'
<1>1. out' \in Seq(Entries) /\ \A i \in DOMAIN out' : out'[i].for \in DOMAIN frames'
  BY OutType
<1>2. impl' \in Impls /\ frames' \in Scripts /\ Total' = Total /\ Cap' = Cap
  BY SameFrames DEF Typed, TypeOK
<1>3. Total \in Nat /\ Cap \in Nat
  BY Known
<1>4. /\ sent' \in 0..Total' /\ filled' \in 0..sent'
      /\ base' \in 0..filled' /\ start' \in 0..base'
  BY <1>2, <1>3
<1>5. filled' - start' <= Cap
  <2>1. PICK c \in Nat : c = Cap
    BY <1>3
  <2>2. \A x, y \in Nat : x <= y + c => x - y <= c
    OBVIOUS
  <2>3. filled' <= start' + c
    BY <2>1
  <2> QED
    BY <2>1, <2>2, <2>3
<1>6. Used' <= Cap'
  BY <1>2, <1>5, Zenon DEF Used
<1> QED
  BY <1>1, <1>2, <1>4, <1>6 DEF Typed, TypeOK

LEMMA TypeNext ==
    ASSUME Typed, AtBorders, [Next]_vars
    PROVE  Typed'
<1>1. /\ Total \in Nat /\ Cap \in Nat
      /\ sent \in Nat /\ filled \in Nat /\ base \in Nat /\ start \in Nat
      /\ start <= base /\ base <= filled /\ filled <= sent /\ sent <= Total
      /\ filled <= start + Cap
      /\ gone \in BOOLEAN /\ pc \in {"read", "parse", "adrift", "closed", "aborted"}
  BY Known DEF Typed, TypeOK
<1>2. CASE UNCHANGED vars
  BY <1>1, <1>2, TypeStep DEF vars
<1>3. CASE Arrive
  <2>1. sent' \in Nat /\ sent < sent' /\ sent' <= Total
    <3>1. \A k \in DOMAIN frames : After(k - 1) \in Nat /\ After(k) \in Nat /\ After(k) > 0
      <4> TAKE k \in DOMAIN frames
      <4>1. k \in 1..Len(frames) /\ k - 1 \in 0..Len(frames) /\ frames[k] \in Frame
        BY Known
      <4>2. After(k - 1) \in Nat /\ After(k) \in Nat /\ After(k) = After(k - 1) + Size(frames[k])
        BY <4>1, Known, AfterSteps
      <4>3. Size(frames[k]) \in Nat /\ Size(frames[k]) >= 6
        BY <4>1, SizeType
      <4> QED
        BY <4>2, <4>3
    <3>2. Cuts \subseteq Nat
      BY <3>1 DEF Cuts
    <3> QED
      BY <1>3, <3>2 DEF Arrive
  <2>2. UNCHANGED <<input, gone, start, base, filled, pc, out>> /\ filled <= sent'
    BY <1>1, <1>3, <2>1 DEF Arrive
  <2> QED
    BY <1>1, <2>1, <2>2, TypeStep
<1>4. CASE ClientClose
  BY <1>1, <1>4, TypeStep DEF ClientClose
<1>5. CASE Read
  BY <1>1, <1>5, ReadFills, TypeStep DEF Read
<1>6. CASE ReadNothing \/ ReadSkipped \/ Overrun \/ Drift \/ LeaveAdrift \/ Await
  BY <1>1, <1>6, TypeStep DEF ReadNothing, ReadSkipped, Overrun, Drift, LeaveAdrift, Await
<1>7. CASE Shift
  <2>1. filled <= base + Cap
    BY <1>1
  <2> QED
    BY <1>1, <1>7, <2>1, TypeStep DEF Shift
<1>8. ASSUME pc = "parse", base < filled
      PROVE  Current \in DOMAIN frames /\ frames[Current].opcode \in Opcodes
             /\ frames[Current].fin \in BOOLEAN /\ frames[Current].len \in Nat
             /\ base <= After(Current) /\ After(Current) \in Nat
  <2>1. AtBorder(base)
    BY <1>8 DEF AtBorders
  <2>2. Current \in DOMAIN frames /\ frames[Current] \in Frame
        /\ After(Current) \in Nat /\ After(Current) > base
    BY <1>8, <2>1, InFront
  <2> QED
    BY <1>1, <2>2 DEF Frame
<1>9. ASSUME NEW opcodes, Parses(opcodes) PROVE base < filled /\ pc = "parse" /\ Whole
  BY <1>9 DEF Parses, Whole
<1>10. ASSUME NEW next, Take(next), pc = "parse", Whole
       PROVE  /\ UNCHANGED <<input, sent, gone, start, filled>> /\ pc' = next
              /\ base' \in Nat /\ start' <= base' /\ base' <= filled'
  <2>1. After(Current) <= filled /\ base <= After(Current) /\ After(Current) \in Nat
    BY <1>8, <1>10, Arrived DEF AtBorders, Whole
  <2> QED
    BY <1>1, <1>10, <2>1 DEF Take
<1>11. CASE Broadcast \/ Pong \/ Ignore
  <2>1. pc = "parse" /\ Whole /\ Take("parse")
    BY <1>9, <1>11 DEF Broadcast, Pong, Ignore
  <2>2. \/ UNCHANGED out
        \/ \E opcode \in Opcodes, fin \in BOOLEAN, len \in Nat : Write(opcode, fin, len)
    <3>1. CASE Broadcast
      <4>1. WriteText(frames[Current])
        BY <3>1 DEF Broadcast
      <4>2. (IF impl = "zig" THEN "text" ELSE frames[Current].opcode) \in Opcodes
            /\ (frames[Current].fin \/ impl # "rs") \in BOOLEAN /\ frames[Current].len \in Nat
        BY <1>8, <1>9, <2>1 DEF Whole, Opcodes
      <4> QED
        BY <4>1, <4>2 DEF WriteText
    <3>2. CASE Pong
      <4>1. Write("pong", TRUE, frames[Current].len)
        BY <3>2 DEF Pong
      <4>2. "pong" \in Opcodes /\ TRUE \in BOOLEAN /\ frames[Current].len \in Nat
        BY <1>8, <2>1 DEF Whole, Opcodes
      <4> QED
        BY <4>1, <4>2
    <3>3. CASE Ignore
      BY <3>3 DEF Ignore
    <3> QED
      BY <1>11, <3>1, <3>2, <3>3
  <2>3. Current \in DOMAIN frames
    BY <1>8, <2>1 DEF Whole
  <2> QED
    BY <1>1, <1>10, <2>1, <2>2, <2>3, TypeStep
<1>12. ASSUME NEW len \in Nat, Write("close", TRUE, len), pc = "parse", base < filled
       PROVE  /\ Current \in DOMAIN frames
              /\ \E opcode \in Opcodes, fin \in BOOLEAN, n \in Nat : Write(opcode, fin, n)
  <2>1. "close" \in Opcodes /\ TRUE \in BOOLEAN
    BY DEF Opcodes
  <2> QED
    BY <1>8, <1>12, <2>1
<1>13. CASE Close \/ Unsupported
  <2>1. /\ pc = "parse" /\ Whole /\ base < filled /\ Take("closed")
        /\ Write("close", TRUE, 2) \/ Write("close", TRUE, 29)
    BY <1>9, <1>13 DEF Close, Unsupported
  <2>2. /\ Current \in DOMAIN frames
        /\ \E opcode \in Opcodes, fin \in BOOLEAN, n \in Nat : Write(opcode, fin, n)
    BY <1>12, <2>1
  <2> QED
    BY <1>1, <1>10, <2>1, <2>2, TypeStep
<1>14. CASE CloseRs
  <2>1. pc = "parse" /\ base < filled /\ Write("close", TRUE, 0)
    BY <1>9, <1>14 DEF CloseRs
  <2>2. /\ Current \in DOMAIN frames
        /\ \E opcode \in Opcodes, fin \in BOOLEAN, n \in Nat : Write(opcode, fin, n)
    BY <1>12, <2>1
  <2>3. /\ base' = filled /\ start' = filled /\ filled' = filled
        /\ UNCHANGED <<input, sent, gone>> /\ pc' \in {"read", "adrift"}
        /\ filled <= filled + Cap
    BY <1>1, <1>14 DEF CloseRs
  <2> QED
    BY <1>1, <2>2, <2>3, TypeStep
<1>15. CASE CloseZig
  <2>1. pc = "parse" /\ base < filled /\ Write("close", TRUE, 0)
    BY <1>9, <1>15 DEF CloseZig
  <2>2. /\ Current \in DOMAIN frames
        /\ \E opcode \in Opcodes, fin \in BOOLEAN, n \in Nat : Write(opcode, fin, n)
    BY <1>12, <2>1
  <2>3. /\ start' = base /\ pc' = "read" /\ UNCHANGED <<input, sent, gone, base, filled>>
        /\ filled <= base + Cap
    BY <1>1, <1>15 DEF CloseZig
  <2> QED
    BY <1>1, <2>2, <2>3, TypeStep
<1>16. CASE Malformed
  <2>1. pc = "parse" /\ base < filled /\ Write("close", TRUE, 16)
    BY <1>16 DEF Malformed, Partial
  <2>2. /\ Current \in DOMAIN frames
        /\ \E opcode \in Opcodes, fin \in BOOLEAN, n \in Nat : Write(opcode, fin, n)
    BY <1>12, <2>1
  <2>3. pc' = "closed" /\ UNCHANGED <<input, sent, gone, start, base, filled>>
    BY <1>16 DEF Malformed
  <2> QED
    BY <1>1, <2>2, <2>3, TypeStep
<1> QED
  BY <1>2, <1>3, <1>4, <1>5, <1>6, <1>7, <1>11, <1>13, <1>14, <1>15, <1>16
     DEF Next, Handler

-----------------------------------------------------------------------------
(***************************************************************************)
(* Parsing stays in step.  InStep says nothing of what is still to come:   *)
(* the next frame to be answered has to come after all that were, but for  *)
(* the Close that zig leaves in front and answers again.                   *)
(***************************************************************************)
Past ==
    pc \in {"read", "parse"} => \A i \in DOMAIN out :
        \/ After(out[i].for) <= base
        \/ impl = "zig" /\ IsClose(out[i].for) /\ After(out[i].for - 1) = base

StepInv == InStep /\ Past

LEMMA StepInvInit == Init => StepInv
<1> SUFFICES ASSUME Init PROVE StepInv
  OBVIOUS
<1>1. frames \in Seq(Frame)
  BY FramesAssumption DEF Init
<1>2. Len(frames) \in Nat /\ After(0) = 0 /\ DOMAIN frames = 1..Len(frames)
  BY <1>1, AfterSteps
<1>3. base = 0 /\ pc = "read" /\ DOMAIN out = {}
  BY DEF Init
<1>4. AtBorder(base)
  BY <1>2, <1>3 DEF AtBorder
<1>5. AtBorders
  BY <1>3, <1>4 DEF AtBorders
<1>6. InOrder /\ Copied /\ Past
  BY <1>3 DEF InOrder, Copied, Past
<1>7. Complete
  <2> SUFFICES ASSUME NEW k \in DOMAIN frames, After(k) <= base PROVE FALSE
    BY DEF Complete
  <2>1. k \in 0..Len(frames) /\ 0 \in 0..Len(frames) /\ 0 < k
    BY <1>2
  <2>2. After(0) + 6 <= After(k) /\ After(k) \in Nat
    BY <1>1, <2>1, AfterSteps, BordersGrow
  <2> QED
    BY <1>2, <1>3, <2>2
<1> QED
  BY <1>5, <1>6, <1>7 DEF StepInv, InStep

\* A step that writes and parses nothing.
LEMMA QuietStep ==
    ASSUME StepInv, UNCHANGED <<input, base, out>>,
           pc' \in {"read", "parse"} => pc \in {"read", "parse"},
           pc' = "adrift" => pc = "adrift" \/ impl = "zig"
    PROVE  StepInv'
<1>1. /\ impl' = impl /\ frames' = frames /\ base' = base /\ out' = out
      /\ \A k : After(k)' = After(k) /\ (IsClose(k)' <=> IsClose(k))
      /\ \A k : Expects(k)' <=> Expects(k)
      /\ \A p : AtBorder(p)' <=> AtBorder(p)
      /\ \A head, f : Copies(head, f)' <=> Copies(head, f)
  BY SameFrames
<1>2. AtBorders /\ InOrder /\ Complete /\ Copied /\ Past
  BY DEF StepInv, InStep
<1>3. AtBorder(base)' <=> AtBorder(base)
  BY <1>1, Zenon DEF AtBorder
<1>4. \A k : Answered(k)' <=> Answered(k)
  BY <1>1, Zenon DEF Answered
<1>5. AtBorders'
  BY <1>1, <1>2, <1>3, <1>4 DEF AtBorders
<1>6. InOrder'
  BY <1>1, <1>2, Zenon DEF InOrder, IsClose
<1>7. Complete'
  BY <1>1, <1>2, <1>4, Zenon DEF Complete
<1>8. Copied'
  BY <1>1, <1>2, Zenon DEF Copied, Copies
<1>9. Past'
  BY <1>1, <1>2, Zenon DEF Past, After, IsClose
<1> QED
  BY <1>5, <1>6, <1>7, <1>8, <1>9 DEF StepInv, InStep

\* What was answered comes before the frame in front, or is a Close there.
LEMMA Earlier ==
    ASSUME Typed, StepInv, pc = "parse", base < filled, NEW i \in DOMAIN out
    PROVE  \/ out[i].for < Current /\ After(out[i].for) <= base
           \/ impl = "zig" /\ out[i].for = Current /\ IsClose(Current)
<1> DEFINE k == out[i].for
<1>1. k \in 1..Len(frames) /\ k - 1 \in 0..Len(frames) /\ k \in 0..Len(frames)
  BY AnswersKnown, Known
<1>2. AtBorder(base)
  BY DEF StepInv, InStep, AtBorders
<1>3. /\ Current \in 1..Len(frames) /\ Current \in 0..Len(frames)
      /\ After(Current) \in Nat /\ After(Current) > base
  BY <1>2, InFront, Known
<1>4. After(k) \in Nat /\ base \in Nat /\ Len(frames) \in Nat
  BY <1>1, Known, AfterSteps
<1>5. \/ After(k) <= base
      \/ impl = "zig" /\ IsClose(k) /\ After(k - 1) = base
  BY DEF StepInv, Past
<1>6. CASE After(k) <= base
  <2>1. PICK c \in 1..Len(frames) : c = Current
    BY <1>3
  <2>2. c \in 0..Len(frames) /\ After(c) \in Nat /\ After(c) > base
    BY <1>3, <2>1
  <2>3. k # c
    BY <1>4, <1>6, <2>2
  <2>4. ~(c < k)
    <3>1. c < k => After(c) + 6 <= After(k)
      BY <1>1, <2>2, Known, BordersGrow
    <3> HIDE DEF k
    <3> QED
      BY <1>4, <1>6, <2>2, <3>1
  <2>5. k < c
    BY <1>1, <1>4, <2>1, <2>3, <2>4
  <2> QED
    BY <1>6, <2>1, <2>5
<1>7. CASE impl = "zig" /\ IsClose(k) /\ After(k - 1) = base
  <2>1. Current = (k - 1) + 1
    <3>1. base < Total
      BY Known
    <3> QED
      BY <1>1, <1>7, <3>1, Known, CurrentIs
  <2> QED
    BY <1>1, <1>7, <2>1
<1> QED
  BY <1>5, <1>6, <1>7

\* One more answer, for the frame in front.
LEMMA AnswerStep ==
    ASSUME Typed, StepInv, pc = "parse", base < filled, UNCHANGED input,
           NEW front \in DOMAIN frames, front = Current,
           NEW e \in Entries, e.for = front, out' = Append(out, e),
           e.head.opcode # "close" => Copies(e.head, frames[front])
    PROVE  /\ InOrder' /\ Copied'
           /\ \A i \in DOMAIN out' :
                 \/ i \in DOMAIN out /\ out'[i] = out[i]
                 \/ out'[i] = e
           /\ Answered(front)'
           /\ \A k : Answered(k) => Answered(k)'
<1> DEFINE n == Len(out)
<1>1. out \in Seq(Entries)
  BY DEF Typed
<1>2. /\ n \in Nat /\ DOMAIN out' = 1..n + 1 /\ DOMAIN out = 1..n
      /\ \A i \in DOMAIN out : out'[i] = out[i]
      /\ out'[n + 1] = e
  BY <1>1
<1> HIDE DEF n
<1>3. \A i \in DOMAIN out' : i \in DOMAIN out \/ i = n + 1
  BY <1>2
<1>4. n + 1 \in DOMAIN out' /\ \A i \in DOMAIN out : i \in DOMAIN out' /\ i < n + 1
  BY <1>2
<1>5. InOrder /\ Copied
  BY DEF StepInv, InStep
<1>6. impl' = impl /\ frames' = frames
  BY SameFrames
<1>8. InOrder'
  <2>1. ASSUME NEW i \in DOMAIN out', NEW j \in DOMAIN out', i < j
        PROVE  \/ out'[i].for < out'[j].for
               \/ impl = "zig" /\ out'[i].for = out'[j].for /\ IsClose(out'[i].for)
    <3>1. CASE j \in DOMAIN out
      <4>1. i \in DOMAIN out
        BY <1>2, <2>1, <3>1
      <4>2. out'[i] = out[i] /\ out'[j] = out[j]
        BY <1>2, <3>1, <4>1
      <4> QED
        BY <1>5, <2>1, <3>1, <4>1, <4>2, Zenon DEF InOrder
    <3>2. CASE j = n + 1
      <4>1. i \in DOMAIN out /\ out'[i] = out[i] /\ out'[j] = e
        BY <1>2, <1>3, <2>1, <3>2
      <4>2. \/ out[i].for < front
            \/ impl = "zig" /\ out[i].for = front /\ IsClose(front)
        BY <4>1, Earlier, Zenon
      <4> QED
        BY <4>1, <4>2, Zenon
    <3> QED
      BY <1>3, <2>1, <3>1, <3>2
  <2> QED
    BY <1>6, <2>1, Zenon DEF InOrder, IsClose
<1>9. Copied'
  <2>1. ASSUME NEW i \in DOMAIN out', out'[i].head.opcode # "close"
        PROVE  Copies(out'[i].head, frames[out'[i].for])
    <3>1. CASE i \in DOMAIN out
      BY <1>2, <1>5, <2>1, <3>1 DEF Copied
    <3>2. CASE i = n + 1
      BY <1>2, <2>1, <3>2
    <3> QED
      BY <1>3, <2>1, <3>1, <3>2
  <2> QED
    BY <1>6, <2>1, Zenon DEF Copied, Copies
<1>10. Answered(front)'
  BY <1>2, <1>4 DEF Answered
<1>11. \A k : Answered(k) => Answered(k)'
  BY <1>2, <1>4 DEF Answered
<1>12. \A i \in DOMAIN out' : (i \in DOMAIN out /\ out'[i] = out[i]) \/ out'[i] = e
  BY <1>2, <1>3
<1> QED
  BY <1>8, <1>9, <1>10, <1>11, <1>12

\* Where the handler is when it parses a frame.
LEMMA AtFront ==
    ASSUME Typed, StepInv, pc = "parse", base < filled
    PROVE  /\ Current \in DOMAIN frames
           /\ Current \in Nat /\ Current \in 1..Len(frames)
           /\ frames[Current] \in Frame
           /\ After(Current - 1) = base
           /\ After(Current) \in Nat /\ After(Current) > base
           /\ Whole => After(Current) <= filled /\ frames[Current].len \in Lengths
           /\ \A k \in DOMAIN frames : k < Current => After(k) <= base
<1>1. AtBorder(base)
  BY DEF StepInv, InStep, AtBorders
<1>2. /\ Current \in DOMAIN frames /\ Current \in 1..Len(frames)
      /\ Current - 1 \in 0..Len(frames) /\ frames[Current] \in Frame
      /\ After(Current - 1) = base
      /\ After(Current) \in Nat /\ After(Current) > base
  BY <1>1, InFront
<1>3. Whole => After(Current) <= filled /\ frames[Current].len \in Lengths
  BY <1>1, Arrived
<1>4. ASSUME NEW k \in DOMAIN frames, k < Current PROVE After(k) <= base
  <2>1. PICK p \in 0..Len(frames) : p = Current - 1
    BY <1>2
  <2>2. k \in 0..Len(frames) /\ (k = p \/ k < p)
    BY <1>2, <1>4, <2>1, Known
  <2>3. After(p) = base /\ base \in Nat /\ After(k) \in Nat
    BY <1>2, <2>1, <2>2, Known, AfterSteps
  <2> QED
    BY <2>2, <2>3, Known, BordersGrow
<1>5. Current \in Nat
  BY <1>2, Known
<1> QED
  BY <1>2, <1>3, <1>4, <1>5

\* A frame is parsed and, when it expects an answer, answered.
LEMMA TakeStep ==
    ASSUME Typed, StepInv, pc = "parse", Whole, UNCHANGED input, pc' # "adrift",
           NEW front \in DOMAIN frames, front = Current, base' = After(front),
           \/ UNCHANGED out /\ ~Expects(front)
           \/ \E e \in Entries :
                 /\ e.for = front /\ out' = Append(out, e)
                 /\ e.head.opcode # "close" => Copies(e.head, frames[front])
    PROVE  StepInv'
<1>1. base < filled
  BY DEF Whole
<1>2. /\ impl' = impl /\ frames' = frames
      /\ \A k : After(k)' = After(k) /\ (IsClose(k)' <=> IsClose(k))
      /\ \A k : Expects(k)' <=> Expects(k)
  BY SameFrames
<1>3. InOrder /\ Complete /\ Copied
  BY DEF StepInv, InStep
<1>4. /\ front \in 1..Len(frames) /\ front \in 0..Len(frames)
      /\ After(front) \in Nat /\ After(front) > base /\ base \in Nat
      /\ \A k \in DOMAIN frames : k < front => After(k) <= base
  BY <1>1, AtFront, Known
<1>5. /\ InOrder' /\ Copied'
      /\ \A i \in DOMAIN out' : (i \in DOMAIN out /\ out'[i] = out[i]) \/ out'[i].for = front
      /\ Expects(front) => Answered(front)'
      /\ \A k : Answered(k) => Answered(k)'
  <2>1. CASE UNCHANGED out /\ ~Expects(front)
    <3>1. InOrder'
      BY <1>2, <1>3, <2>1, Zenon DEF InOrder, IsClose
    <3>2. Copied'
      BY <1>2, <1>3, <2>1, Zenon DEF Copied, Copies
    <3>3. \A k : Answered(k) => Answered(k)'
      BY <2>1, Zenon DEF Answered
    <3> QED
      BY <2>1, <3>1, <3>2, <3>3
  <2>2. ASSUME NEW e \in Entries, e.for = front, out' = Append(out, e),
               e.head.opcode # "close" => Copies(e.head, frames[front])
        PROVE  /\ InOrder' /\ Copied' /\ Answered(front)'
               /\ \A i \in DOMAIN out' : (i \in DOMAIN out /\ out'[i] = out[i]) \/ out'[i] = e
               /\ \A k : Answered(k) => Answered(k)'
    BY <1>1, <2>2, AnswerStep
  <2> QED
    BY <2>1, <2>2
<1>6. AtBorders'
  <2>1. AtBorder(base)'
    BY <1>2, <1>4, Zenon DEF AtBorder
  <2> QED
    BY <2>1 DEF AtBorders
<1>7. Complete'
  <2>1. ASSUME NEW k \in DOMAIN frames, After(k) <= After(front), Expects(k)
        PROVE  Answered(k)'
    <3>1. k \in 0..Len(frames) /\ k \in Nat /\ After(k) \in Nat
      BY Known, AfterSteps
    <3>2. ~(front < k)
      BY <1>4, <2>1, <3>1, Known, BordersGrow
    <3>3. CASE k = front
      BY <1>5, <2>1, <3>3
    <3>4. CASE k < front
      BY <1>3, <1>4, <1>5, <2>1, <3>4 DEF Complete
    <3> QED
      BY <1>4, <3>1, <3>2, <3>3, <3>4
  <2> QED
    BY <1>2, <2>1, Zenon DEF Complete
<1>8. Past'
  <2>1. ASSUME NEW i \in DOMAIN out' PROVE After(out'[i].for) <= After(front)
    <3>1. CASE i \in DOMAIN out /\ out'[i] = out[i]
      <4>1. PICK k : k = out[i].for
        OBVIOUS
      <4>2. After(k) <= base \/ k = front
        BY <1>1, <3>1, <4>1, Earlier
      <4>3. After(k) \in Nat
        BY <3>1, <4>1, AnswersKnown, Zenon
      <4>4. After(k) <= After(front)
        BY <1>4, <4>2, <4>3
      <4> QED
        BY <3>1, <4>1, <4>4
    <3>2. CASE out'[i].for = front
      BY <1>4, <3>2
    <3> QED
      BY <1>5, <3>1, <3>2
  <2> QED
    BY <1>2, <2>1, Zenon DEF Past, After
<1> QED
  BY <1>5, <1>6, <1>7, <1>8 DEF StepInv, InStep

\* rs answers a Close and drops what is behind it.
LEMMA DropStep ==
    ASSUME Typed, StepInv, CloseRs
    PROVE  StepInv'
<1>1. /\ pc = "parse" /\ Whole /\ base < filled /\ impl = "rs"
      /\ base' = filled /\ UNCHANGED input
      /\ pc' = IF AtBorder(filled) THEN "read" ELSE "adrift"
      /\ Write("close", TRUE, 0)
  BY DEF CloseRs, Parses, Whole
<1>2. PICK front \in DOMAIN frames : front = Current
  BY <1>1, AtFront
<1>3. /\ impl' = impl /\ frames' = frames
      /\ \A k : After(k)' = After(k) /\ (IsClose(k)' <=> IsClose(k))
      /\ \A k : Expects(k)' <=> Expects(k)
  BY <1>1, SameFrames
<1>4. IsClose(front)
  BY <1>2 DEF CloseRs, Parses, IsClose
<1>5. /\ front \in 1..Len(frames) /\ front \in 0..Len(frames)
      /\ After(front) \in Nat /\ After(front) > base /\ After(front) <= filled
      /\ base \in Nat /\ filled \in Nat /\ filled <= Total /\ Total \in Nat
      /\ \A k \in DOMAIN frames : k < front => After(k) <= base
  BY <1>1, <1>2, AtFront, Known
<1>6. /\ InOrder' /\ Copied' /\ Answered(front)'
      /\ \A i \in DOMAIN out' : (i \in DOMAIN out /\ out'[i] = out[i]) \/ out'[i].for = front
      /\ \A k : Answered(k) => Answered(k)'
  <2>1. "close" \in Opcodes /\ front \in Nat
    BY <1>5, Known DEF Opcodes
  <2>2. PICK e \in Entries : e = [for |-> front, head |-> Serialize("close", TRUE, 0)]
    BY <2>1, EntryType
  <2>3. e.for = front /\ e.head.opcode = "close" /\ out' = Append(out, e)
    BY <1>1, <1>2, <2>2 DEF Write, Serialize
  <2> QED
    BY <1>1, <1>2, <2>3, AnswerStep
<1>7. ~AtBorder(filled) => front \in 1..Len(frames) - 1
  <2>1. ASSUME front = Len(frames) PROVE AtBorder(filled)
    <3>1. After(Len(frames)) = filled
      BY <1>5, <2>1 DEF Total
    <3>2. Len(frames) \in 0..Len(frames)
      BY Known
    <3> QED
      BY <3>1, <3>2 DEF AtBorder
  <2> QED
    BY <1>5, <2>1, Known
<1>8. AtBorders'
  <2>1. AtBorder(base)' <=> AtBorder(filled)
    BY <1>1, <1>3, Zenon DEF AtBorder
  <2>2. CASE AtBorder(filled)
    BY <1>1, <2>1, <2>2 DEF AtBorders
  <2>3. CASE ~AtBorder(filled)
    <3>1. front \in 1..Len(frames') - 1 /\ IsClose(front)' /\ Answered(front)'
      BY <1>3, <1>4, <1>6, <1>7, <2>3
    <3>2. pc' = "adrift" /\ impl' = "rs"
      BY <1>1, <1>3, <2>3
    <3> QED
      BY <3>1, <3>2 DEF AtBorders
  <2> QED
    BY <2>2, <2>3
<1>9. Complete'
  <2>1. ASSUME NEW k \in DOMAIN frames, Expects(k) PROVE Answered(k)'
    <3>1. k \in Nat /\ front \in Nat
      BY <1>5, Known
    <3>2. ~(front < k)
      BY <1>4, <1>5, <2>1, <3>1 DEF Expects
    <3>3. CASE k = front
      BY <1>6, <3>3
    <3>4. CASE k < front
      <4>1. Complete
        BY DEF StepInv, InStep
      <4> QED
        BY <1>5, <1>6, <2>1, <3>4, <4>1 DEF Complete
    <3> QED
      BY <3>1, <3>2, <3>3, <3>4
  <2> QED
    BY <1>3, <2>1, Zenon DEF Complete
<1>10. Past'
  <2>1. ASSUME NEW i \in DOMAIN out' PROVE After(out'[i].for) <= filled
    <3>1. CASE i \in DOMAIN out /\ out'[i] = out[i]
      <4>1. PICK k : k = out[i].for
        OBVIOUS
      <4>2. After(k) <= base
        BY <1>1, <3>1, <4>1, Earlier
      <4>3. After(k) \in Nat
        BY <3>1, <4>1, AnswersKnown, Zenon
      <4>4. After(k) <= filled
        BY <1>1, <1>5, <4>2, <4>3
      <4> QED
        BY <3>1, <4>1, <4>4
    <3>2. CASE out'[i].for = front
      BY <1>5, <3>2
    <3> QED
      BY <1>6, <3>1, <3>2
  <2> QED
    BY <1>1, <1>3, <2>1, Zenon DEF Past, After
<1> QED
  BY <1>6, <1>8, <1>9, <1>10 DEF StepInv, InStep

\* zig answers a Close and leaves it in front; cc answers a frame it takes for
\* malformed, and leaves.
LEMMA StayStep ==
    ASSUME Typed, StepInv, CloseZig \/ Malformed
    PROVE  StepInv'
<1>1. /\ pc = "parse" /\ base < filled /\ base' = base /\ UNCHANGED input
      /\ pc' = "closed" \/ (pc' = "read" /\ impl = "zig" /\ IsClose(Current))
      /\ Write("close", TRUE, 0) \/ Write("close", TRUE, 16)
  BY DEF CloseZig, Malformed, Parses, Whole, Partial, IsClose
<1>2. PICK front \in DOMAIN frames : front = Current
  BY <1>1, AtFront
<1>3. /\ impl' = impl /\ frames' = frames
      /\ \A k : After(k)' = After(k) /\ (IsClose(k)' <=> IsClose(k))
      /\ \A k : Expects(k)' <=> Expects(k)
  BY <1>1, SameFrames
<1>4. front \in 1..Len(frames) /\ front \in Nat /\ After(front - 1) = base
  BY <1>1, <1>2, AtFront
<1>5. /\ InOrder' /\ Copied' /\ Answered(front)'
      /\ \A i \in DOMAIN out' : (i \in DOMAIN out /\ out'[i] = out[i]) \/ out'[i].for = front
      /\ \A k : Answered(k) => Answered(k)'
  <2>1. "close" \in Opcodes
    BY DEF Opcodes
  <2>2. PICK len \in Nat : Write("close", TRUE, len)
    BY <1>1
  <2>3. PICK e \in Entries : e = [for |-> front, head |-> Serialize("close", TRUE, len)]
    BY <1>4, <2>1, EntryType
  <2>4. e.for = front /\ e.head.opcode = "close" /\ out' = Append(out, e)
    BY <1>2, <2>2, <2>3 DEF Write, Serialize
  <2> QED
    BY <1>1, <1>2, <2>4, AnswerStep
<1>6. AtBorder(base)
  BY <1>1 DEF StepInv, InStep, AtBorders
<1>7. AtBorders'
  <2>1. AtBorder(base)'
    BY <1>1, <1>3, <1>6, Zenon DEF AtBorder
  <2> QED
    BY <1>1, <2>1 DEF AtBorders
<1>8. Complete'
  BY <1>1, <1>3, <1>5, Zenon DEF StepInv, InStep, Complete
<1>9. Past'
  <2>1. ASSUME pc' = "read", NEW i \in DOMAIN out'
        PROVE  \/ After(out'[i].for) <= base
               \/ impl = "zig" /\ IsClose(out'[i].for) /\ After(out'[i].for - 1) = base
    <3>1. CASE i \in DOMAIN out /\ out'[i] = out[i]
      BY <1>1, <3>1 DEF StepInv, Past
    <3>2. CASE out'[i].for = front
      BY <1>1, <1>2, <1>4, <2>1, <3>2
    <3> QED
      BY <1>5, <3>1, <3>2
  <2> QED
    BY <1>1, <1>3, <2>1, Zenon DEF Past, After, IsClose
<1> QED
  BY <1>5, <1>7, <1>8, <1>9 DEF StepInv, InStep

LEMMA StepInvNext ==
    ASSUME Typed, StepInv, [Next]_vars
    PROVE  StepInv'
<1>1. pc \in {"read", "parse", "adrift", "closed", "aborted"}
  BY DEF Typed, TypeOK
<1>2. CASE UNCHANGED vars
  <2>1. UNCHANGED <<input, base, out, pc>>
    BY <1>2 DEF vars
  <2> QED
    BY <2>1, QuietStep
<1>3. CASE Arrive \/ ClientClose \/ Read \/ ReadNothing \/ ReadSkipped
           \/ Overrun \/ Drift \/ LeaveAdrift \/ Shift \/ Await
  <2>1. /\ UNCHANGED <<input, base, out>>
        /\ pc' \in {"read", "parse"} => pc \in {"read", "parse"}
        /\ pc' = "adrift" => pc = "adrift" \/ impl = "zig"
    <3>1. CASE Arrive \/ ClientClose
      BY <3>1 DEF Arrive, ClientClose
    <3>2. CASE Read \/ ReadNothing \/ ReadSkipped
      BY <3>2 DEF Read, ReadNothing, ReadSkipped
    <3>3. CASE Overrun \/ Drift \/ LeaveAdrift
      BY <3>3 DEF Overrun, Drift, LeaveAdrift, Misread
    <3>4. CASE Shift
      BY <3>4 DEF Shift
    <3>5. CASE Await
      BY <3>5 DEF Await
    <3> QED
      BY <1>3, <3>1, <3>2, <3>3, <3>4, <3>5
  <2> QED
    BY <2>1, QuietStep
<1>4. CASE Broadcast \/ Pong \/ Ignore \/ Close \/ Unsupported
  <2>1. /\ pc = "parse" /\ Whole /\ base < filled /\ UNCHANGED input
        /\ base' = After(Current) /\ pc' # "adrift"
    BY <1>4 DEF Broadcast, Pong, Ignore, Close, Unsupported, Parses, Whole, Take
  <2>2. PICK front \in DOMAIN frames : front = Current
    BY <2>1, AtFront
  <2>3. /\ frames[front] \in Frame /\ frames[front].len \in Lengths /\ front \in Nat
        /\ frames[front].opcode \in Opcodes /\ frames[front].fin \in BOOLEAN
        /\ frames[front].len \in Nat
    BY <2>1, <2>2, AtFront DEF Frame
  <2>4. \/ UNCHANGED out /\ ~Expects(front)
        \/ \E e \in Entries :
              /\ e.for = front /\ out' = Append(out, e)
              /\ e.head.opcode # "close" => Copies(e.head, frames[front])
    <3>1. ASSUME NEW opcode \in Opcodes, NEW fin \in BOOLEAN, NEW len \in Nat,
                 Write(opcode, fin, len),
                 opcode # "close" => Copies(Serialize(opcode, fin, len), frames[front])
          PROVE  \E e \in Entries :
                    /\ e.for = front /\ out' = Append(out, e)
                    /\ e.head.opcode # "close" => Copies(e.head, frames[front])
      <4>1. PICK e \in Entries : e = [for |-> front, head |-> Serialize(opcode, fin, len)]
        BY <2>3, EntryType
      <4>2. /\ e.for = front /\ e.head = Serialize(opcode, fin, len)
            /\ e.head.opcode = opcode /\ out' = Append(out, e)
        BY <2>2, <3>1, <4>1 DEF Write, Serialize
      <4> QED
        BY <3>1, <4>2
    <3>2. ASSUME NEW opcode \in Opcodes, NEW fin \in BOOLEAN,
                 opcode = CASE frames[front].opcode = "ping" -> "pong"
                            [] frames[front].opcode = "binary" /\ impl = "zig" -> "text"
                            [] OTHER -> frames[front].opcode
          PROVE  Copies(Serialize(opcode, fin, frames[front].len), frames[front])
      <4>1. Serialize(opcode, fin, frames[front].len).opcode = opcode
        BY DEF Serialize
      <4>2. Parse(Serialize(opcode, fin, frames[front].len)).len = frames[front].len
        BY <2>3, CodecRoundTrip
      <4> QED
        BY <3>2, <4>1, <4>2 DEF Copies
    <3>3. CASE Broadcast
      <4>1. PICK opcode \in Opcodes, fin \in BOOLEAN :
               /\ opcode = IF impl = "zig" THEN "text" ELSE frames[front].opcode
               /\ fin = (frames[front].fin \/ impl # "rs")
        BY <2>3 DEF Opcodes
      <4>2. Write(opcode, fin, frames[front].len)
        BY <2>2, <3>3, <4>1 DEF Broadcast, WriteText
      <4>3. frames[front].opcode \in {"text", "binary"}
        BY <2>2, <3>3 DEF Broadcast, Parses
      <4>4. opcode = CASE frames[front].opcode = "ping" -> "pong"
                       [] frames[front].opcode = "binary" /\ impl = "zig" -> "text"
                       [] OTHER -> frames[front].opcode
        BY <4>1, <4>3
      <4> QED
        BY <2>3, <3>1, <3>2, <4>2, <4>4
    <3>4. CASE Pong
      <4>1. Write("pong", TRUE, frames[front].len) /\ frames[front].opcode = "ping"
        BY <2>2, <3>4 DEF Pong, Parses
      <4>2. "pong" \in Opcodes /\ TRUE \in BOOLEAN
        BY DEF Opcodes
      <4>3. Copies(Serialize("pong", TRUE, frames[front].len), frames[front])
        BY <3>2, <4>1, <4>2
      <4> QED
        BY <2>3, <3>1, <4>1, <4>2, <4>3
    <3>5. CASE Ignore
      BY <2>2, <3>5 DEF Ignore, Parses, Expects
    <3>6. CASE Close \/ Unsupported
      <4>1. PICK len \in Nat : Write("close", TRUE, len)
        BY <3>6 DEF Close, Unsupported
      <4>2. "close" \in Opcodes /\ TRUE \in BOOLEAN
        BY DEF Opcodes
      <4> QED
        BY <3>1, <4>1, <4>2
    <3> QED
      BY <1>4, <3>3, <3>4, <3>5, <3>6
  <2> QED
    BY <2>1, <2>2, <2>4, TakeStep
<1> QED
  BY <1>2, <1>3, <1>4, DropStep, StayStep DEF Next, Handler

-----------------------------------------------------------------------------
\* Whatever clients send and wherever the network cuts it, the variables keep
\* their types: no read leaves more in the buffer than it holds, and no loop
\* moves on past what it has read.
THEOREM TypeCorrect == Spec => []TypeOK
<1>1. Typed /\ StepInv /\ [Next]_vars => (Typed /\ StepInv)'
  BY TypeNext, StepInvNext DEF StepInv, InStep
<1>2. Init => Typed /\ StepInv
  BY TypeInit, StepInvInit
<1>3. Typed /\ StepInv => TypeOK
  BY DEF Typed
<1> QED
  BY <1>1, <1>2, <1>3, PTL DEF Spec

\* However the network cuts what a client sends, parsing stays in step with its
\* frames: each frame that was parsed is answered, once and in order, and what
\* is written for it parses as the frame it answers; but for zig's repeated
\* answer to a Close, and for zig, and rs behind a Close, taking a part of a
\* frame for the beginning of one.
THEOREM ParsingInStep == Spec => []InStep
<1>1. Typed /\ StepInv /\ [Next]_vars => (Typed /\ StepInv)'
  BY TypeNext, StepInvNext DEF StepInv, InStep
<1>2. Init => Typed /\ StepInv
  BY TypeInit, StepInvInit
<1>3. Typed /\ StepInv => InStep
  BY DEF StepInv
<1> QED
  BY <1>1, <1>2, <1>3, PTL DEF Spec
=============================================================================
