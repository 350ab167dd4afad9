-------------------------- MODULE AsyncServer_proofs --------------------------
(***************************************************************************)
(* Theorems about AsyncServer, for any clients, scripts, descriptors and   *)
(* workers: its types, and that the connections of main_async.cc are kept  *)
(* apart until a number is reused.                                         *)
(***************************************************************************)
EXTENDS AsyncServer, DataLemmas

-----------------------------------------------------------------------------
(* What clients send.                                                      *)

\* s is the first n lists of ss, one after the other: its p-th element is the
\* place[p]-th of list which[p].
Flattens(s, which, place, ss, n) ==
    /\ which \in [1..Len(s) -> 1..n]
    /\ place \in [1..Len(s) -> Nat]
    /\ \A p \in 1..Len(s) : place[p] \in 1..Len(ss[which[p]]) /\ s[p] = ss[which[p]][place[p]]
    /\ \A p, q \in 1..Len(s) :
          p < q => which[p] < which[q] \/ (which[p] = which[q] /\ place[p] < place[q])

LEMMA FlattensMore ==
    ASSUME NEW T, NEW ss \in Seq(Seq(T)), NEW n \in 1..Len(ss),
           NEW s \in Seq(T), NEW which, NEW place, Flattens(s, which, place, ss, n - 1)
    PROVE  /\ s \o ss[n] \in Seq(T)
           /\ \E which2, place2 : Flattens(s \o ss[n], which2, place2, ss, n)
<1> DEFINE a == Len(s)
           b == Len(ss[n])
           t == s \o ss[n]
           which2 == [p \in 1..a + b |-> IF p <= a THEN which[p] ELSE n]
           place2 == [p \in 1..a + b |-> IF p <= a THEN place[p] ELSE p - a]
<1>1. /\ ss[n] \in Seq(T) /\ a \in Nat /\ b \in Nat /\ n \in Nat
      /\ t \in Seq(T) /\ Len(t) = a + b
      /\ \A p \in 1..a : t[p] = s[p]
      /\ \A p \in 1..a + b : p > a => t[p] = ss[n][p - a]
  OBVIOUS
<1>2. /\ which \in [1..a -> 1..n - 1] /\ place \in [1..a -> Nat]
      /\ \A p \in 1..a : place[p] \in 1..Len(ss[which[p]]) /\ s[p] = ss[which[p]][place[p]]
      /\ \A p, q \in 1..a :
            p < q => which[p] < which[q] \/ (which[p] = which[q] /\ place[p] < place[q])
  BY DEF Flattens
<1> HIDE DEF a, t
<1>3. /\ \A p \in 1..a : p \in 1..a + b /\ which2[p] = which[p] /\ place2[p] = place[p]
      /\ \A p \in 1..a + b : p > a => which2[p] = n /\ place2[p] = p - a /\ p - a \in 1..b
      /\ \A p \in 1..a + b : p \in 1..a \/ p > a
  BY <1>1
<1>4. which2 \in [1..a + b -> 1..n] /\ place2 \in [1..a + b -> Nat]
  BY <1>1, <1>2
<1> HIDE DEF which2, place2
<1>5. \A p \in 1..a + b : place2[p] \in 1..Len(ss[which2[p]]) /\ t[p] = ss[which2[p]][place2[p]]
  <2> TAKE p \in 1..a + b
  <2>1. CASE p \in 1..a
    BY <1>1, <1>2, <1>3, <2>1
  <2>2. CASE p > a
    BY <1>1, <1>3, <2>2
  <2> QED
    BY <1>3, <2>1, <2>2
<1>6. \A p, q \in 1..a + b :
          p < q => which2[p] < which2[q] \/ (which2[p] = which2[q] /\ place2[p] < place2[q])
  <2> TAKE p, q \in 1..a + b
  <2> HAVE p < q
  <2>1. CASE q \in 1..a
    <3>1. p \in 1..a
      BY <1>1, <2>1
    <3> QED
      BY <1>2, <1>3, <2>1, <3>1
  <2>2. CASE q > a /\ p \in 1..a
    <3>1. which2[p] \in 1..n - 1 /\ which2[q] = n
      BY <1>2, <1>3, <2>2
    <3> QED
      BY <1>1, <3>1
  <2>3. CASE q > a /\ p > a
    <3>1. /\ which2[p] = n /\ which2[q] = n
          /\ place2[p] = p - a /\ place2[q] = q - a
      BY <1>3, <2>3
    <3>2. p - a < q - a
      BY <1>1
    <3> QED
      BY <3>1, <3>2
  <2> QED
    BY <1>3, <2>1, <2>2, <2>3
<1>7. Flattens(t, which2, place2, ss, n)
  BY <1>1, <1>4, <1>5, <1>6 DEF Flattens
<1> QED
  BY <1>1, <1>7 DEF t

LEMMA FlattenUnfolds ==
    ASSUME NEW T, NEW ss \in Seq(Seq(T)), Len(ss) # 0
    PROVE  \E f : /\ f[0] = <<>>
                  /\ \A i \in 1..Len(ss) : f[i] = f[i - 1] \o ss[i]
                  /\ FlattenSeq(ss) = f[Len(ss)]
<1> DEFINE n == Len(ss)
           Rec(f) == [i \in 1..n |-> IF i = 1 THEN ss[i] ELSE f[i - 1] \o ss[i]]
           step == [i \in 1..n |-> [t \in Seq(T) |-> t \o ss[i]]]
           flat == CHOOSE f : f = Rec(f)
<1>1. n \in Nat /\ n # 0 /\ <<>> \in Seq(T) /\ \A i \in 1..n : ss[i] \in Seq(T)
  OBVIOUS
<1>2. step \in StepsOf(n, Seq(T))
  <2>1. \A i \in 1..n : \A t \in Seq(T) : t \o ss[i] \in Seq(T)
    BY <1>1
  <2> QED
    BY <2>1 DEF StepsOf
<1>3. PICK f : Unfolds(f, n, Seq(T), <<>>, step)
  <2> HIDE DEF n, step
  <2> QED
    BY <1>1, <1>2, Recursion
<1>4. /\ f \in [0..n -> Seq(T)] /\ f[0] = <<>>
      /\ \A i \in 1..n : f[i] = f[i - 1] \o ss[i]
  <2>1. /\ f \in [0..n -> Seq(T)] /\ f[0] = <<>>
        /\ \A i \in 1..n : f[i] = step[i][f[i - 1]]
    BY <1>3, Zenon DEF Unfolds
  <2>2. \A i \in 1..n : i - 1 \in 0..n
    BY <1>1
  <2>3. \A i \in 1..n : f[i - 1] \in Seq(T)
    <3> HIDE DEF n, step
    <3> QED
      BY <2>1, <2>2
  <2>4. \A i \in 1..n : \A t \in Seq(T) : step[i][t] = t \o ss[i]
    OBVIOUS
  <2> HIDE DEF step, n
  <2> QED
    BY <2>1, <2>3, <2>4
<1> DEFINE g == [i \in 1..n |-> f[i]]
<1>5. g = Rec(g)
  <2>1. 1 \in 1..n /\ f[1] = ss[1]
    <3>1. 1 \in 1..n
      BY <1>1
    <3>2. f[1] = <<>> \o ss[1] /\ ss[1] \in Seq(T)
      <4>1. 1 - 1 = 0
        OBVIOUS
      <4>2. f[1] = f[1 - 1] \o ss[1] /\ ss[1] \in Seq(T)
        BY <1>1, <1>4, <3>1, Zenon
      <4> QED
        BY <1>4, <4>1, <4>2, Zenon
    <3>3. \A t \in Seq(T) : <<>> \o t = t
      OBVIOUS
    <3> QED
      BY <3>1, <3>2, <3>3
  <2>2. \A i \in 1..n : i # 1 => i - 1 \in 1..n
    BY <1>1
  <2>3. \A i \in 1..n : g[i] = IF i = 1 THEN ss[i] ELSE g[i - 1] \o ss[i]
    BY <1>4, <2>1, <2>2
  <2> HIDE DEF n
  <2> QED
    BY <2>3
<1>6. flat = Rec(flat)
  <2> HIDE DEF Rec, g
  <2> QED
    BY <1>5
<1>7. FlattenSeq(ss) = flat[n]
  <2>1. n # 0
    BY <1>1
  <2> QED
    BY <2>1, Zenon DEF FlattenSeq
<1> HIDE DEF flat
<1>8. \A i \in 1..n : flat[i] = IF i = 1 THEN ss[i] ELSE flat[i - 1] \o ss[i]
  <2>1. \A i \in 1..n : flat[i] = Rec(flat)[i]
    BY <1>6
  <2> HIDE DEF n
  <2> QED
    BY <2>1
<1> DEFINE h == [i \in 0..n |-> IF i = 0 THEN <<>> ELSE flat[i]]
<1>9. h[0] = <<>> /\ h[n] = flat[n]
  <2>1. 0 \in 0..n /\ n \in 0..n
    BY <1>1
  <2> HIDE DEF n
  <2> QED
    BY <1>1, <2>1
<1>10. \A i \in 1..n : h[i] = h[i - 1] \o ss[i]
  <2> TAKE i \in 1..n
  <2>1. i \in 0..n /\ i - 1 \in 0..n /\ i # 0 /\ ss[i] \in Seq(T)
    BY <1>1
  <2>2. CASE i = 1
    <3>1. h[i] = ss[1] /\ h[i - 1] = <<>>
      BY <1>8, <2>1, <2>2
    <3> QED
      BY <2>1, <2>2, <3>1
  <2>3. CASE i # 1
    <3>1. i - 1 # 0 /\ h[i] = flat[i] /\ h[i - 1] = flat[i - 1]
      BY <2>1, <2>3
    <3>2. flat[i] = flat[i - 1] \o ss[i]
      BY <1>8, <2>3
    <3> QED
      BY <3>1, <3>2
  <2> QED
    BY <2>2, <2>3
<1> QED
  <2> HIDE DEF h
  <2> QED
    BY <1>7, <1>9, <1>10

LEMMA FlattenKeepsOrder ==
    ASSUME NEW T, NEW ss \in Seq(Seq(T))
    PROVE  LET s == FlattenSeq(ss)
           IN  /\ s \in Seq(T)
               /\ \E which, place : Flattens(s, which, place, ss, Len(ss))
<1> DEFINE n == Len(ss)
<1>1. n \in Nat
  OBVIOUS
<1>2. \E which, place : Flattens(<<>>, which, place, ss, 0)
  <2>1. Flattens(<<>>, <<>>, <<>>, ss, 0)
    BY DEF Flattens
  <2> QED
    BY <2>1
<1>3. CASE n = 0
  <2>1. FlattenSeq(ss) = <<>>
    BY <1>3, SMT DEF FlattenSeq
  <2> QED
    BY <1>2, <1>3, <2>1
<1>4. CASE n # 0
  <2>1. PICK f : /\ f[0] = <<>>
                 /\ \A i \in 1..n : f[i] = f[i - 1] \o ss[i]
                 /\ FlattenSeq(ss) = f[n]
    BY <1>4, FlattenUnfolds
  <2> DEFINE S == {i \in 0..n :
                     f[i] \in Seq(T) /\ \E which, place : Flattens(f[i], which, place, ss, i)}
  <2>2. 0 \in S
    <3>1. 0 \in 0..n /\ f[0] = <<>> /\ <<>> \in Seq(T)
      BY <1>1, <2>1
    <3>2. \E which, place : Flattens(f[0], which, place, ss, 0)
      BY <1>2, <3>1
    <3>3. f[0] \in Seq(T)
      BY <3>1
    <3> QED
      BY <3>1, <3>2, <3>3, Zenon
  <2>3. ASSUME NEW i \in 1..n, i - 1 \in S PROVE i \in S
    <3>1. f[i - 1] \in Seq(T) /\ \E which, place : Flattens(f[i - 1], which, place, ss, i - 1)
      BY <2>3
    <3>2. /\ f[i - 1] \o ss[i] \in Seq(T)
          /\ \E which, place : Flattens(f[i - 1] \o ss[i], which, place, ss, i)
      BY <3>1, FlattensMore
    <3>3. f[i] = f[i - 1] \o ss[i]
      BY <2>1, Zenon
    <3>4. i \in 0..n
      BY <1>1
    <3>5. f[i] \in Seq(T) /\ \E which, place : Flattens(f[i], which, place, ss, i)
      BY <3>2, <3>3, Zenon
    <3> QED
      BY <3>4, <3>5, Zenon
  <2>4. n \in S
    <3> HIDE DEF S, n
    <3>1. n \in 0..n
      BY <1>1
    <3> QED
      BY <1>1, <2>2, <2>3, <3>1, BoundedInduction
  <2> QED
    BY <2>1, <2>4
<1> QED
  BY <1>3, <1>4

Messages == [from : Clients, n : Nat, last : BOOLEAN]

\* t stands in front of u in what a client sends.
Before(t, u) == t.n <= u.n /\ (t.last => t.n < u.n)

LEMMA ShortLists ==
    /\ \A x : Len(<<x>>) = 1 /\ <<x>>[1] = x
    /\ \A x, y : Len(<<x, y>>) = 2 /\ <<x, y>>[1] = x /\ <<x, y>>[2] = y
    /\ \A T : \A x, y \in T : <<x>> \in Seq(T) /\ <<x, y>> \in Seq(T)
  OBVIOUS

LEMMA ListIsSeq ==
    ASSUME NEW T, NEW m \in Nat, NEW f \in [1..m -> T]
    PROVE  f \in Seq(T) /\ Len(f) = m
  OBVIOUS

LEMMA StreamInOrder ==
    ASSUME script \in Scripts, NEW c \in Clients
    PROVE  /\ Stream(c) \in Seq(Messages) /\ Stream(c) \in Seq(Tokens)
           /\ \A p \in DOMAIN Stream(c) :
                 /\ Stream(c)[p].from = c
                 /\ Kind(Stream(c)[p]) = "text" => Stream(c)[p].last
           /\ \A p, q \in DOMAIN Stream(c) :
                 p < q => Before(Stream(c)[p], Stream(c)[q])
<1> DEFINE ss == [n \in DOMAIN script[c] |->
                     IF script[c][n] = "text" THEN <<Token(c, n, TRUE)>>
                     ELSE <<Token(c, n, FALSE), Token(c, n, TRUE)>>]
<1>1. script[c] \in Seq(Kinds)
  BY AsyncAssumption
<1>2. Stream(c) = FlattenSeq(ss)
  BY DEF Stream, Streams
<1>3. \A n \in DOMAIN script[c] : n \in Nat /\ Token(c, n, TRUE) \in Messages
                                   /\ Token(c, n, FALSE) \in Messages
  BY <1>1 DEF Token, Messages
<1>4. ss \in Seq(Seq(Messages)) /\ Len(ss) = Len(script[c])
  <2>1. PICK m \in Nat : m = Len(script[c]) /\ DOMAIN script[c] = 1..m
    BY <1>1
  <2>2. \A n \in 1..m : (IF script[c][n] = "text" THEN <<Token(c, n, TRUE)>>
                         ELSE <<Token(c, n, FALSE), Token(c, n, TRUE)>>) \in Seq(Messages)
    BY <1>3, <2>1, ShortLists, Zenon
  <2>3. ss \in [1..m -> Seq(Messages)]
    BY <2>1, <2>2, Zenon
  <2> HIDE DEF ss
  <2> QED
    BY <2>1, <2>3, ListIsSeq
<1>5. \A n \in 1..Len(ss) :
          /\ n \in Nat /\ Len(ss[n]) \in {1, 2}
          /\ \A a \in 1..Len(ss[n]) :
                /\ ss[n][a] = Token(c, n, a = Len(ss[n]))
                /\ script[c][n] = "text" => a = Len(ss[n])
  <2> TAKE n \in 1..Len(ss)
  <2>1. n \in DOMAIN script[c] /\ n \in Nat
    BY <1>1, <1>4
  <2>2. CASE script[c][n] = "text"
    <3>1. ss[n] = <<Token(c, n, TRUE)>>
      BY <2>1, <2>2
    <3>2. Len(ss[n]) = 1 /\ \A a \in 1..1 : a = 1 /\ ss[n][a] = Token(c, n, TRUE)
      <4>1. \A a \in 1..1 : a = 1
        OBVIOUS
      <4> QED
        BY <3>1, <4>1, ShortLists, Zenon
    <3>3. (1 = Len(ss[n])) = TRUE
      BY <3>2
    <3> HIDE DEF ss
    <3> QED
      BY <2>1, <3>2, <3>3
  <2>3. CASE script[c][n] # "text"
    <3>1. ss[n] = <<Token(c, n, FALSE), Token(c, n, TRUE)>>
      BY <2>1, <2>3
    <3>2. /\ Len(ss[n]) = 2
          /\ ss[n][1] = Token(c, n, FALSE) /\ ss[n][2] = Token(c, n, TRUE)
      <4>1. PICK l : l = ss[n]
        OBVIOUS
      <4>2. PICK x : x = Token(c, n, FALSE)
        OBVIOUS
      <4>3. PICK y : y = Token(c, n, TRUE)
        OBVIOUS
      <4>4. l = <<x, y>>
        BY <3>1, <4>1, <4>2, <4>3, Zenon
      <4>5. Len(l) = 2 /\ l[1] = x /\ l[2] = y
        BY <4>4, SMT
      <4> QED
        BY <4>1, <4>2, <4>3, <4>5, Zenon
    <3>3. (1 = Len(ss[n])) = FALSE /\ (2 = Len(ss[n])) = TRUE
      BY <3>2
    <3>4. \A a \in 1..2 : a = 1 \/ a = 2
      OBVIOUS
    <3> HIDE DEF ss
    <3>5. ASSUME NEW a \in 1..2 PROVE ss[n][a] = Token(c, n, a = Len(ss[n]))
      <4>1. CASE a = 1
        BY <3>2, <3>3, <4>1, Zenon
      <4>2. CASE a = 2
        BY <3>2, <3>3, <4>2, Zenon
      <4> QED
        BY <3>4, <4>1, <4>2
    <3> QED
      BY <2>1, <2>3, <3>2, <3>5
  <2> QED
    BY <2>2, <2>3
<1> DEFINE s == FlattenSeq(ss)
<1> HIDE DEF ss
<1>6. s \in Seq(Messages)
  BY <1>4, FlattenKeepsOrder
<1>7. PICK which, place : Flattens(s, which, place, ss, Len(ss))
  BY <1>4, FlattenKeepsOrder
<1> HIDE DEF s
<1>8. \A p \in 1..Len(s) :
          /\ which[p] \in 1..Len(ss) /\ which[p] \in Nat
          /\ place[p] \in 1..Len(ss[which[p]])
          /\ s[p] = Token(c, which[p], place[p] = Len(ss[which[p]]))
          /\ script[c][which[p]] = "text" => place[p] = Len(ss[which[p]])
  <2> TAKE p \in 1..Len(s)
  <2>1. which[p] \in 1..Len(ss) /\ place[p] \in 1..Len(ss[which[p]])
        /\ s[p] = ss[which[p]][place[p]]
    BY <1>7 DEF Flattens
  <2> QED
    BY <1>5, <2>1
<1>9. \A p \in 1..Len(s) :
          /\ s[p].from = c /\ s[p].n = which[p]
          /\ s[p].last = (place[p] = Len(ss[which[p]]))
          /\ Kind(s[p]) = "text" => s[p].last
  <2> TAKE p \in 1..Len(s)
  <2>1. \A n, last : /\ Token(c, n, last).from = c /\ Token(c, n, last).n = n
                     /\ Token(c, n, last).last = last
    BY DEF Token
  <2>2. /\ s[p].from = c /\ s[p].n = which[p]
        /\ s[p].last = (place[p] = Len(ss[which[p]]))
    <3>1. s[p] = Token(c, which[p], place[p] = Len(ss[which[p]]))
      BY <1>8, Zenon
    <3>2. PICK b : b = (place[p] = Len(ss[which[p]]))
      OBVIOUS
    <3>3. s[p] = Token(c, which[p], b)
      BY <3>1, <3>2, Zenon
    <3>4. s[p].from = c /\ s[p].n = which[p] /\ s[p].last = b
      BY <2>1, <3>3
    <3> QED
      BY <3>2, <3>4, Zenon
  <2>3. Kind(s[p]) = script[c][which[p]]
    BY <2>2, Zenon DEF Kind
  <2>4. Kind(s[p]) = "text" => s[p].last
    BY <1>8, <2>2, <2>3, Zenon
  <2> QED
    BY <2>2, <2>4
<1>10. ASSUME NEW p \in 1..Len(s), NEW q \in 1..Len(s), p < q
       PROVE  Before(s[p], s[q])
  <2>1. which[p] < which[q] \/ (which[p] = which[q] /\ place[p] < place[q])
    BY <1>7, <1>10 DEF Flattens
  <2>2. which[p] \in Nat /\ which[q] \in Nat /\ s[p].n = which[p] /\ s[q].n = which[q]
    BY <1>8, <1>9
  <2>3. CASE which[p] < which[q]
    BY <2>2, <2>3 DEF Before
  <2>4. CASE which[p] = which[q] /\ place[p] < place[q]
    <3>1. PICK m : m = Len(ss[which[p]])
      OBVIOUS
    <3>2. place[p] \in 1..m /\ place[q] \in 1..m /\ m \in {1, 2}
      BY <1>5, <1>8, <2>4, <3>1
    <3>3. place[p] # m
      BY <2>4, <3>2
    <3>4. ~s[p].last
      BY <1>9, <3>1, <3>3
    <3> QED
      BY <2>2, <2>4, <3>4 DEF Before
  <2> QED
    BY <2>1, <2>3, <2>4
<1>11. s \in Seq(Tokens)
  <2>1. \A p \in 1..Len(s) : s[p] \in Range(Stream(c))
    BY <1>2, <1>6 DEF s, Range
  <2>2. \A p \in 1..Len(s) : s[p] \in Tokens
    BY <2>1, Zenon DEF Tokens
  <2>3. s = [p \in 1..Len(s) |-> s[p]] /\ Len(s) \in Nat
    BY <1>6
  <2> HIDE DEF s
  <2> QED
    BY <2>2, <2>3
<1>12. DOMAIN s = 1..Len(s)
  BY <1>6
<1> QED
  BY <1>2, <1>6, <1>9, <1>10, <1>11, <1>12 DEF s

-----------------------------------------------------------------------------
(* The types.                                                              *)

\* The script stays, and what is made of it.
LEMMA StreamsStay ==
    ASSUME script' = script
    PROVE  Tokens' = Tokens /\ \A c \in Clients : Stream(c)' = Stream(c)
<1>1. \A c \in Clients : Stream(c)' = Stream(c)
  BY DEF Stream
<1> QED
  BY <1>1 DEF Tokens

LEMMA StreamTyped ==
    ASSUME script \in Scripts, NEW c \in Clients
    PROVE  Stream(c) \in Seq(Tokens)
  BY StreamInOrder

Entries == [buf : Seq(Tokens), headerEnd : Nat, state : {"READING", "WEBSOCKET"}]

ClientsTyped ==
    /\ script \in Scripts
    /\ phase \in [Clients -> {"idle", "backlog", "open", "gone"}]
    /\ sent \in [Clients -> Nat] /\ taken \in [Clients -> Nat]
    /\ \A c \in Clients : sent[c] <= Len(Stream(c)) /\ taken[c] <= sent[c]
    /\ unread \in [Clients -> 0..Window]

HistoryTyped ==
    /\ replies \in [Clients -> Seq(Tokens)]
    /\ heard \in [Clients -> Seq(Tokens)]

ServerTyped ==
    /\ file \in [Fds -> Clients \cup {None}]
    /\ ready \subseteq Clients
    /\ events \subseteq [fd : Fds, hup : BOOLEAN] \cup {Accepting}
    /\ at \in [doing : {"events", "add", "close"}, fd : Fds \cup {None}]
    /\ at.doing # "events" => at.fd \in Fds
    /\ tasks \in [Fds -> Nat]
    /\ lock \in Fds \cup {None}
    /\ chat \in [Chats -> {Idle} \cup [doing : {"chat", "leave"}, fd : Fds]]

MapTyped ==
    /\ connections \in [Fds -> {None} \cup Entries]
    /\ \A f \in Fds : connections[f] # None =>
          connections[f].headerEnd <= Len(connections[f].buf)
    /\ lock # None => Asks(lock)

Typed == ClientsTyped /\ HistoryTyped /\ ServerTyped /\ MapTyped

LEMMA TypedInit == Init => Typed
<1> SUFFICES ASSUME Init PROVE Typed
  OBVIOUS
<1>1. ClientsTyped
  <2>1. \A c \in Clients : Len(Stream(c)) \in Nat
    BY StreamTyped DEF Init
  <2> QED
    BY <2>1, AsyncAssumption DEF Init, ClientsTyped
<1>2. HistoryTyped
  BY DEF Init, HistoryTyped
<1>3. ServerTyped
  BY DEF Init, ServerTyped
<1>4. MapTyped
  BY DEF Init, MapTyped
<1> QED
  BY <1>1, <1>2, <1>3, <1>4 DEF Typed

LEMMA TypedIsTypeOK == Typed => TypeOK
<1> SUFFICES ASSUME Typed PROVE TypeOK
  OBVIOUS
<1>1. \A c \in Clients :
          /\ sent[c] \in 0..Len(Stream(c)) /\ taken[c] \in 0..sent[c]
          /\ replies[c] \in Seq(Tokens) /\ heard[c] \in Seq(Tokens)
  BY StreamTyped DEF Typed, ClientsTyped, HistoryTyped
<1>2. \A f \in Fds : connections[f] # None =>
          /\ connections[f].buf \in Seq(Tokens)
          /\ connections[f].headerEnd \in 0..Len(connections[f].buf)
          /\ connections[f].state \in {"READING", "WEBSOCKET"}
  BY DEF Typed, MapTyped, Entries
<1> QED
  BY <1>1, <1>2 DEF Typed, ClientsTyped, ServerTyped, TypeOK

LEMMA ClientTyped ==
    ASSUME Typed, NEW c \in Clients, Client(c)
    PROVE  Typed'
<1>1. /\ script' = script /\ \A d \in Clients : Stream(d)' = Stream(d)
      /\ Tokens' = Tokens /\ Entries' = Entries
  <2>1. script' = script
    BY DEF Client, Connect, Send, ClientRead, HangUp
  <2> QED
    BY <2>1, StreamsStay DEF Entries
<1>2. \A d \in Clients : Len(Stream(d)) \in Nat
  BY StreamTyped DEF Typed, ClientsTyped
<1>3. ClientsTyped'
  <2> USE DEF Typed, ClientsTyped
  <2>1. CASE Connect(c)
    BY <1>1, <2>1 DEF Connect
  <2>2. CASE Send(c)
    <3>1. /\ sent' \in [Clients -> Nat]
          /\ \A d \in Clients : sent[d] <= sent'[d] /\ sent'[d] <= Len(Stream(d))
      BY <1>2, <2>2 DEF Send
    <3>2. \A d \in Clients : taken[d] <= sent'[d]
      BY <3>1
    <3> QED
      BY <1>1, <2>2, <3>1, <3>2 DEF Send
  <2>3. CASE ClientRead(c)
    BY <1>1, <2>3, AsyncAssumption DEF ClientRead
  <2>4. CASE HangUp(c)
    BY <1>1, <2>4, AsyncAssumption DEF HangUp
  <2> QED
    BY <2>1, <2>2, <2>3, <2>4 DEF Client
<1>4. HistoryTyped' /\ MapTyped'
  <2>1. replies' = replies /\ heard' = heard /\ connections' = connections /\ lock' = lock
    BY DEF Client, Connect, Send, ClientRead, HangUp, historyVars
  <2> QED
    BY <1>1, <2>1 DEF Typed, HistoryTyped, MapTyped, Asks
<1>5. ServerTyped'
  <2>1. ready' \subseteq Clients
    BY DEF Client, Connect, Send, ClientRead, HangUp, epollVars, Typed, ServerTyped
  <2>2. /\ file' = file /\ events' = events /\ at' = at
        /\ tasks' = tasks /\ lock' = lock /\ chat' = chat
    BY DEF Client, Connect, Send, ClientRead, HangUp, epollVars
  <2> QED
    BY <2>1, <2>2 DEF Typed, ServerTyped
<1> QED
  BY <1>3, <1>4, <1>5 DEF Typed

-----------------------------------------------------------------------------
(* What the reads and the replies do.                                      *)

LEMMA ListParts ==
    ASSUME NEW T, NEW s \in Seq(T), NEW m \in Nat, NEW n \in Nat,
           m <= n, n <= Len(s)
    PROVE  LET t == SubSeq(s, m + 1, n)
           IN  /\ t \in Seq(T) /\ Len(t) = n - m
               /\ \A i \in 1..Len(t) : m + i \in 1..Len(s) /\ t[i] = s[m + i]
  OBVIOUS

LEMMA ListSum ==
    ASSUME NEW T, NEW s \in Seq(T), NEW u \in Seq(T), NEW t, t = s \o u
    PROVE  /\ t \in Seq(T) /\ Len(t) = Len(s) + Len(u)
           /\ \A i \in 1..Len(s) : t[i] = s[i]
           /\ \A i \in 1..Len(t) :
                 \/ i \in 1..Len(s)
                 \/ (i - Len(s) \in 1..Len(u) /\ t[i] = u[i - Len(s)])
  OBVIOUS

LEMMA UnseenIsSent ==
    ASSUME Typed, NEW f \in Fds, Unseen(f) # <<>>
    PROVE  LET c == file[f]
               u == Unseen(f)
           IN  /\ c \in Clients /\ taken[c] \in Nat /\ sent[c] \in Nat
               /\ u \in Seq(Tokens) /\ Len(u) = sent[c] - taken[c] /\ Len(u) \in Nat \ {0}
               /\ \A i \in 1..Len(u) :
                     taken[c] + i \in 1..Len(Stream(c)) /\ u[i] = Stream(c)[taken[c] + i]
<1> DEFINE c == file[f]
           s == Stream(c)
<1>1. c # None /\ Unseen(f) = SubSeq(s, taken[c] + 1, sent[c])
  BY DEF Unseen
<1>2. /\ c \in Clients /\ taken[c] \in Nat /\ sent[c] \in Nat
      /\ taken[c] <= sent[c] /\ sent[c] <= Len(Stream(c)) /\ script \in Scripts
  BY <1>1 DEF Typed, ServerTyped, ClientsTyped
<1>3. s \in Seq(Tokens)
  BY <1>2, StreamTyped
<1> HIDE DEF s, c
<1>4. PICK m, n, t : m = taken[c] /\ n = sent[c] /\ t = s
  BY <1>2
<1>5. PICK u : u = SubSeq(t, m + 1, n)
  OBVIOUS
<1>6. t \in Seq(Tokens) /\ m \in Nat /\ n \in Nat /\ m <= n /\ n <= Len(t)
  BY <1>2, <1>3, <1>4 DEF s
<1>7. /\ u \in Seq(Tokens) /\ Len(u) = n - m
      /\ \A i \in 1..Len(u) : m + i \in 1..Len(t) /\ u[i] = t[m + i]
  BY <1>5, <1>6, ListParts, Zenon
<1>8. u = Unseen(f)
  BY <1>1, <1>4, <1>5
<1>9. Len(u) # 0
  BY <1>7, <1>8
<1> QED
  BY <1>2, <1>4, <1>7, <1>8, <1>9 DEF s, c

\* A read of the epoll thread: what is taken is in the buffer, and a header
\* ends where it says.
ReadInto(f, c, count, buf, header) ==
    /\ count \in 1..sent[c] - taken[c]
    /\ buf \in Seq(Tokens) /\ header \in 0..Len(buf)
    /\ Len(buf) = Len(connections[f].buf) + count
    /\ \A i \in 1..Len(connections[f].buf) : buf[i] = connections[f].buf[i]
    /\ \A i \in 1..Len(buf) :
          \/ i \in 1..Len(connections[f].buf)
          \/ /\ i - Len(connections[f].buf) \in 1..count
             /\ buf[i] = Stream(c)[taken[c] + (i - Len(connections[f].buf))]
    /\ header = connections[f].headerEnd \/ (header > 0 /\ buf[header].last)
    /\ taken' = [taken EXCEPT ![c] = @ + count]
    /\ connections' = [connections EXCEPT ![f] =
           Holding(connections[f], buf, header)]

LEMMA ReadReads ==
    ASSUME Typed, NEW f \in Fds, Read(f)
    PROVE  /\ file[f] \in Clients /\ connections[f] \in Entries
           /\ \E count, buf, header : ReadInto(f, file[f], count, buf, header)
           /\ tasks' \in [Fds -> Nat]
<1> DEFINE c == file[f]
           U == Unseen(f)
           conn == connections[f]
<1>1. U # <<>> /\ conn # None
  BY DEF Read
<1>2. /\ c \in Clients /\ taken[c] \in Nat /\ sent[c] \in Nat
      /\ U \in Seq(Tokens) /\ Len(U) = sent[c] - taken[c] /\ Len(U) \in Nat \ {0}
      /\ \A i \in 1..Len(U) : U[i] = Stream(c)[taken[c] + i]
  BY <1>1, UnseenIsSent
<1>3. conn \in Entries /\ conn.headerEnd <= Len(conn.buf)
  BY <1>1 DEF Typed, MapTyped
<1>4. PICK u, old : u = U /\ old = conn.buf
  OBVIOUS
<1>5. old \in Seq(Tokens) /\ u \in Seq(Tokens) /\ Len(u) \in Nat \ {0}
      /\ conn.headerEnd \in Nat /\ conn.headerEnd <= Len(old)
  BY <1>2, <1>3, <1>4 DEF Entries
<1>6. PICK count : count = Min({Most, Len(u)})
  OBVIOUS
<1>7. count \in 1..Len(u)
  <2>1. {Most, Len(u)} \in SUBSET Nat /\ {Most, Len(u)} # {}
    BY <1>5, AsyncAssumption
  <2>2. Min({Most, Len(u)}) \in {Most, Len(u)} /\ \A x \in {Most, Len(u)} : Min({Most, Len(u)}) <= x
    BY <2>1, MinIsLeast
  <2> QED
    BY <1>5, <1>6, <2>2, AsyncAssumption
<1>8. PICK part : part = SubSeq(u, 1, count)
  OBVIOUS
<1>9. /\ part \in Seq(Tokens) /\ Len(part) = count
      /\ \A i \in 1..count : part[i] = u[i]
  BY <1>5, <1>7, <1>8
<1>10. PICK buf : buf = old \o part
  OBVIOUS
<1>11. /\ buf \in Seq(Tokens) /\ Len(buf) = Len(old) + count
       /\ \A i \in 1..Len(old) : buf[i] = old[i]
       /\ \A i \in 1..Len(buf) :
             i \in 1..Len(old) \/ (i - Len(old) \in 1..count /\ buf[i] = part[i - Len(old)])
  <2>1. /\ buf \in Seq(Tokens) /\ Len(buf) = Len(old) + Len(part)
        /\ \A i \in 1..Len(old) : buf[i] = old[i]
        /\ \A i \in 1..Len(buf) :
              \/ i \in 1..Len(old)
              \/ (i - Len(old) \in 1..Len(part) /\ buf[i] = part[i - Len(old)])
    <3>1. old \in Seq(Tokens) /\ part \in Seq(Tokens)
      BY <1>5, <1>9
    <3> QED
      BY <1>10, <3>1, ListSum
  <2> QED
    BY <1>9, <2>1
<1>12. PICK ends : ends = {i \in DOMAIN buf : buf[i].last /\ Kind(buf[i]) # "text"}
  OBVIOUS
<1>13. PICK found \in BOOLEAN : found = (conn.state = "READING" /\ ends # {})
  OBVIOUS
<1>14. PICK header : header = IF found THEN Min(ends) ELSE conn.headerEnd
  OBVIOUS
<1>15. /\ taken' = [taken EXCEPT ![c] = @ + count]
       /\ connections' = [connections EXCEPT ![f] = Holding(conn, buf, header)]
       /\ tasks' = IF found THEN [tasks EXCEPT ![f] = @ + 1] ELSE tasks
  <2>1. buf = conn.buf \o SubSeq(Unseen(f), 1, Min({Most, Len(Unseen(f))}))
    BY <1>4, <1>6, <1>8, <1>10
  <2>2. taken' = [taken EXCEPT ![c] = @ + count]
    BY <1>4, <1>6 DEF Read, Take
  <2>3. tasks' = IF found THEN [tasks EXCEPT ![f] = @ + 1] ELSE tasks
    BY <1>12, <1>13, <2>1, Zenon DEF Read
  <2>4. connections' = [connections EXCEPT ![f] =
           Holding(conn, buf, IF found THEN Min(ends) ELSE conn.headerEnd)]
    BY <1>12, <1>13, <2>1, Zenon DEF Read
  <2> QED
    BY <1>14, <2>2, <2>3, <2>4
<1>16. /\ header \in 0..Len(buf)
       /\ header = conn.headerEnd \/ (header > 0 /\ buf[header].last)
  <2>1. CASE found
    <3>1. ends \in SUBSET Nat /\ ends # {}
      <4>1. \A i \in DOMAIN buf : i \in Nat
        BY <1>11
      <4> QED
        BY <1>12, <1>13, <2>1, <4>1, Zenon
    <3>2. header \in ends
      BY <1>14, <2>1, <3>1, MinIsLeast
    <3> QED
      BY <1>11, <1>12, <3>2
  <2>2. CASE ~found
    BY <1>5, <1>7, <1>11, <1>14, <2>2
  <2> QED
    BY <2>1, <2>2
<1>17. \A i \in 1..Len(buf) :
           i \in 1..Len(old) \/ (i - Len(old) \in 1..count
                                  /\ buf[i] = Stream(c)[taken[c] + (i - Len(old))])
  <2>1. \A i \in 1..count : part[i] = Stream(c)[taken[c] + i]
    BY <1>2, <1>4, <1>7, <1>9
  <2> QED
    BY <1>11, <2>1
<1>18. ReadInto(f, c, count, buf, header)
  BY <1>2, <1>4, <1>7, <1>11, <1>15, <1>16, <1>17 DEF ReadInto
<1>19. tasks' \in [Fds -> Nat]
  BY <1>15 DEF Typed, ServerTyped
<1> QED
  BY <1>2, <1>3, <1>18, <1>19

\* A task that asks has an entry, with a request line in front.
LEMMA AskHasEntry ==
    ASSUME Typed, NEW f \in Fds, Asks(f)
    PROVE  /\ connections[f] # None /\ connections[f] \in Entries
           /\ connections[f].headerEnd \in 1..Len(connections[f].buf)
           /\ First(f) = connections[f].buf[1] /\ First(f) \in Tokens
<1> PICK buf : buf = connections[f].buf
  OBVIOUS
<1>1. /\ connections[f] # None /\ connections[f] \in Entries
      /\ buf \in Seq(Tokens) /\ Len(buf) \in Nat
      /\ connections[f].headerEnd \in 1..Len(buf)
  BY DEF Asks, Typed, MapTyped, Entries
<1>2. buf[1] \in Tokens
  BY <1>1
<1> QED
  BY <1>1, <1>2 DEF First

\* What becomes of the entry of f.
Becomes(f, buf, header, state) ==
    connections' = [connections EXCEPT ![f] =
        [buf |-> buf, headerEnd |-> header, state |-> state]]

LEMMA EntryEquals ==
    ASSUME NEW conn \in Entries
    PROVE  /\ conn.buf \in Seq(Tokens) /\ conn.headerEnd \in Nat
           /\ conn.state \in {"READING", "WEBSOCKET"}
  BY DEF Entries

LEMMA EntryChanges ==
    ASSUME Typed, Tokens' = Tokens, NEW f \in Fds, lock' = None,
           NEW buf \in Seq(Tokens), NEW header \in 0..Len(buf),
           NEW state \in {"READING", "WEBSOCKET"}, Becomes(f, buf, header, state)
    PROVE  MapTyped'
<1> DEFINE e == [buf |-> buf, headerEnd |-> header, state |-> state]
<1>1. e \in Entries /\ e.headerEnd <= Len(e.buf)
  BY DEF Entries
<1>2. Entries' = Entries
  BY DEF Entries
<1>3. connections' = [connections EXCEPT ![f] = e]
  BY DEF Becomes
<1> HIDE DEF e
<1> QED
  BY <1>1, <1>2, <1>3, SMT DEF Typed, MapTyped

\* What a task of f has written is in the replies of its client, or the client
\* is gone.
LEMMA ReplyReplies ==
    ASSUME Typed, NEW f \in Fds, NEW token \in Tokens, Reply(f, token), ~Full(f)
    PROVE  /\ unread' \in [Clients -> 0..Window]
           /\ replies' \in [Clients -> Seq(Tokens)]
           /\ \/ replies' = replies
              \/ /\ file[f] \in Clients
                 /\ replies' = [replies EXCEPT ![file[f]] = Append(@, token)]
<1>1. CASE Gone(f)
  BY <1>1 DEF Reply, Typed, ClientsTyped, HistoryTyped
<1>2. CASE ~Gone(f)
  <2>1. file[f] \in Clients
    BY <1>2 DEF Gone, Typed, ServerTyped
  <2>2. unread[file[f]] \in 0..Window /\ unread[file[f]] # Window
    BY <1>2, <2>1 DEF Full, Typed, ClientsTyped
  <2>3. /\ unread' = [unread EXCEPT ![file[f]] = @ + 1]
        /\ replies' = [replies EXCEPT ![file[f]] = Append(@, token)]
    BY <1>2 DEF Reply
  <2>4. unread[file[f]] + 1 \in 0..Window
    BY <2>2, AsyncAssumption
  <2>5. Append(replies[file[f]], token) \in Seq(Tokens)
    BY <2>1 DEF Typed, HistoryTyped
  <2> QED
    BY <2>1, <2>3, <2>4, <2>5 DEF Typed, ClientsTyped, HistoryTyped
<1> QED
  BY <1>1, <1>2

LEMMA ShiftShifts ==
    ASSUME Typed, NEW f \in Fds, Asks(f), Shift(f)
    PROVE  LET conn == connections[f]
               buf == SubSeq(conn.buf, conn.headerEnd + 1, Len(conn.buf))
           IN  buf \in Seq(Tokens) /\ Becomes(f, buf, 0, conn.state)
<1> PICK conn : conn = connections[f]
  OBVIOUS
<1> PICK buf : buf = SubSeq(conn.buf, conn.headerEnd + 1, Len(conn.buf))
  OBVIOUS
<1>1. conn \in Entries /\ conn.headerEnd \in 1..Len(conn.buf)
  BY AskHasEntry
<1>2. conn.buf \in Seq(Tokens) /\ conn.headerEnd \in Nat
  BY <1>1, EntryEquals
<1>3. buf \in Seq(Tokens)
  <2>1. PICK s, m : s = conn.buf /\ m = conn.headerEnd
    OBVIOUS
  <2>2. s \in Seq(Tokens) /\ m \in Nat /\ m <= Len(s) /\ Len(s) \in Nat
    BY <1>1, <1>2, <2>1
  <2>3. SubSeq(s, m + 1, Len(s)) \in Seq(Tokens)
    BY <2>2, ListParts
  <2> QED
    BY <2>1, <2>3
<1>4. connections' = [connections EXCEPT ![f] = Holding(conn, buf, 0)]
  BY Zenon DEF Shift
<1> QED
  BY <1>2, <1>3, <1>4 DEF Becomes, Holding

LEMMA UpgradeBecomes ==
    ASSUME Typed, NEW f \in Fds, Asks(f),
           connections' = [connections EXCEPT ![f].state = "WEBSOCKET"]
    PROVE  Becomes(f, connections[f].buf, connections[f].headerEnd, "WEBSOCKET")
<1> PICK conn : conn = connections[f]
  OBVIOUS
<1>1. conn \in Entries
  BY AskHasEntry
<1>2. [conn EXCEPT !.state = "WEBSOCKET"]
          = [buf |-> conn.buf, headerEnd |-> conn.headerEnd, state |-> "WEBSOCKET"]
  BY <1>1 DEF Entries
<1> QED
  BY <1>2 DEF Becomes

-----------------------------------------------------------------------------
(* The types stay.                                                         *)

\* What a step that leaves the script alone leaves as it was.
LEMMA TypesStay ==
    ASSUME Typed, script' = script
    PROVE  /\ Tokens' = Tokens /\ Entries' = Entries
           /\ \A c \in Clients : Stream(c)' = Stream(c)
           /\ phase' = phase /\ sent' = sent /\ taken' = taken /\ unread' = unread
                 => ClientsTyped'
           /\ replies' = replies /\ heard' = heard => HistoryTyped'
           /\ connections' = connections /\ lock' = lock => MapTyped'
<1>1. /\ Tokens' = Tokens /\ \A c \in Clients : Stream(c)' = Stream(c)
      /\ Entries' = Entries
  BY StreamsStay DEF Entries
<1>2. ASSUME phase' = phase, sent' = sent, taken' = taken, unread' = unread
      PROVE  ClientsTyped'
  BY <1>1, <1>2 DEF Typed, ClientsTyped
<1>3. ASSUME replies' = replies, heard' = heard PROVE HistoryTyped'
  BY <1>1, <1>3 DEF Typed, HistoryTyped
<1>4. ASSUME connections' = connections, lock' = lock PROVE MapTyped'
  BY <1>1, <1>4 DEF Typed, MapTyped, Asks
<1> QED
  BY <1>1, <1>2, <1>3, <1>4

\* An entry is removed, or made anew, while no task holds the mutex.
LEMMA EntryGoes ==
    ASSUME Typed, Tokens' = Tokens, NEW f \in Fds, lock' = None,
           \/ connections' = [connections EXCEPT ![f] = None]
           \/ connections' = [connections EXCEPT ![f] = Entry]
    PROVE  MapTyped'
<1>1. Entries' = Entries /\ Entry \in Entries /\ Entry.headerEnd <= Len(Entry.buf)
  BY DEF Entries, Entry
<1>2. CASE connections' = [connections EXCEPT ![f] = None]
  BY <1>1, <1>2 DEF Typed, MapTyped
<1>3. CASE connections' = [connections EXCEPT ![f] = Entry]
  <2> HIDE DEF Entry
  <2> QED
    BY <1>1, <1>3, SMT DEF Typed, MapTyped
<1> QED
  BY <1>2, <1>3

\* What is taken has been sent.
LEMMA TakenTyped ==
    ASSUME Typed, script' = script, phase' = phase, sent' = sent, unread' = unread,
           NEW c \in Clients, NEW count \in 1..sent[c] - taken[c],
           taken' = [taken EXCEPT ![c] = @ + count]
    PROVE  ClientsTyped'
<1>1. \A d \in Clients : Stream(d)' = Stream(d)
  BY StreamsStay
<1>2. taken' \in [Clients -> Nat] /\ \A d \in Clients : taken'[d] <= sent[d]
  <2>1. taken[c] \in Nat /\ sent[c] \in Nat /\ taken[c] <= sent[c]
    BY DEF Typed, ClientsTyped
  <2>2. taken[c] + count \in Nat /\ taken[c] + count <= sent[c]
    BY <2>1
  <2> QED
    BY <2>2 DEF Typed, ClientsTyped
<1> QED
  BY <1>1, <1>2 DEF Typed, ClientsTyped

LEMMA EpollTyped ==
    ASSUME Typed, Epoll
    PROVE  Typed'
<1>1. CASE EpollWait
  <2>1. script' = script /\ events' \subseteq [fd : Fds, hup : BOOLEAN] \cup {Accepting}
    <3> DEFINE edges == {f \in Fds : file[f] \in ready}
    <3>1. PICK hups : events' = {[fd |-> f, hup |-> f \in hups] : f \in edges}
              \cup (IF {c \in Clients : phase[c] = "backlog"} = {} THEN {} ELSE {Accepting})
      BY <1>1, Zenon DEF EpollWait
    <3>2. \A f \in edges : [fd |-> f, hup |-> f \in hups] \in [fd : Fds, hup : BOOLEAN]
      OBVIOUS
    <3>3. script' = script
      BY <1>1 DEF EpollWait
    <3> QED
      BY <3>1, <3>2, <3>3
  <2>2. ClientsTyped' /\ HistoryTyped' /\ MapTyped'
    BY <1>1, <2>1, TypesStay DEF EpollWait, clientVars, historyVars
  <2>3. ServerTyped'
    BY <1>1, <2>1 DEF EpollWait, Typed, ServerTyped
  <2> QED
    BY <2>2, <2>3 DEF Typed
<1>2. CASE Accept
  <2>1. script' = script
    BY <1>2 DEF Accept, Accepted
  <2>2. HistoryTyped' /\ MapTyped'
    BY <1>2, <2>1, TypesStay DEF Accept, Accepted, historyVars
  <2>3. ClientsTyped'
    <3>1. \A d \in Clients : Stream(d)' = Stream(d)
      BY <2>1, TypesStay
    <3> QED
      BY <1>2, <2>1, <3>1 DEF Accept, Accepted, Typed, ClientsTyped
  <2>4. ServerTyped'
    BY <1>2 DEF Accept, Accepted, Typed, ServerTyped
  <2> QED
    BY <2>2, <2>3, <2>4 DEF Typed
<1>3. CASE Add
  <2>1. script' = script /\ at.fd \in Fds
    BY <1>3 DEF Add, Typed, ServerTyped
  <2>2. ClientsTyped' /\ HistoryTyped' /\ Tokens' = Tokens
    BY <1>3, <2>1, TypesStay DEF Add, clientVars, historyVars
  <2>3. MapTyped'
    BY <1>3, <2>1, <2>2, EntryGoes DEF Add
  <2>4. ServerTyped'
    BY <1>3 DEF Add, Typed, ServerTyped
  <2> QED
    BY <2>2, <2>3, <2>4 DEF Typed
<1>4. CASE CloseHangup
  <2>1. script' = script /\ at.fd \in Fds
    BY <1>4 DEF CloseHangup, Typed, ServerTyped
  <2>2. ClientsTyped' /\ HistoryTyped' /\ MapTyped'
    BY <1>4, <2>1, TypesStay DEF CloseHangup, clientVars, historyVars
  <2>3. ServerTyped'
    BY <1>4, <2>1 DEF CloseHangup, Close, Typed, ServerTyped
  <2> QED
    BY <2>2, <2>3 DEF Typed
<1>5. ASSUME NEW f \in Fds, Hangup(f) PROVE Typed'
  <2>1. script' = script /\ lock' = None
    BY <1>5 DEF Hangup, Loop
  <2>2. ClientsTyped' /\ HistoryTyped' /\ Tokens' = Tokens
    BY <1>5, <2>1, TypesStay DEF Hangup, clientVars, historyVars
  <2>3. MapTyped'
    BY <1>5, <2>1, <2>2, EntryGoes DEF Hangup
  <2>4. ServerTyped'
    BY <1>5 DEF Hangup, Typed, ServerTyped
  <2> QED
    BY <2>2, <2>3, <2>4 DEF Typed
<1>6. ASSUME NEW f \in Fds, ReadNothing(f) PROVE Typed'
  <2>1. script' = script
    BY <1>6 DEF ReadNothing
  <2>2. ClientsTyped' /\ HistoryTyped' /\ MapTyped'
    BY <1>6, <2>1, TypesStay DEF ReadNothing, clientVars, historyVars
  <2>3. ServerTyped'
    BY <1>6 DEF ReadNothing, Readable, Typed, ServerTyped
  <2> QED
    BY <2>2, <2>3 DEF Typed
<1>7. ASSUME NEW f \in Fds, ReadEnds(f) PROVE Typed'
  <2>1. script' = script /\ lock' = None
    BY <1>7 DEF ReadEnds, Readable, Loop
  <2>2. ClientsTyped' /\ HistoryTyped' /\ Tokens' = Tokens
    BY <1>7, <2>1, TypesStay DEF ReadEnds, clientVars, historyVars
  <2>3. MapTyped'
    BY <1>7, <2>1, <2>2, EntryGoes DEF ReadEnds
  <2>4. ServerTyped'
    BY <1>7 DEF ReadEnds, Readable, Close, Typed, ServerTyped
  <2> QED
    BY <2>2, <2>3, <2>4 DEF Typed
<1>8. ASSUME NEW f \in Fds, Read(f) PROVE Typed'
  <2>1. /\ script' = script /\ lock' = None /\ phase' = phase /\ sent' = sent
        /\ unread' = unread /\ replies' = replies /\ heard' = heard
    BY <1>8, Zenon DEF Read, Readable, Loop, clientVars, historyVars
  <2>2. HistoryTyped' /\ Tokens' = Tokens
    BY <2>1, TypesStay
  <2>3. /\ file[f] \in Clients /\ connections[f] \in Entries /\ tasks' \in [Fds -> Nat]
        /\ \E count, buf, header : ReadInto(f, file[f], count, buf, header)
    BY <1>8, ReadReads
  <2>4. PICK count, buf, header : ReadInto(f, file[f], count, buf, header)
    BY <2>3
  <2>5. ClientsTyped'
    BY <2>1, <2>3, <2>4, TakenTyped DEF ReadInto
  <2>6. MapTyped'
    <3>1. Becomes(f, buf, header, connections[f].state)
      BY <2>4 DEF ReadInto, Becomes, Holding
    <3>2. buf \in Seq(Tokens) /\ header \in 0..Len(buf)
          /\ connections[f].state \in {"READING", "WEBSOCKET"}
      BY <2>3, <2>4 DEF ReadInto, Entries
    <3> QED
      BY <2>1, <2>2, <3>1, <3>2, EntryChanges
  <2>7. ServerTyped'
    <3>1. /\ file' = file /\ ready' = ready /\ at' = at /\ lock' = lock /\ chat' = chat
          /\ events' \subseteq events
      BY <1>8, Zenon DEF Read, Readable
    <3> QED
      BY <2>3, <3>1 DEF Typed, ServerTyped
  <2> QED
    BY <2>2, <2>5, <2>6, <2>7 DEF Typed
<1> QED
  BY <1>1, <1>2, <1>3, <1>4, <1>5, <1>6, <1>7, <1>8 DEF Epoll

LEMMA TaskTyped ==
    ASSUME Typed, NEW f \in Fds, Task(f)
    PROVE  Typed'
<1> USE DEF Typed
<1>1. script' = script
  BY Zenon DEF Task, RunNothing, RunWritev, RunSendAll, SentGarbled, SentFile, SentUpgrade
<1>2. Tokens' = Tokens
  BY <1>1, TypesStay
<1>3. CASE RunNothing(f)
  <2>1. ClientsTyped' /\ HistoryTyped' /\ MapTyped'
    BY <1>1, <1>3, TypesStay DEF RunNothing, clientVars, historyVars
  <2>2. ServerTyped'
    BY <1>3 DEF RunNothing, Run, epollVars, ServerTyped
  <2> QED
    BY <2>1, <2>2
<1>4. CASE RunSendAll(f)
  <2>1. ClientsTyped' /\ HistoryTyped'
    BY <1>1, <1>4, TypesStay DEF RunSendAll, clientVars, historyVars
  <2>2. MapTyped'
    <3>1. connections' = connections /\ Entries' = Entries /\ lock' = f /\ Asks(f)
      BY <1>1, <1>4, TypesStay DEF RunSendAll
    <3>2. Asks(f)'
      BY <3>1 DEF Asks
    <3>3. Asks(lock)'
      BY <3>1, <3>2 DEF Asks
    <3> QED
      BY <3>1, <3>3 DEF MapTyped
  <2>3. ServerTyped'
    BY <1>4 DEF RunSendAll, Run, epollVars, ServerTyped
  <2> QED
    BY <2>1, <2>2, <2>3
<1>5. ASSUME lock = f PROVE Asks(f)
  BY <1>5, AsyncAssumption DEF MapTyped
<1>6. ASSUME Asks(f), Reply(f, First(f)), ~Full(f), phase' = phase, sent' = sent,
             taken' = taken, heard' = heard
      PROVE  ClientsTyped' /\ HistoryTyped'
  <2>1. unread' \in [Clients -> 0..Window] /\ replies' \in [Clients -> Seq(Tokens)]
    BY <1>6, AskHasEntry, ReplyReplies
  <2>2. \A c \in Clients : Stream(c)' = Stream(c)
    BY <1>1, TypesStay
  <2> QED
    BY <1>1, <1>2, <1>6, <2>1, <2>2 DEF ClientsTyped, HistoryTyped
<1>7. ASSUME Asks(f), Shift(f), lock' = None PROVE MapTyped'
  <2>1. connections[f].state \in {"READING", "WEBSOCKET"}
    BY <1>7, AskHasEntry DEF Entries
  <2>2. PICK buf \in Seq(Tokens) : Becomes(f, buf, 0, connections[f].state)
    BY <1>7, ShiftShifts
  <2>3. 0 \in 0..Len(buf)
    OBVIOUS
  <2> QED
    BY <1>2, <1>7, <2>1, <2>2, <2>3, EntryChanges
<1>8. CASE RunWritev(f)
  <2>1. ServerTyped'
    BY <1>8 DEF RunWritev, Run, epollVars, ServerTyped
  <2>2. /\ Asks(f) /\ phase' = phase /\ sent' = sent /\ taken' = taken
        /\ heard' = heard /\ lock' = lock /\ lock = None
    BY <1>8 DEF RunWritev, Run
  <2>3. CASE ~Full(f) /\ file[f] # None /\ Shift(f) /\ Reply(f, First(f))
    BY <1>6, <1>7, <2>1, <2>2, <2>3
  <2>4. CASE UNCHANGED <<unread, connections, replies>>
    BY <1>1, <2>1, <2>2, <2>4, TypesStay
  <2> QED
    BY <1>8, <2>3, <2>4 DEF RunWritev
<1>9. CASE SentGarbled(f)
  <2>1. ServerTyped'
    BY <1>9 DEF SentGarbled, epollVars, ServerTyped
  <2>2. Asks(f) /\ ClientsTyped' /\ HistoryTyped'
    BY <1>5, <1>6, <1>9 DEF SentGarbled
  <2>3. MapTyped'
    <3>1. Becomes(f, <<>>, 0, connections[f].state) /\ lock' = None
      BY <1>9, Zenon DEF SentGarbled, Becomes, Holding
    <3>2. <<>> \in Seq(Tokens) /\ 0 \in 0..Len(<<>>)
          /\ connections[f].state \in {"READING", "WEBSOCKET"}
      BY <2>2, AskHasEntry DEF Entries
    <3> QED
      BY <1>2, <3>1, <3>2, EntryChanges
  <2> QED
    BY <2>1, <2>2, <2>3
<1>10. CASE SentFile(f)
  <2>1. ServerTyped'
    BY <1>10 DEF SentFile, epollVars, ServerTyped
  <2>2. Asks(f) /\ ClientsTyped' /\ HistoryTyped'
    BY <1>5, <1>6, <1>10 DEF SentFile
  <2>3. MapTyped'
    BY <1>7, <1>10, <2>2 DEF SentFile
  <2> QED
    BY <2>1, <2>2, <2>3
<1>11. CASE SentUpgrade(f)
  <2>1. Asks(f) /\ ClientsTyped' /\ HistoryTyped'
    BY <1>5, <1>6, <1>11 DEF SentUpgrade
  <2>2. MapTyped'
    <3>1. /\ Becomes(f, connections[f].buf, connections[f].headerEnd, "WEBSOCKET")
          /\ connections[f].buf \in Seq(Tokens)
          /\ connections[f].headerEnd \in 0..Len(connections[f].buf)
          /\ lock' = None
      <4>1. connections' = [connections EXCEPT ![f].state = "WEBSOCKET"] /\ lock' = None
        BY <1>11 DEF SentUpgrade
      <4>2. Becomes(f, connections[f].buf, connections[f].headerEnd, "WEBSOCKET")
        BY <2>1, <4>1, UpgradeBecomes, Zenon
      <4>3. /\ connections[f].buf \in Seq(Tokens) /\ Len(connections[f].buf) \in Nat
            /\ connections[f].headerEnd \in 1..Len(connections[f].buf)
        BY <2>1, AskHasEntry DEF Entries
      <4> QED
        BY <4>1, <4>2, <4>3
    <3> QED
      BY <1>2, <3>1, EntryChanges
  <2>3. ServerTyped'
    <3>1. chat' \in [Chats -> {Idle} \cup [doing : {"chat", "leave"}, fd : Fds]]
      BY <1>11 DEF SentUpgrade, FreeChats, ServerTyped
    <3> QED
      BY <1>11, <3>1 DEF SentUpgrade, epollVars, ServerTyped
  <2> QED
    BY <2>1, <2>2, <2>3
<1> QED
  BY <1>3, <1>4, <1>8, <1>9, <1>10, <1>11 DEF Task

\* A handler takes all that there is, and picks the frames: the k-th is at
\* place[k] of what it takes.
ReadBy(h, c, texts, place) ==
    /\ c = file[chat[h].fd] /\ chat[h].fd \in Fds
    /\ sent[c] - taken[c] \in Nat \ {0}
    /\ taken' = [taken EXCEPT ![c] = @ + (sent[c] - taken[c])]
    /\ heard' = [heard EXCEPT ![c] = @ \o texts]
    /\ place \in [1..Len(texts) -> 1..sent[c] - taken[c]]
    /\ \A k \in 1..Len(texts) :
          /\ taken[c] + place[k] \in 1..Len(Stream(c))
          /\ texts[k] = Stream(c)[taken[c] + place[k]]
          /\ Kind(texts[k]) = "text"
    /\ \A j, k \in 1..Len(texts) : j < k => place[j] < place[k]

LEMMA ChatTakes ==
    ASSUME Typed, NEW h \in Chats, ChatReads(h)
    PROVE  \E c \in Clients, texts \in Seq(Tokens) : \E place : ReadBy(h, c, texts, place)
<1>1. PICK f : f = chat[h].fd
  OBVIOUS
<1>2. f \in Fds /\ Unseen(f) # <<>>
  BY <1>1 DEF ChatReads, Chatting, Typed, ServerTyped, Idle
<1>3. PICK c : c = file[f]
  OBVIOUS
<1>4. PICK u : u = Unseen(f)
  OBVIOUS
<1>5. /\ c \in Clients /\ taken[c] \in Nat /\ sent[c] \in Nat
      /\ u \in Seq(Tokens) /\ Len(u) = sent[c] - taken[c] /\ Len(u) \in Nat \ {0}
      /\ \A i \in 1..Len(u) :
            taken[c] + i \in 1..Len(Stream(c)) /\ u[i] = Stream(c)[taken[c] + i]
  BY <1>2, <1>3, <1>4, UnseenIsSent
<1>6. PICK places : places = {i \in DOMAIN u : Kind(u[i]) = "text"}
  OBVIOUS
<1>7. PICK texts : texts = Pick(u, places)
  OBVIOUS
<1>8. /\ taken' = [taken EXCEPT ![c] = @ + Len(u)]
      /\ heard' = [heard EXCEPT ![c] = @ \o texts]
  BY <1>1, <1>3, <1>4, <1>6, <1>7, Zenon DEF ChatReads, Take
<1>9. texts \in Seq(Tokens) /\ \E p : Selects(p, texts, u, Len(u), places)
  BY <1>5, <1>7, PickSelects
<1>10. PICK p : Selects(p, texts, u, Len(u), places)
  BY <1>9
<1>11. /\ p \in [1..Len(texts) -> 1..Len(u)]
       /\ \A k \in 1..Len(texts) : texts[k] = u[p[k]] /\ p[k] \in places
       /\ \A j, k \in 1..Len(texts) : j < k => p[j] < p[k]
  BY <1>10 DEF Selects
<1>12. \A k \in 1..Len(texts) :
           /\ taken[c] + p[k] \in 1..Len(Stream(c))
           /\ texts[k] = Stream(c)[taken[c] + p[k]]
           /\ Kind(texts[k]) = "text"
  <2> TAKE k \in 1..Len(texts)
  <2>1. p[k] \in 1..Len(u) /\ p[k] \in places /\ texts[k] = u[p[k]]
    BY <1>11
  <2>2. Kind(u[p[k]]) = "text"
    BY <1>6, <2>1
  <2> QED
    BY <1>5, <2>1, <2>2
<1>13. /\ sent[c] - taken[c] \in Nat \ {0}
       /\ taken' = [taken EXCEPT ![c] = @ + (sent[c] - taken[c])]
       /\ p \in [1..Len(texts) -> 1..sent[c] - taken[c]]
  BY <1>5, <1>8, <1>11
<1>14. c = file[chat[h].fd] /\ chat[h].fd \in Fds /\ c \in Clients
  BY <1>1, <1>2, <1>3, <1>5
<1>15. ReadBy(h, c, texts, p)
  BY <1>8, <1>11, <1>12, <1>13, <1>14, Zenon DEF ReadBy
<1> QED
  BY <1>9, <1>14, <1>15, Zenon

LEMMA ChatTyped ==
    ASSUME Typed, NEW h \in Chats, Chat(h)
    PROVE  Typed'
<1>1. script' = script
  BY Zenon DEF Chat, ChatEnds, ChatReads, ChatCloses
<1>2. ASSUME Chatting(h), Leaves(h)
      PROVE  chat' \in [Chats -> {Idle} \cup [doing : {"chat", "leave"}, fd : Fds]]
  BY <1>2 DEF Chatting, Leaves, Typed, ServerTyped, Idle
<1>3. CASE ChatEnds(h)
  <2>1. ClientsTyped' /\ HistoryTyped' /\ MapTyped'
    BY <1>1, <1>3, TypesStay DEF ChatEnds, clientVars, historyVars
  <2>2. ServerTyped'
    BY <1>2, <1>3 DEF ChatEnds, epollVars, Typed, ServerTyped
  <2> QED
    BY <2>1, <2>2 DEF Typed
<1>4. CASE ChatReads(h)
  <2>1. /\ phase' = phase /\ sent' = sent /\ unread' = unread /\ replies' = replies
        /\ connections' = connections /\ lock' = lock
    BY <1>4, Zenon DEF ChatReads, clientVars
  <2>2. PICK c \in Clients, texts \in Seq(Tokens) :
            /\ sent[c] - taken[c] \in Nat \ {0}
            /\ taken' = [taken EXCEPT ![c] = @ + (sent[c] - taken[c])]
            /\ heard' = [heard EXCEPT ![c] = @ \o texts]
    BY <1>4, ChatTakes, Zenon DEF ReadBy
  <2>3. MapTyped' /\ Tokens' = Tokens
    BY <1>1, <2>1, TypesStay
  <2>4. ClientsTyped'
    <3>1. PICK count : count = sent[c] - taken[c]
      OBVIOUS
    <3>2. count \in 1..sent[c] - taken[c] /\ taken' = [taken EXCEPT ![c] = @ + count]
      BY <2>2, <3>1
    <3> QED
      BY <1>1, <2>1, <3>2, TakenTyped
  <2>5. HistoryTyped'
    <3>1. heard[c] \o texts \in Seq(Tokens)
      BY DEF Typed, HistoryTyped
    <3> QED
      BY <2>1, <2>2, <2>3, <3>1 DEF Typed, HistoryTyped
  <2>6. ServerTyped'
    <3>1. chat' \in [Chats -> {Idle} \cup [doing : {"chat", "leave"}, fd : Fds]]
      BY <1>2, <1>4, Zenon DEF ChatReads, Typed, ServerTyped
    <3>2. /\ file' = file /\ ready' = ready /\ events' = events /\ at' = at
          /\ tasks' = tasks /\ lock' = lock
      BY <1>4, Zenon DEF ChatReads, epollVars
    <3> QED
      BY <3>1, <3>2 DEF Typed, ServerTyped
  <2> QED
    BY <2>3, <2>4, <2>5, <2>6 DEF Typed
<1>5. CASE ChatCloses(h)
  <2>1. ClientsTyped' /\ HistoryTyped' /\ MapTyped'
    BY <1>1, <1>5, TypesStay DEF ChatCloses, clientVars, historyVars
  <2>2. chat[h].fd \in Fds
    BY <1>5 DEF ChatCloses, Typed, ServerTyped, Idle
  <2>3. ServerTyped'
    BY <1>5, <2>2 DEF ChatCloses, Close, Typed, ServerTyped
  <2> QED
    BY <2>1, <2>3 DEF Typed
<1> QED
  BY <1>3, <1>4, <1>5 DEF Chat

LEMMA TypedNext == Typed /\ [Next]_vars => Typed'
<1> SUFFICES ASSUME Typed, [Next]_vars PROVE Typed'
  OBVIOUS
<1>1. CASE UNCHANGED vars
  <2>1. script' = script
    BY <1>1 DEF vars
  <2>2. ClientsTyped' /\ HistoryTyped' /\ MapTyped'
    BY <1>1, <2>1, TypesStay DEF vars, clientVars, historyVars
  <2>3. ServerTyped'
    BY <1>1 DEF vars, epollVars, Typed, ServerTyped
  <2> QED
    BY <2>2, <2>3 DEF Typed
<1> QED
  BY <1>1, ClientTyped, EpollTyped, TaskTyped, ChatTyped DEF Next

\* Every variable has its type: among others, the header that a task finds
\* ends in the buffer, and the task that holds the mutex has an entry.
THEOREM TypeCorrect == Spec => []TypeOK
<1>1. Spec => []Typed
  BY TypedInit, TypedNext, PTL DEF Spec
<1> QED
  BY <1>1, TypedIsTypeOK, PTL

-----------------------------------------------------------------------------
(* The clients are kept apart: the invariant.                              *)

\* A reply to t may stand in front of one to u.
Done(t, u) == t.n <= u.n /\ (Kind(t) # "upgrade" => t.n < u.n)

\* What c has sent, or will send, behind its first n tokens.
Future(c, n) == {Stream(c)[p] : p \in n + 1..Len(Stream(c))}

\* buf holds tokens of c, in order and in front of those in U.
Holds(buf, c, U) ==
    \A i \in 1..Len(buf) :
        /\ buf[i].from = c
        /\ \A j \in 1..Len(buf) : i < j => Before(buf[i], buf[j])
        /\ \A u \in U : Before(buf[i], u)

\* rs are replies to c, in order, and not to what is in U.
Answers(rs, c, U) ==
    \A i \in 1..Len(rs) :
        /\ rs[i].from = c
        /\ \A j \in 1..Len(rs) : i < j => Done(rs[i], rs[j])
        /\ \A u \in U : Done(rs[i], u)

\* rs are not replies to what is in buf.
Ahead(rs, buf) == \A i \in 1..Len(rs), k \in 1..Len(buf) : Done(rs[i], buf[k])

\* f is a connection that the epoll thread reads.
Known(f) == connections[f] # None /\ file[f] # None

\* A descriptor stands for one client, which has been accepted.
FilesSound ==
    /\ \A f, g \in Fds : file[f] # None /\ file[f] = file[g] => f = g
    /\ \A f \in Fds : file[f] # None => phase[file[f]] \in {"open", "gone"}

\* Where a header is said to end, one does.
EndsSound == \A f \in Fds : Asks(f) => connections[f].buf[connections[f].headerEnd].last

HeardOf(c) ==
    /\ \A i, j \in 1..Len(heard[c]) : i < j => heard[c][i].n < heard[c][j].n
    /\ \A i \in 1..Len(heard[c]) : \A u \in Future(c, taken[c]) : heard[c][i].n < u.n
HeardSound == \A c \in Clients : HeardOf(c)

\* The buffer of a connection: what its client has sent, and not yet answered.
Waits(f) ==
    Known(f) => /\ Holds(connections[f].buf, file[f], Future(file[f], taken[file[f]]))
                /\ Ahead(replies[file[f]], connections[f].buf)
Told(c) == Answers(replies[c], c, Future(c, taken[c]))
OrderSound == ~reused => (\A f \in Fds : Waits(f)) /\ (\A c \in Clients : Told(c))

Apart == Typed /\ FilesSound /\ EndsSound /\ HeardSound /\ OrderSound

LEMMA TokensAreMessages ==
    ASSUME script \in Scripts
    PROVE  Tokens \subseteq Messages
<1> SUFFICES ASSUME NEW c \in Clients, NEW t \in Range(Stream(c)) PROVE t \in Messages
  BY Zenon DEF Tokens
<1>1. Stream(c) \in Seq(Messages)
  BY StreamInOrder
<1> QED
  BY <1>1 DEF Range

\* What is left to come gets less.
LEMMA FutureShrinks ==
    ASSUME script \in Scripts, NEW c \in Clients, NEW m \in Nat, NEW n \in Nat, m <= n
    PROVE  Future(c, n) \subseteq Future(c, m) /\ Future(c, m) \subseteq Tokens
<1>1. PICK s : s = Stream(c)
  OBVIOUS
<1>2. s \in Seq(Tokens)
  BY <1>1, StreamTyped
<1>3. Future(c, n) = {s[p] : p \in n + 1..Len(s)} /\ Future(c, m) = {s[p] : p \in m + 1..Len(s)}
  BY <1>1, Zenon DEF Future
<1> QED
  BY <1>2, <1>3

LEMMA FutureStays ==
    ASSUME script' = script, NEW c \in Clients, NEW n
    PROVE  Future(c, n)' = Future(c, n)
  BY StreamsStay DEF Future

LEMMA DoneStays ==
    ASSUME script' = script
    PROVE  /\ \A rs, c, U : Answers(rs, c, U)' = Answers(rs, c, U)
           /\ \A rs, buf : Ahead(rs, buf)' = Ahead(rs, buf)
<1>1. \A t, u : Done(t, u)' = Done(t, u)
  BY DEF Done, Kind
<1> QED
  BY <1>1, Zenon DEF Answers, Ahead

\* A part of the buffer is as good.
LEMMA PartHolds ==
    ASSUME script \in Scripts, NEW buf \in Seq(Tokens), NEW c, NEW U, Holds(buf, c, U),
           NEW rs, Ahead(rs, buf), NEW e \in 0..Len(buf)
    PROVE  LET part == SubSeq(buf, e + 1, Len(buf))
           IN  Holds(part, c, U) /\ Ahead(rs, part)
<1>1. PICK part : part = SubSeq(buf, e + 1, Len(buf))
  OBVIOUS
<1>2. \A i \in 1..Len(part) : e + i \in 1..Len(buf) /\ part[i] = buf[e + i]
  BY <1>1
<1>3. \A i, j \in 1..Len(part) : i < j => e + i < e + j
  BY <1>1
<1>4. Holds(part, c, U)
  <2> SUFFICES ASSUME NEW i \in 1..Len(part)
               PROVE  /\ part[i].from = c
                      /\ \A j \in 1..Len(part) : i < j => Before(part[i], part[j])
                      /\ \A u \in U : Before(part[i], u)
    BY Zenon DEF Holds
  <2> QED
    BY <1>2, <1>3, Zenon DEF Holds
<1>5. Ahead(rs, part)
  BY <1>2, Zenon DEF Ahead
<1> QED
  BY <1>1, <1>4, <1>5

\* One more reply.
LEMMA ReplyAnswers ==
    ASSUME script \in Scripts, NEW rs \in Seq(Tokens), NEW t \in Tokens, NEW c, NEW U,
           Answers(rs, c, U), t.from = c, \A i \in 1..Len(rs) : Done(rs[i], t),
           \A u \in U : Done(t, u)
    PROVE  /\ Answers(Append(rs, t), c, U)
           /\ \A buf : Ahead(rs, buf) /\ (\A k \in 1..Len(buf) : Done(t, buf[k]))
                          => Ahead(Append(rs, t), buf)
<1>1. PICK rs2 : rs2 = Append(rs, t)
  OBVIOUS
<1>2. /\ Len(rs) \in Nat /\ Len(rs2) = Len(rs) + 1 /\ rs2[Len(rs2)] = t
      /\ \A i \in 1..Len(rs) : rs2[i] = rs[i]
      /\ \A i \in 1..Len(rs2) : i \in 1..Len(rs) \/ i = Len(rs2)
      /\ \A i, j \in 1..Len(rs2) : i < j => i \in 1..Len(rs)
  BY <1>1
<1>3. Answers(rs2, c, U)
  <2> SUFFICES ASSUME NEW i \in 1..Len(rs2)
               PROVE  /\ rs2[i].from = c
                      /\ \A j \in 1..Len(rs2) : i < j => Done(rs2[i], rs2[j])
                      /\ \A u \in U : Done(rs2[i], u)
    BY Zenon DEF Answers
  <2>1. CASE i \in 1..Len(rs)
    <3>1. rs2[i] = rs[i]
      BY <1>2, <2>1
    <3>2. \A j \in 1..Len(rs2) : i < j => Done(rs[i], rs2[j])
      <4> TAKE j \in 1..Len(rs2)
      <4> HAVE i < j
      <4>1. CASE j \in 1..Len(rs)
        BY <1>2, <2>1, <4>1, Zenon DEF Answers
      <4>2. CASE j = Len(rs2)
        BY <1>2, <2>1, <4>2, Zenon
      <4> QED
        BY <1>2, <4>1, <4>2
    <3> QED
      BY <2>1, <3>1, <3>2, Zenon DEF Answers
  <2>2. CASE i = Len(rs2)
    <3>1. rs2[i] = t
      BY <1>2, <2>2
    <3>2. \A j \in 1..Len(rs2) : ~(i < j)
      BY <1>2, <2>2
    <3> QED
      BY <3>1, <3>2, Zenon
  <2> QED
    BY <1>2, <2>1, <2>2
<1>4. ASSUME NEW buf, Ahead(rs, buf), \A k \in 1..Len(buf) : Done(t, buf[k])
      PROVE  Ahead(rs2, buf)
  BY <1>2, <1>4, Zenon DEF Ahead
<1> QED
  BY <1>1, <1>3, <1>4

\* A reply to what is in front leaves what comes after the header.
LEMMA AnswerFirst ==
    ASSUME script \in Scripts, NEW buf \in Seq(Tokens), NEW rs \in Seq(Tokens),
           NEW c, NEW U \in SUBSET Tokens, Holds(buf, c, U), Answers(rs, c, U), Ahead(rs, buf),
           NEW e \in 1..Len(buf), buf[e].last
    PROVE  /\ Answers(Append(rs, buf[1]), c, U)
           /\ Ahead(Append(rs, buf[1]), SubSeq(buf, e + 1, Len(buf)))
<1> PICK t : t = buf[1]
  OBVIOUS
<1>1. /\ Len(buf) \in Nat /\ 1 \in 1..Len(buf) /\ t \in Tokens
      /\ \A k \in 1..Len(buf) : buf[k] \in Tokens
  OBVIOUS
<1>2. \A u \in Tokens : u.n \in Nat
  BY TokensAreMessages DEF Messages
<1>3. t.n <= buf[e].n
  <2>1. CASE e = 1
    BY <1>1, <1>2, <2>1
  <2>2. CASE e # 1
    <3>1. Before(t, buf[e])
      BY <1>1, <2>2 DEF Holds
    <3> QED
      BY <3>1 DEF Before
  <2> QED
    BY <2>1, <2>2
<1>4. \A u \in U : Done(t, u)
  <2> TAKE u \in U
  <2>1. Before(buf[e], u)
    BY DEF Holds
  <2>2. buf[e].n < u.n
    BY <2>1 DEF Before
  <2>3. t.n < u.n
    BY <1>1, <1>2, <1>3, <2>2
  <2> QED
    BY <1>1, <1>2, <2>3 DEF Done
<1> PICK part : part = SubSeq(buf, e + 1, Len(buf))
  OBVIOUS
<1>5. \A k \in 1..Len(part) : Done(t, part[k])
  <2> TAKE k \in 1..Len(part)
  <2>1. e + k \in 1..Len(buf) /\ part[k] = buf[e + k] /\ e < e + k
    OBVIOUS
  <2>2. Before(buf[e], buf[e + k])
    BY <2>1, Zenon DEF Holds
  <2>3. buf[e].n < buf[e + k].n
    BY <2>2 DEF Before
  <2>4. t.n < buf[e + k].n
    BY <1>1, <1>2, <1>3, <2>1, <2>3
  <2> QED
    BY <1>1, <1>2, <2>1, <2>4 DEF Done
<1>6. t.from = c /\ \A i \in 1..Len(rs) : Done(rs[i], t)
  BY <1>1, Zenon DEF Holds, Ahead
<1>7. Ahead(rs, part)
  <2>1. e \in 0..Len(buf)
    OBVIOUS
  <2> QED
    BY <2>1, PartHolds
<1> QED
  BY <1>1, <1>4, <1>5, <1>6, <1>7, ReplyAnswers

\* An upgrade may be answered again: it stays in front.
LEMMA AnswerUpgrade ==
    ASSUME script \in Scripts, NEW buf \in Seq(Tokens), buf # <<>>, NEW rs \in Seq(Tokens),
           NEW c, NEW U \in SUBSET Tokens, Holds(buf, c, U), Answers(rs, c, U), Ahead(rs, buf),
           Kind(buf[1]) = "upgrade"
    PROVE  Answers(Append(rs, buf[1]), c, U) /\ Ahead(Append(rs, buf[1]), buf)
<1> PICK t : t = buf[1]
  OBVIOUS
<1>1. /\ Len(buf) \in Nat /\ 1 \in 1..Len(buf) /\ t \in Tokens
      /\ \A k \in 1..Len(buf) : k = 1 \/ 1 < k
  OBVIOUS
<1>2. t.n \in Nat
  BY <1>1, TokensAreMessages DEF Messages
<1>3. \A u : Before(t, u) => Done(t, u)
  BY DEF Before, Done
<1>4. Done(t, t)
  BY <1>2 DEF Done
<1>5. \A u \in U : Done(t, u)
  BY <1>1, <1>3, Zenon DEF Holds
<1>6. \A k \in 1..Len(buf) : Done(t, buf[k])
  BY <1>1, <1>3, <1>4, Zenon DEF Holds
<1>7. t.from = c /\ \A i \in 1..Len(rs) : Done(rs[i], t)
  BY <1>1, Zenon DEF Holds, Ahead
<1> QED
  BY <1>1, <1>5, <1>6, <1>7, ReplyAnswers

\* What is read comes after what is there.
LEMMA ReadHolds ==
    ASSUME script \in Scripts, NEW c \in Clients, NEW n \in Nat, NEW count \in Nat,
           n + count <= Len(Stream(c)),
           NEW old \in Seq(Tokens), NEW buf \in Seq(Tokens), Len(buf) = Len(old) + count,
           \A i \in 1..Len(old) : buf[i] = old[i],
           \A i \in 1..Len(buf) :
              \/ i \in 1..Len(old)
              \/ i - Len(old) \in 1..count /\ buf[i] = Stream(c)[n + (i - Len(old))],
           Holds(old, c, Future(c, n)),
           NEW rs, Answers(rs, c, Future(c, n)), Ahead(rs, old)
    PROVE  Holds(buf, c, Future(c, n + count)) /\ Ahead(rs, buf)
<1> PICK s : s = Stream(c)
  OBVIOUS
<1> PICK a \in Nat : a = Len(old)
  OBVIOUS
<1>1. /\ s \in Seq(Tokens) /\ Len(s) \in Nat
      /\ \A p \in 1..Len(s) : s[p].from = c
      /\ \A p, q \in 1..Len(s) : p < q => Before(s[p], s[q])
  <2>1. DOMAIN s = 1..Len(s) /\ s \in Seq(Tokens)
    BY StreamTyped
  <2> QED
    <3>1. /\ \A p \in DOMAIN s : s[p].from = c
          /\ \A p, q \in DOMAIN s : p < q => Before(s[p], s[q])
      BY StreamInOrder, Zenon
    <3>2. Len(s) \in Nat
      BY <2>1
    <3> QED
      BY <2>1, <3>1, <3>2, Zenon
<1>2. \A m : Future(c, m) = {s[p] : p \in m + 1..Len(s)}
  BY Zenon DEF Future
<1>3. \A i \in 1..Len(buf) : i \notin 1..a =>
          /\ n + (i - a) \in n + 1..Len(s) /\ n + (i - a) \in 1..Len(s)
          /\ n + (i - a) <= n + count
          /\ buf[i] = s[n + (i - a)] /\ a < i
  BY <1>1
<1>4. \A i \in 1..Len(buf) : i \notin 1..a => buf[i] \in Future(c, n)
  <2>1. \A i \in 1..Len(buf) : i \notin 1..a => \E p \in n + 1..Len(s) : buf[i] = s[p]
    BY <1>3, Zenon
  <2>2. \A p \in n + 1..Len(s) : s[p] \in Future(c, n)
    BY <1>2
  <2> QED
    BY <2>1, <2>2, Zenon
<1>5. Future(c, n + count) \subseteq Future(c, n)
  BY FutureShrinks
<1>6. Holds(buf, c, Future(c, n + count))
  <2> SUFFICES ASSUME NEW i \in 1..Len(buf)
               PROVE  /\ buf[i].from = c
                      /\ \A j \in 1..Len(buf) : i < j => Before(buf[i], buf[j])
                      /\ \A u \in Future(c, n + count) : Before(buf[i], u)
    BY Zenon DEF Holds
  <2>1. CASE i \in 1..a
    <3>1. buf[i] = old[i]
      BY <2>1
    <3>2. \A j \in 1..Len(buf) : i < j => Before(old[i], buf[j])
      <4> TAKE j \in 1..Len(buf)
      <4> HAVE i < j
      <4>1. CASE j \in 1..a
        BY <2>1, <4>1 DEF Holds
      <4>2. CASE j \notin 1..a
        BY <1>4, <2>1, <4>2 DEF Holds
      <4> QED
        BY <4>1, <4>2
    <3> QED
      BY <1>5, <2>1, <3>1, <3>2 DEF Holds
  <2>2. CASE i \notin 1..a
    <3>1. PICK p : p = n + (i - a)
      OBVIOUS
    <3>2. p \in 1..Len(s) /\ p <= n + count /\ buf[i] = s[p]
      BY <1>3, <2>2, <3>1
    <3>3. \A j \in 1..Len(buf) : i < j => Before(s[p], buf[j])
      <4> TAKE j \in 1..Len(buf)
      <4> HAVE i < j
      <4>1. j \notin 1..a
        BY <2>2
      <4>2. PICK q : q = n + (j - a)
        OBVIOUS
      <4>3. q \in 1..Len(s) /\ buf[j] = s[q] /\ p < q
        BY <1>3, <3>1, <4>1, <4>2
      <4> QED
        BY <1>1, <3>2, <4>3
    <3>4. \A u \in Future(c, n + count) : Before(s[p], u)
      <4> TAKE u \in Future(c, n + count)
      <4>1. PICK q \in n + count + 1..Len(s) : u = s[q]
        BY <1>2
      <4>2. q \in 1..Len(s) /\ p < q
        BY <3>2, <4>1, <1>1
      <4> QED
        BY <1>1, <3>2, <4>1, <4>2
    <3> QED
      BY <1>1, <3>2, <3>3, <3>4
  <2> QED
    BY <2>1, <2>2
<1>7. Ahead(rs, buf)
  <2> SUFFICES ASSUME NEW i \in 1..Len(rs), NEW k \in 1..Len(buf) PROVE Done(rs[i], buf[k])
    BY Zenon DEF Ahead
  <2>1. CASE k \in 1..a
    BY <2>1 DEF Ahead
  <2>2. CASE k \notin 1..a
    BY <1>4, <2>2, Zenon DEF Answers
  <2> QED
    BY <2>1, <2>2
<1> QED
  BY <1>6, <1>7

-----------------------------------------------------------------------------
(* The invariant stays.                                                    *)

LEMMA ApartInit == Init => Apart
<1> SUFFICES ASSUME Init PROVE Apart
  OBVIOUS
<1>1. Typed
  BY TypedInit
<1>2. FilesSound
  BY DEF Init, FilesSound
<1>3. EndsSound
  BY DEF Init, EndsSound, Asks
<1>4. HeardSound
  BY DEF Init, HeardSound, HeardOf
<1>5. OrderSound
  BY DEF Init, OrderSound, Waits, Known, Told, Answers
<1> QED
  BY <1>1, <1>2, <1>3, <1>4, <1>5 DEF Apart

\* Steps that take tokens, and leave those that the handlers heard alone.
LEMMA HeardStays ==
    ASSUME Typed, Typed', HeardSound, script' = script, heard' = heard,
           \A c \in Clients : taken[c] <= taken'[c]
    PROVE  HeardSound'
<1> SUFFICES ASSUME NEW c \in Clients PROVE HeardOf(c)'
  BY DEF HeardSound
<1>1. PICK m, n : m = taken[c] /\ n = taken'[c]
  OBVIOUS
<1>2. m \in Nat /\ n \in Nat /\ m <= n
  BY <1>1 DEF Typed, ClientsTyped
<1>3. Future(c, n)' = Future(c, n) /\ Future(c, n) \subseteq Future(c, m)
  BY <1>2, FutureStays, FutureShrinks DEF Typed, ClientsTyped
<1>4. Future(c, taken[c])' = Future(c, n)
  BY <1>1, <1>3, Zenon
<1>5. HeardOf(c)
  BY DEF HeardSound
<1> QED
  BY <1>1, <1>3, <1>4, <1>5 DEF HeardOf

\* Steps that write to no client, and to no buffer.
Quiet(f) ==
    \/ ~Known(f)'
    \/ Known(f) /\ file'[f] = file[f] /\ connections'[f].buf = connections[f].buf
    \/ connections'[f].buf = <<>>

LEMMA HoldsStays ==
    ASSUME Typed, NEW c \in Clients, NEW m \in Nat, NEW n \in Nat, m <= n
    PROVE  /\ \A buf : Holds(buf, c, Future(c, m)) => Holds(buf, c, Future(c, n))
           /\ \A rs : Answers(rs, c, Future(c, m)) => Answers(rs, c, Future(c, n))
<1>1. Future(c, n) \subseteq Future(c, m)
  BY FutureShrinks DEF Typed, ClientsTyped
<1>2. \A buf : Holds(buf, c, Future(c, m)) => Holds(buf, c, Future(c, n))
  BY <1>1, Zenon DEF Holds
<1>3. \A rs : Answers(rs, c, Future(c, m)) => Answers(rs, c, Future(c, n))
  BY <1>1, Zenon DEF Answers
<1> QED
  BY <1>2, <1>3

LEMMA ToldStays ==
    ASSUME Typed, Typed', script' = script, NEW c \in Clients, taken[c] <= taken'[c],
           replies'[c] = replies[c], Told(c)
    PROVE  Told(c)'
<1>1. PICK m, n, rs : m = taken[c] /\ n = taken'[c] /\ rs = replies[c]
  OBVIOUS
<1>2. m \in Nat /\ n \in Nat /\ m <= n
  BY <1>1 DEF Typed, ClientsTyped
<1>3. Answers(rs, c, Future(c, m))
  BY <1>1 DEF Told
<1>4. PICK U : U = Future(c, n)
  OBVIOUS
<1>5. Answers(rs, c, U)
  BY <1>2, <1>3, <1>4, HoldsStays
<1>6. Answers(rs, c, U)'
  BY <1>5, DoneStays, Zenon
<1>7. U = Future(c, taken[c])' /\ rs = replies'[c]
  <2>1. Future(c, n)' = Future(c, n)
    BY FutureStays
  <2> QED
    BY <1>1, <1>4, <2>1
<1> QED
  BY <1>6, <1>7, Zenon DEF Told

LEMMA WaitsStays ==
    ASSUME Typed, Typed', script' = script, NEW f \in Fds, Waits(f), Known(f),
           file'[f] = file[f], connections'[f].buf = connections[f].buf,
           taken[file[f]] <= taken'[file[f]], replies'[file[f]] = replies[file[f]]
    PROVE  Waits(f)'
<1>1. PICK c, m, n, rs, buf : /\ c = file[f] /\ m = taken[c] /\ n = taken'[c]
                              /\ rs = replies[c] /\ buf = connections[f].buf
  OBVIOUS
<1>2. c \in Clients /\ m \in Nat /\ n \in Nat /\ m <= n
  BY <1>1 DEF Typed, ClientsTyped, ServerTyped, Known
<1>3. Holds(buf, c, Future(c, m)) /\ Ahead(rs, buf)
  BY <1>1 DEF Waits
<1>4. PICK U : U = Future(c, n)
  OBVIOUS
<1>5. Holds(buf, c, U)
  BY <1>2, <1>3, <1>4, HoldsStays
<1>6. Ahead(rs, buf)'
  BY <1>3, DoneStays, Zenon
<1>7. /\ U = Future(c, n)' /\ c = file'[f] /\ n = taken'[c] /\ rs = replies'[c]
      /\ buf = connections'[f].buf
  BY <1>1, <1>2, <1>4, FutureStays
<1> QED
  BY <1>5, <1>6, <1>7, Zenon DEF Waits

LEMMA OrderQuiet ==
    ASSUME Typed, Typed', OrderSound, script' = script, replies' = replies,
           reused => reused', \A c \in Clients : taken[c] <= taken'[c],
           ~reused' => \A f \in Fds : Quiet(f)
    PROVE  OrderSound'
<1> SUFFICES ASSUME ~reused'
             PROVE  (\A f \in Fds : Waits(f)') /\ (\A c \in Clients : Told(c)')
  BY DEF OrderSound
<1>1. (\A f \in Fds : Waits(f)) /\ (\A c \in Clients : Told(c))
  BY DEF OrderSound
<1>2. \A c \in Clients : Told(c)'
  BY <1>1, ToldStays
<1>3. ASSUME NEW f \in Fds PROVE Waits(f)'
  <2>1. CASE ~Known(f)'
    BY <2>1 DEF Waits
  <2>2. CASE Known(f) /\ file'[f] = file[f] /\ connections'[f].buf = connections[f].buf
    <3>1. file[f] \in Clients
      BY <2>2 DEF Known, Typed, ServerTyped
    <3> QED
      BY <1>1, <2>2, <3>1, WaitsStays
  <2>3. CASE connections'[f].buf = <<>>
    BY <2>3 DEF Waits, Holds, Ahead
  <2> QED
    BY <2>1, <2>2, <2>3 DEF Quiet
<1> QED
  BY <1>2, <1>3

\* A step of a task with one entry, and of the replies to one client.
LEMMA OrderBecomes ==
    ASSUME Typed, Typed', FilesSound, OrderSound, script' = script, taken' = taken,
           file' = file, reused' = reused, NEW f \in Fds, connections[f] # None,
           NEW buf, NEW header, NEW state, Becomes(f, buf, header, state),
           \/ replies' = replies
           \/ file[f] \in Clients
              /\ \E t : replies' = [replies EXCEPT ![file[f]] = Append(@, t)],
           ASSUME ~reused, NEW c \in Clients, c = file[f], NEW U, U = Future(c, taken[c]),
                  NEW rs, rs = replies'[c]
           PROVE  Holds(buf, c, U) /\ Answers(rs, c, U) /\ Ahead(rs, buf)
    PROVE  OrderSound'
<1> SUFFICES ASSUME ~reused
             PROVE  (\A g \in Fds : Waits(g)') /\ (\A d \in Clients : Told(d)')
  BY DEF OrderSound
<1>1. (\A g \in Fds : Waits(g)) /\ (\A d \in Clients : Told(d))
  BY DEF OrderSound
<1>2. \A d \in Clients : d # file[f] => replies'[d] = replies[d]
  BY DEF Typed, HistoryTyped
<1>3. \A d \in Clients : taken[d] <= taken'[d]
  BY DEF Typed, ClientsTyped
<1>4. connections'[f].buf = buf /\ \A g \in Fds : g # f => connections'[g] = connections[g]
  BY DEF Becomes, Typed, MapTyped
<1>5. ASSUME file[f] \in Clients
      PROVE  Told(file[f])' /\ Waits(f)'
  <2>1. PICK c, U, rs : c = file[f] /\ U = Future(c, taken[c]) /\ rs = replies'[c]
    OBVIOUS
  <2>2. Holds(buf, c, U) /\ Answers(rs, c, U) /\ Ahead(rs, buf)
    BY <1>5, <2>1
  <2>3. Answers(rs, c, U)' /\ Ahead(rs, buf)'
    BY <2>2, DoneStays, Zenon
  <2>4. U = Future(c, taken[c])' /\ c = file'[f]
    <3>1. PICK n : n = taken[c]
      OBVIOUS
    <3>2. Future(c, n)' = Future(c, n)
      BY <1>5, <2>1, FutureStays
    <3> QED
      BY <2>1, <3>1, <3>2
  <2>5. Told(c)'
    BY <2>1, <2>3, <2>4, Zenon DEF Told
  <2>6. Waits(f)'
    BY <1>4, <2>1, <2>2, <2>3, <2>4, Zenon DEF Waits
  <2> QED
    BY <2>1, <2>5, <2>6
<1>6. \A d \in Clients : Told(d)'
  BY <1>1, <1>2, <1>3, <1>5, ToldStays
<1>7. ASSUME NEW g \in Fds PROVE Waits(g)'
  <2>1. CASE ~Known(g)'
    BY <2>1 DEF Waits
  <2>2. CASE Known(g)' /\ g = f
    <3>1. file[f] \in Clients
      BY <2>2 DEF Known, Typed, ServerTyped
    <3> QED
      BY <1>5, <2>2, <3>1
  <2>3. CASE Known(g)' /\ g # f
    <3>1. Known(g) /\ file[g] \in Clients /\ file'[g] = file[g]
      BY <1>4, <2>3 DEF Known, Typed, ServerTyped
    <3>2. file[g] # file[f]
      BY <2>3, <3>1 DEF FilesSound, Known
    <3>3. /\ replies'[file[g]] = replies[file[g]] /\ connections'[g].buf = connections[g].buf
          /\ taken[file[g]] <= taken'[file[g]]
      BY <1>2, <1>3, <1>4, <2>3, <3>1, <3>2
    <3> QED
      BY <1>1, <3>1, <3>3, WaitsStays
  <2> QED
    BY <2>1, <2>2, <2>3
<1> QED
  BY <1>6, <1>7

\* What a task of f finds, as long as no number was reused.
LEMMA TaskFinds ==
    ASSUME Apart, ~reused, NEW f \in Fds, Asks(f), NEW c \in Clients, c = file[f],
           NEW U, U = Future(c, taken[c])
    PROVE  LET buf == connections[f].buf
           IN  /\ buf \in Seq(Tokens) /\ replies[c] \in Seq(Tokens) /\ U \in SUBSET Tokens
               /\ connections[f].headerEnd \in 1..Len(buf) /\ buf[connections[f].headerEnd].last
               /\ Holds(buf, c, U) /\ Answers(replies[c], c, U) /\ Ahead(replies[c], buf)
<1>1. /\ connections[f] # None /\ connections[f] \in Entries
      /\ connections[f].headerEnd \in 1..Len(connections[f].buf)
  BY AskHasEntry DEF Apart
<1>2. connections[f].buf \in Seq(Tokens) /\ replies[c] \in Seq(Tokens)
  BY <1>1 DEF Entries, Apart, Typed, HistoryTyped
<1>3. U \in SUBSET Tokens
  <2>1. taken[c] \in Nat /\ script \in Scripts
    BY DEF Apart, Typed, ClientsTyped
  <2> QED
    BY <2>1, FutureShrinks
<1>4. connections[f].buf[connections[f].headerEnd].last
  BY DEF Apart, EndsSound
<1>5. Known(f)
  BY <1>1, AsyncAssumption DEF Known
<1>6. Waits(f) /\ Told(c)
  BY DEF Apart, OrderSound
<1> QED
  BY <1>1, <1>2, <1>3, <1>4, <1>5, <1>6 DEF Waits, Told

\* The request is answered and removed, or its client is gone and it is removed.
LEMMA ShiftOrder ==
    ASSUME Apart, Typed', NEW f \in Fds, Asks(f), ~Full(f), Reply(f, First(f)), Shift(f),
           script' = script, taken' = taken, file' = file, reused' = reused
    PROVE  OrderSound'
<1>1. Typed /\ FilesSound /\ OrderSound /\ script \in Scripts
  BY DEF Apart, Typed, ClientsTyped
<1>2. PICK buf, e : buf = connections[f].buf /\ e = connections[f].headerEnd
  OBVIOUS
<1>3. PICK part : part = SubSeq(buf, e + 1, Len(buf))
  OBVIOUS
<1>4. connections[f] # None /\ Becomes(f, part, 0, connections[f].state) /\ First(f) = buf[1]
      /\ First(f) \in Tokens
  BY <1>1, <1>2, <1>3, AskHasEntry, ShiftShifts
<1>5. \/ replies' = replies
      \/ file[f] \in Clients /\ replies' = [replies EXCEPT ![file[f]] = Append(@, buf[1])]
  BY <1>1, <1>4, ReplyReplies
<1>6. ASSUME ~reused, NEW c \in Clients, c = file[f], NEW U, U = Future(c, taken[c]),
             NEW rs, rs = replies'[c]
      PROVE  Holds(part, c, U) /\ Answers(rs, c, U) /\ Ahead(rs, part)
  <2>1. PICK rs0 : rs0 = replies[c]
    OBVIOUS
  <2>2. /\ buf \in Seq(Tokens) /\ rs0 \in Seq(Tokens) /\ U \in SUBSET Tokens
        /\ e \in 1..Len(buf) /\ buf[e].last /\ e \in 0..Len(buf)
        /\ Holds(buf, c, U) /\ Answers(rs0, c, U) /\ Ahead(rs0, buf)
    BY <1>2, <1>6, <2>1, TaskFinds
  <2>3. Holds(part, c, U) /\ Ahead(rs0, part)
    BY <1>1, <1>3, <2>2, PartHolds
  <2>4. CASE replies' = replies
    BY <1>6, <2>1, <2>2, <2>3, <2>4
  <2>5. CASE replies' = [replies EXCEPT ![file[f]] = Append(@, buf[1])]
    <3>1. rs = Append(rs0, buf[1])
      BY <1>6, <2>1, <2>5 DEF Apart, Typed, HistoryTyped
    <3>2. Answers(Append(rs0, buf[1]), c, U) /\ Ahead(Append(rs0, buf[1]), part)
      BY <1>1, <1>3, <2>2, AnswerFirst
    <3> QED
      BY <2>3, <3>1, <3>2
  <2> QED
    BY <1>5, <2>4, <2>5
<1> QED
  BY <1>1, <1>4, <1>5, <1>6, OrderBecomes

LEMMA GarbledOrder ==
    ASSUME Apart, Typed', NEW f \in Fds, Asks(f), SentGarbled(f)
    PROVE  OrderSound'
<1>1. Typed /\ FilesSound /\ OrderSound /\ script \in Scripts
  BY DEF Apart, Typed, ClientsTyped
<1>2. PICK buf : buf = connections[f].buf
  OBVIOUS
<1>3. /\ connections[f] # None /\ First(f) = buf[1] /\ First(f) \in Tokens /\ buf[1].last
      /\ Becomes(f, <<>>, 0, connections[f].state)
      /\ ~Full(f) /\ Reply(f, First(f))
      /\ script' = script /\ taken' = taken /\ file' = file /\ reused' = reused
  BY <1>1, <1>2, AskHasEntry, Zenon DEF SentGarbled, Garbled, Becomes, Holding
<1>4. \/ replies' = replies
      \/ file[f] \in Clients /\ replies' = [replies EXCEPT ![file[f]] = Append(@, buf[1])]
  BY <1>1, <1>3, ReplyReplies
<1>5. ASSUME ~reused, NEW c \in Clients, c = file[f], NEW U, U = Future(c, taken[c]),
             NEW rs, rs = replies'[c]
      PROVE  Holds(<<>>, c, U) /\ Answers(rs, c, U) /\ Ahead(rs, <<>>)
  <2>1. PICK rs0 : rs0 = replies[c]
    OBVIOUS
  <2>2. /\ buf \in Seq(Tokens) /\ rs0 \in Seq(Tokens) /\ U \in SUBSET Tokens
        /\ 1 \in 1..Len(buf)
        /\ Holds(buf, c, U) /\ Answers(rs0, c, U) /\ Ahead(rs0, buf)
    <3>1. /\ connections[f].headerEnd \in 1..Len(buf) /\ Len(buf) \in Nat
          /\ buf \in Seq(Tokens) /\ rs0 \in Seq(Tokens) /\ U \in SUBSET Tokens
          /\ Holds(buf, c, U) /\ Answers(rs0, c, U) /\ Ahead(rs0, buf)
      BY <1>2, <1>5, <2>1, TaskFinds
    <3> QED
      BY <3>1
  <2>3. Holds(<<>>, c, U) /\ Ahead(rs, <<>>)
    BY DEF Holds, Ahead
  <2>4. CASE replies' = replies
    BY <1>5, <2>1, <2>2, <2>3, <2>4
  <2>5. CASE replies' = [replies EXCEPT ![file[f]] = Append(@, buf[1])]
    <3>1. rs = Append(rs0, buf[1])
      BY <1>5, <2>1, <2>5 DEF Apart, Typed, HistoryTyped
    <3>2. Answers(Append(rs0, buf[1]), c, U)
      BY <1>1, <1>3, <2>2, AnswerFirst
    <3> QED
      BY <2>3, <3>1, <3>2
  <2> QED
    BY <1>4, <2>4, <2>5
<1> QED
  BY <1>1, <1>3, <1>4, <1>5, OrderBecomes

LEMMA UpgradeOrder ==
    ASSUME Apart, Typed', NEW f \in Fds, Asks(f), SentUpgrade(f)
    PROVE  OrderSound'
<1>1. Typed /\ FilesSound /\ OrderSound /\ script \in Scripts
  BY DEF Apart, Typed, ClientsTyped
<1>2. PICK buf, e : buf = connections[f].buf /\ e = connections[f].headerEnd
  OBVIOUS
<1>3. /\ connections[f] # None /\ First(f) = buf[1] /\ First(f) \in Tokens
      /\ Kind(buf[1]) = "upgrade"
      /\ connections' = [connections EXCEPT ![f].state = "WEBSOCKET"]
      /\ ~Full(f) /\ Reply(f, First(f))
      /\ script' = script /\ taken' = taken /\ file' = file /\ reused' = reused
  BY <1>1, <1>2, AskHasEntry DEF SentUpgrade
<1>4. Becomes(f, buf, e, "WEBSOCKET")
  BY <1>1, <1>2, <1>3, UpgradeBecomes
<1>5. \/ replies' = replies
      \/ file[f] \in Clients /\ replies' = [replies EXCEPT ![file[f]] = Append(@, buf[1])]
  BY <1>1, <1>3, ReplyReplies
<1>6. ASSUME ~reused, NEW c \in Clients, c = file[f], NEW U, U = Future(c, taken[c]),
             NEW rs, rs = replies'[c]
      PROVE  Holds(buf, c, U) /\ Answers(rs, c, U) /\ Ahead(rs, buf)
  <2>1. PICK rs0 : rs0 = replies[c]
    OBVIOUS
  <2>2. /\ buf \in Seq(Tokens) /\ rs0 \in Seq(Tokens) /\ U \in SUBSET Tokens
        /\ e \in 1..Len(buf)
        /\ Holds(buf, c, U) /\ Answers(rs0, c, U) /\ Ahead(rs0, buf)
    BY <1>2, <1>6, <2>1, TaskFinds
  <2>3. CASE replies' = replies
    BY <1>6, <2>1, <2>2, <2>3
  <2>4. CASE replies' = [replies EXCEPT ![file[f]] = Append(@, buf[1])]
    <3>1. rs = Append(rs0, buf[1])
      BY <1>6, <2>1, <2>4 DEF Apart, Typed, HistoryTyped
    <3>2. buf # <<>>
      BY <2>2
    <3>3. Answers(Append(rs0, buf[1]), c, U) /\ Ahead(Append(rs0, buf[1]), buf)
      BY <1>1, <1>3, <2>2, <3>2, AnswerUpgrade
    <3> QED
      BY <2>2, <3>1, <3>3
  <2> QED
    BY <1>5, <2>3, <2>4
<1> QED
  BY <1>1, <1>3, <1>4, <1>5, <1>6, OrderBecomes

\* A read of the epoll thread moves tokens from what is to come to the buffer.
LEMMA ReadOrder ==
    ASSUME Apart, Typed', NEW f \in Fds, Read(f)
    PROVE  OrderSound'
<1>1. Typed /\ FilesSound /\ OrderSound /\ script \in Scripts
  BY DEF Apart, Typed, ClientsTyped
<1>2. /\ script' = script /\ file' = file /\ replies' = replies /\ reused' = reused
      /\ connections[f] # None
  BY Zenon DEF Read, historyVars
<1> SUFFICES ASSUME ~reused
             PROVE  (\A g \in Fds : Waits(g)') /\ (\A d \in Clients : Told(d)')
  BY <1>2 DEF OrderSound
<1>3. (\A g \in Fds : Waits(g)) /\ (\A d \in Clients : Told(d))
  BY <1>1 DEF OrderSound
<1>4. /\ file[f] \in Clients /\ connections[f] \in Entries
      /\ \E count, buf, header : ReadInto(f, file[f], count, buf, header)
  BY <1>1, ReadReads
<1>5. PICK c : c = file[f]
  OBVIOUS
<1>6. PICK count, buf, header : ReadInto(f, c, count, buf, header)
  BY <1>4, <1>5
<1>7. PICK n, old, rs : n = taken[c] /\ old = connections[f].buf /\ rs = replies[c]
  OBVIOUS
<1>8. /\ c \in Clients /\ n \in Nat /\ count \in Nat /\ n + count <= Len(Stream(c))
      /\ old \in Seq(Tokens) /\ buf \in Seq(Tokens)
  <2>1. c \in Clients /\ n \in Nat /\ sent[c] \in Nat /\ n <= sent[c] /\ sent[c] <= Len(Stream(c))
    BY <1>1, <1>4, <1>5, <1>7 DEF Typed, ClientsTyped
  <2>2. count \in 1..sent[c] - n /\ buf \in Seq(Tokens)
    BY <1>6, <1>7 DEF ReadInto
  <2>3. old \in Seq(Tokens)
    BY <1>4, <1>7 DEF Entries
  <2>4. Len(Stream(c)) \in Nat
    BY <1>1, <2>1, StreamTyped
  <2> QED
    BY <2>1, <2>2, <2>3, <2>4
<1>9. /\ taken'[c] = n + count /\ \A d \in Clients : d # c => taken'[d] = taken[d]
      /\ connections'[f].buf = buf /\ \A g \in Fds : g # f => connections'[g] = connections[g]
  BY <1>1, <1>6, <1>7, <1>8 DEF ReadInto, Holding, Typed, ClientsTyped, MapTyped
<1>10. \A d \in Clients : taken[d] <= taken'[d]
  <2>1. n <= n + count /\ \A d \in Clients : taken[d] \in Nat
    BY <1>1, <1>8 DEF Typed, ClientsTyped
  <2> TAKE d \in Clients
  <2>2. CASE d = c
    BY <1>7, <1>9, <2>1, <2>2
  <2>3. CASE d # c
    BY <1>9, <2>1, <2>3
  <2> QED
    BY <2>2, <2>3
<1>11. \A d \in Clients : Told(d)'
  BY <1>1, <1>2, <1>3, <1>10, ToldStays
<1>12. Waits(f)'
  <2>1. Known(f)
    BY <1>2, <1>4, AsyncAssumption DEF Known
  <2>2. Holds(old, c, Future(c, n)) /\ Ahead(rs, old) /\ Answers(rs, c, Future(c, n))
    BY <1>3, <1>5, <1>7, <1>8, <2>1 DEF Waits, Told
  <2>3. /\ Len(buf) = Len(old) + count
        /\ \A i \in 1..Len(old) : buf[i] = old[i]
        /\ \A i \in 1..Len(buf) :
              \/ i \in 1..Len(old)
              \/ i - Len(old) \in 1..count /\ buf[i] = Stream(c)[n + (i - Len(old))]
    BY <1>6, <1>7, Zenon DEF ReadInto
  <2>4. PICK U, m : m = n + count /\ U = Future(c, n + count)
    OBVIOUS
  <2>5. Holds(buf, c, U) /\ Ahead(rs, buf)
    BY <1>1, <1>8, <2>2, <2>3, <2>4, ReadHolds
  <2>6. Ahead(rs, buf)'
    BY <1>2, <2>5, DoneStays, Zenon
  <2>7. Future(c, m)' = Future(c, m)
    BY <1>2, <1>8, FutureStays
  <2>8. U = Future(c, taken[c])' /\ c = file'[f] /\ rs = replies'[c]
    BY <1>2, <1>5, <1>7, <1>9, <2>4, <2>7
  <2> QED
    BY <1>9, <2>5, <2>6, <2>8, Zenon DEF Waits
<1>13. ASSUME NEW g \in Fds, g # f PROVE Waits(g)'
  <2>1. CASE ~Known(g)'
    BY <2>1 DEF Waits
  <2>2. CASE Known(g)'
    <3>1. Known(g) /\ file[g] \in Clients /\ file'[g] = file[g]
      BY <1>1, <1>2, <1>9, <1>13, <2>2 DEF Known, Typed, ServerTyped
    <3> QED
      BY <1>1, <1>2, <1>3, <1>9, <1>10, <1>13, <3>1, WaitsStays
  <2> QED
    BY <2>1, <2>2
<1> QED
  BY <1>11, <1>12, <1>13

\* What a handler hears comes after what its client's handlers heard before.
LEMMA ReadsHeard ==
    ASSUME Apart, Typed', NEW h \in Chats, ChatReads(h)
    PROVE  HeardSound'
<1>1. Typed /\ HeardSound /\ script \in Scripts
  BY DEF Apart, Typed, ClientsTyped
<1>2. script' = script
  BY Zenon DEF ChatReads
<1>3. PICK c \in Clients, texts \in Seq(Tokens) : \E place : ReadBy(h, c, texts, place)
  BY <1>1, ChatTakes
<1>4. PICK n, m, s, old : n = taken[c] /\ m = sent[c] /\ s = Stream(c) /\ old = heard[c]
  OBVIOUS
<1>5. PICK p : /\ taken' = [taken EXCEPT ![c] = @ + (m - n)] /\ m - n \in Nat \ {0}
               /\ heard' = [heard EXCEPT ![c] = @ \o texts]
               /\ p \in [1..Len(texts) -> 1..m - n]
               /\ \A k \in 1..Len(texts) :
                     /\ n + p[k] \in 1..Len(s) /\ texts[k] = s[n + p[k]]
                     /\ Kind(texts[k]) = "text"
               /\ \A j, k \in 1..Len(texts) : j < k => p[j] < p[k]
  BY <1>3, <1>4, Zenon DEF ReadBy
<1>6. /\ n \in Nat /\ m \in Nat /\ n <= m /\ old \in Seq(Tokens)
      /\ s \in Seq(Tokens) /\ Len(s) \in Nat
  BY <1>1, <1>4, StreamTyped DEF Typed, ClientsTyped, HistoryTyped
<1>7. /\ \A q \in 1..Len(s) : Kind(s[q]) = "text" => s[q].last
      /\ \A q, r \in 1..Len(s) : q < r => Before(s[q], s[r])
  <2>1. DOMAIN s = 1..Len(s)
    BY <1>6
  <2> QED
    BY <1>1, <1>4, <2>1, StreamInOrder
<1>8. \A i : Future(c, i) = {s[q] : q \in i + 1..Len(s)}
  BY <1>4, Zenon DEF Future
<1>8a. \A k \in 1..Len(texts) : p[k] \in Nat /\ n + p[k] <= m
  <2>1. \A k \in 1..Len(texts) : p[k] \in 1..m - n
    BY <1>5
  <2> QED
    BY <1>6, <2>1
<1>9. \A k \in 1..Len(texts) : \A q \in 1..Len(s) : n + p[k] < q => texts[k].n < s[q].n
  BY <1>5, <1>7 DEF Before
<1>10. PICK new : new = old \o texts
  OBVIOUS
<1>11. /\ taken'[c] = m /\ heard'[c] = new
       /\ \A d \in Clients : d # c => taken'[d] = taken[d] /\ heard'[d] = heard[d]
  <2>1. taken \in [Clients -> Nat] /\ heard \in [Clients -> Seq(Tokens)] /\ n + (m - n) = m
    BY <1>1, <1>6 DEF Typed, ClientsTyped, HistoryTyped
  <2>2. taken'[c] = m /\ \A d \in Clients : d # c => taken'[d] = taken[d]
    BY <1>4, <1>5, <2>1
  <2>3. heard'[c] = new /\ \A d \in Clients : d # c => heard'[d] = heard[d]
    BY <1>4, <1>5, <1>10, <2>1
  <2> QED
    BY <2>2, <2>3
<1>12. PICK a \in Nat : a = Len(old)
  BY <1>6
<1>13. /\ \A i \in 1..a : new[i] = old[i]
       /\ \A i \in 1..Len(new) :
             i \in 1..a \/ (i - a \in 1..Len(texts) /\ new[i] = texts[i - a])
  BY <1>6, <1>10, <1>12
<1>14. /\ \A i, j \in 1..a : i < j => old[i].n < old[j].n
       /\ \A i \in 1..a : \A u \in Future(c, n) : old[i].n < u.n
  BY <1>1, <1>4, <1>12, Zenon DEF HeardSound, HeardOf
<1>15. \A k \in 1..Len(texts) : texts[k] \in Future(c, n)
  <2> TAKE k \in 1..Len(texts)
  <2>1. /\ p[k] \in 1..m - n /\ n + p[k] \in 1..Len(s) /\ texts[k] = s[n + p[k]]
        /\ p[k] \in Nat
    BY <1>5, <1>8a
  <2>2. n + p[k] \in n + 1..Len(s)
    BY <1>6, <2>1
  <2> QED
    BY <1>8, <2>1, <2>2, Zenon
<1>16. \A i, j \in 1..Len(new) : i < j => new[i].n < new[j].n
  <2> TAKE i, j \in 1..Len(new)
  <2> HAVE i < j
  <2>1. CASE j \in 1..a
    BY <1>13, <1>14, <2>1
  <2>2. CASE j \notin 1..a /\ i \in 1..a
    BY <1>13, <1>14, <1>15, <2>2
  <2>3. CASE j \notin 1..a /\ i \notin 1..a
    <3>1. PICK k, l : k = i - a /\ l = j - a
      OBVIOUS
    <3>2. /\ k \in 1..Len(texts) /\ l \in 1..Len(texts) /\ k < l
          /\ new[i] = texts[k] /\ new[j] = texts[l]
      BY <1>13, <2>3, <3>1
    <3>3. n + p[l] \in 1..Len(s) /\ texts[l] = s[n + p[l]] /\ n + p[k] < n + p[l]
      <4>1. p[k] < p[l] /\ n + p[l] \in 1..Len(s) /\ texts[l] = s[n + p[l]]
        BY <1>5, <3>2
      <4> QED
        BY <1>6, <1>8a, <3>2, <4>1
    <3> QED
      BY <1>9, <3>2, <3>3
  <2> QED
    BY <2>1, <2>2, <2>3
<1>17. \A i \in 1..Len(new) : \A u \in Future(c, m) : new[i].n < u.n
  <2> TAKE i \in 1..Len(new)
  <2> TAKE u \in Future(c, m)
  <2>1. PICK q \in m + 1..Len(s) : u = s[q]
    BY <1>8
  <2>2. CASE i \in 1..a
    <3>1. Future(c, m) \subseteq Future(c, n)
      BY <1>1, <1>6, FutureShrinks
    <3> QED
      BY <1>13, <1>14, <2>2, <3>1
  <2>3. CASE i \notin 1..a
    <3>1. PICK k \in 1..Len(texts) : new[i] = texts[k]
      BY <1>13, <2>3
    <3>2. n + p[k] < q /\ q \in 1..Len(s)
      BY <1>6, <1>8a, <2>1
    <3> QED
      BY <1>9, <2>1, <3>1, <3>2
  <2> QED
    BY <2>2, <2>3
<1>18. HeardOf(c)'
  <2>1. Future(c, m)' = Future(c, m)
    BY <1>2, FutureStays
  <2> QED
    BY <1>11, <1>16, <1>17, <2>1 DEF HeardOf
<1>19. ASSUME NEW d \in Clients, d # c PROVE HeardOf(d)'
  <2>1. HeardOf(d)
    BY <1>1 DEF HeardSound
  <2>2. PICK i : i = taken[d]
    OBVIOUS
  <2>3. Future(d, i)' = Future(d, i)
    BY <1>2, FutureStays
  <2> QED
    BY <1>11, <1>19, <2>1, <2>2, <2>3 DEF HeardOf
<1> QED
  BY <1>18, <1>19 DEF HeardSound

LEMMA FilesNext ==
    ASSUME Typed, FilesSound, [Next]_vars
    PROVE  FilesSound'
<1>1. ASSUME file' = file, \A c \in Clients : phase'[c] # phase[c] => phase[c] \in {"idle", "open"},
             \A c \in Clients : phase[c] = "open" => phase'[c] \in {"open", "gone"}
      PROVE  FilesSound'
  BY <1>1 DEF FilesSound, Typed, ServerTyped, ClientsTyped
<1>2. ASSUME NEW f \in Fds, phase' = phase, Close(f)
      PROVE  FilesSound'
  BY <1>2 DEF FilesSound, Close, Typed, ServerTyped
<1>3. ASSUME file' = file, phase' = phase
      PROVE  FilesSound'
  BY <1>3 DEF FilesSound
<1>4. ASSUME NEW c \in Clients, Client(c) PROVE FilesSound'
  <2>1. file' = file
    BY <1>4 DEF Client, Connect, Send, ClientRead, HangUp
  <2>2. CASE Connect(c)
    BY <1>1, <2>1, <2>2 DEF Connect, Typed, ClientsTyped
  <2>3. CASE Send(c) \/ ClientRead(c)
    BY <1>3, <2>1, <2>3 DEF Send, ClientRead
  <2>4. CASE HangUp(c)
    BY <1>1, <2>1, <2>4 DEF HangUp, Typed, ClientsTyped
  <2> QED
    BY <1>4, <2>2, <2>3, <2>4 DEF Client
<1>5. CASE Accept
  <2>1. PICK c \in Clients, f \in Fds :
            /\ phase[c] = "backlog" /\ file[f] = None
            /\ phase' = [phase EXCEPT ![c] = "open"] /\ file' = [file EXCEPT ![f] = c]
    BY <1>5, Zenon DEF Accept, Accepted
  <2>2. \A g \in Fds : file[g] # c
    BY <2>1, AsyncAssumption DEF FilesSound
  <2>3. \A g \in Fds : file[g] = None \/ file[g] \in Clients
    BY DEF Typed, ServerTyped
  <2>4. \A g \in Fds : file'[g] = IF g = f THEN c ELSE file[g]
    BY <2>1 DEF Typed, ServerTyped
  <2>5. \A d \in Clients : phase'[d] = IF d = c THEN "open" ELSE phase[d]
    BY <2>1 DEF Typed, ClientsTyped
  <2>6. \A g, k \in Fds : file'[g] # None /\ file'[g] = file'[k] => g = k
    BY <2>2, <2>4 DEF FilesSound
  <2>7. \A g \in Fds : file'[g] # None => phase'[file'[g]] \in {"open", "gone"}
    BY <2>3, <2>4, <2>5 DEF FilesSound
  <2> QED
    BY <2>6, <2>7 DEF FilesSound
<1>6. CASE EpollWait \/ Add
  BY <1>3, <1>6 DEF EpollWait, Add, clientVars
<1>7. CASE CloseHangup
  <2>1. at.fd \in Fds /\ Close(at.fd) /\ phase' = phase
    BY <1>7 DEF CloseHangup, clientVars, Typed, ServerTyped
  <2> QED
    BY <1>2, <2>1
<1>8. ASSUME NEW f \in Fds, Hangup(f) \/ ReadNothing(f) PROVE FilesSound'
  BY <1>3, <1>8 DEF Hangup, ReadNothing, clientVars
<1>9. ASSUME NEW f \in Fds, ReadEnds(f) PROVE FilesSound'
  BY <1>2, <1>9 DEF ReadEnds, clientVars
<1>10. ASSUME NEW f \in Fds, Read(f) PROVE FilesSound'
  <2>1. file' = file /\ phase' = phase
    BY <1>10, Zenon DEF Read, clientVars
  <2> QED
    BY <1>3, <2>1
<1>11. ASSUME NEW f \in Fds, Task(f) PROVE FilesSound'
  <2>1. file' = file /\ phase' = phase
    BY <1>11, Zenon DEF Task, RunNothing, RunWritev, RunSendAll, SentGarbled, SentFile,
       SentUpgrade, clientVars
  <2> QED
    BY <1>3, <2>1
<1>12. ASSUME NEW h \in Chats, Chat(h) PROVE FilesSound'
  <2>1. CASE ChatEnds(h) \/ ChatReads(h)
    <3>1. file' = file /\ phase' = phase
      BY <2>1, Zenon DEF ChatEnds, ChatReads, clientVars
    <3> QED
      BY <1>3, <3>1
  <2>2. CASE ChatCloses(h)
    <3>1. chat[h].fd \in Fds /\ Close(chat[h].fd) /\ phase' = phase
      BY <2>2 DEF ChatCloses, clientVars, Typed, ServerTyped, Idle
    <3> QED
      BY <1>2, <3>1
  <2> QED
    BY <1>12, <2>1, <2>2 DEF Chat
<1>13. CASE UNCHANGED vars
  BY <1>3, <1>13 DEF vars, clientVars
<1> QED
  BY <1>4, <1>5, <1>6, <1>7, <1>8, <1>9, <1>10, <1>11, <1>12, <1>13 DEF Next, Epoll

\* What the steps of a task do to the entry that they work on, and to no other.
TaskWrites(f) ==
    /\ Asks(f) /\ ~Full(f) /\ Reply(f, First(f))
    /\ script' = script /\ taken' = taken /\ file' = file /\ heard' = heard /\ reused' = reused
    /\ Shift(f) \/ SentGarbled(f) \/ SentUpgrade(f)

TaskWaits ==
    /\ script' = script /\ taken' = taken /\ file' = file /\ heard' = heard /\ reused' = reused
    /\ connections' = connections /\ replies' = replies

LEMMA TaskWritesOrWaits ==
    ASSUME Typed, NEW f \in Fds, Task(f)
    PROVE  TaskWrites(f) \/ TaskWaits
<1>1. lock = f => Asks(f)
  BY AsyncAssumption DEF Typed, MapTyped
<1>2. CASE RunNothing(f) \/ RunSendAll(f)
  BY <1>2 DEF RunNothing, RunSendAll, TaskWaits, historyVars
<1>3. CASE RunWritev(f)
  BY <1>3 DEF RunWritev, TaskWaits, TaskWrites
<1>4. CASE SentGarbled(f)
  <2>1. /\ lock = f /\ ~Full(f) /\ Reply(f, First(f)) /\ script' = script /\ taken' = taken
        /\ file' = file /\ heard' = heard /\ reused' = reused
    BY <1>4 DEF SentGarbled
  <2> QED
    BY <1>1, <1>4, <2>1 DEF TaskWrites
<1>5. CASE SentFile(f)
  BY <1>1, <1>5 DEF SentFile, TaskWrites
<1>6. CASE SentUpgrade(f)
  <2>1. /\ lock = f /\ ~Full(f) /\ Reply(f, First(f)) /\ script' = script /\ taken' = taken
        /\ file' = file /\ heard' = heard /\ reused' = reused
    BY <1>6 DEF SentUpgrade
  <2> QED
    BY <1>1, <1>6, <2>1 DEF TaskWrites
<1> QED
  BY <1>2, <1>3, <1>4, <1>5, <1>6 DEF Task

LEMMA EndsNext ==
    ASSUME Typed, EndsSound, [Next]_vars
    PROVE  EndsSound'
<1>1. ASSUME connections' = connections PROVE EndsSound'
  BY <1>1 DEF EndsSound, Asks
<1>2. ASSUME NEW f \in Fds, connections' = [connections EXCEPT ![f] = None]
      PROVE  EndsSound'
  BY <1>2 DEF EndsSound, Asks, Typed, MapTyped
<1>3. ASSUME NEW f \in Fds, NEW buf, NEW header, NEW state, Becomes(f, buf, header, state),
             header > 0 => buf[header].last
      PROVE  EndsSound'
  BY <1>3 DEF EndsSound, Asks, Becomes, Typed, MapTyped
<1>4. ASSUME NEW c \in Clients, Client(c) PROVE EndsSound'
  BY <1>1, <1>4 DEF Client, Connect, Send, ClientRead, HangUp
<1>5. CASE EpollWait \/ Accept \/ CloseHangup
  BY <1>1, <1>5 DEF EpollWait, Accept, Accepted, CloseHangup
<1>6. CASE Add
  <2>1. at.fd \in Fds /\ Becomes(at.fd, <<>>, 0, "READING")
    BY <1>6 DEF Add, Entry, Becomes, Typed, ServerTyped
  <2>2. PICK f \in Fds : f = at.fd
    BY <2>1
  <2> QED
    BY <1>3, <2>1, <2>2
<1>7. ASSUME NEW f \in Fds, Hangup(f) \/ ReadNothing(f) \/ ReadEnds(f) PROVE EndsSound'
  BY <1>1, <1>2, <1>7 DEF Hangup, ReadNothing, ReadEnds
<1>8. ASSUME NEW f \in Fds, Read(f) PROVE EndsSound'
  <2>1. /\ file[f] \in Clients /\ connections[f] \in Entries /\ connections[f] # None
        /\ \E count, buf, header : ReadInto(f, file[f], count, buf, header)
    BY <1>8, ReadReads DEF Read
  <2>2. PICK count, buf, header : ReadInto(f, file[f], count, buf, header)
    BY <2>1
  <2>3. PICK old, e, state : /\ old = connections[f].buf /\ e = connections[f].headerEnd
                             /\ state = connections[f].state
    OBVIOUS
  <2>4. Becomes(f, buf, header, state)
    BY <2>2, <2>3 DEF ReadInto, Becomes, Holding
  <2>5. header > 0 => buf[header].last
    <3>1. CASE header = e /\ header > 0
      <4>1. old[e].last
        BY <2>1, <2>3, <3>1 DEF EndsSound, Asks
      <4>2. e \in 1..Len(old)
        BY <2>1, <2>3, <3>1 DEF Typed, MapTyped, Entries
      <4> QED
        BY <2>2, <2>3, <3>1, <4>1, <4>2 DEF ReadInto
    <3> QED
      BY <2>2, <2>3, <3>1 DEF ReadInto
  <2> QED
    BY <1>3, <2>4, <2>5
<1>9. ASSUME NEW f \in Fds, Task(f) PROVE EndsSound'
  <2>1. CASE TaskWaits
    BY <1>1, <2>1 DEF TaskWaits
  <2>2. CASE TaskWrites(f)
    <3>1. Asks(f)
      BY <2>2 DEF TaskWrites
    <3>2. CASE Shift(f)
      <4>1. PICK buf : Becomes(f, buf, 0, connections[f].state)
        BY <3>1, <3>2, ShiftShifts
      <4>2. PICK state : state = connections[f].state
        OBVIOUS
      <4> QED
        BY <1>3, <4>1, <4>2
    <3>3. CASE SentGarbled(f)
      <4>1. PICK state : state = connections[f].state
        OBVIOUS
      <4>2. Becomes(f, <<>>, 0, state)
        BY <3>3, <4>1, Zenon DEF SentGarbled, Becomes, Holding
      <4> QED
        BY <1>3, <4>2
    <3>4. CASE SentUpgrade(f)
      <4>1. PICK buf, e : buf = connections[f].buf /\ e = connections[f].headerEnd
        OBVIOUS
      <4>2. Becomes(f, buf, e, "WEBSOCKET")
        BY <3>1, <3>4, <4>1, UpgradeBecomes DEF SentUpgrade
      <4>3. e > 0 => buf[e].last
        BY <3>1, <4>1 DEF EndsSound
      <4> QED
        BY <1>3, <4>2, <4>3
    <3> QED
      BY <2>2, <3>2, <3>3, <3>4 DEF TaskWrites
  <2> QED
    BY <1>9, <2>1, <2>2, TaskWritesOrWaits
<1>10. ASSUME NEW h \in Chats, Chat(h) PROVE EndsSound'
  <2>1. connections' = connections
    BY <1>10, Zenon DEF Chat, ChatEnds, ChatReads, ChatCloses
  <2> QED
    BY <1>1, <2>1
<1>11. CASE UNCHANGED vars
  BY <1>1, <1>11 DEF vars
<1> QED
  BY <1>4, <1>5, <1>6, <1>7, <1>8, <1>9, <1>10, <1>11 DEF Next, Epoll

\* A step that reads and writes nothing: a descriptor gets an entry without
\* tokens, or none, or it stands for another client and has no entry.
LEMMA QuietStep ==
    ASSUME Apart, Typed', script' = script, taken' = taken, heard' = heard,
           replies' = replies, reused => reused',
           \A f \in Fds : \/ connections'[f] = connections[f]
                          \/ connections'[f] = None
                          \/ connections'[f].buf = <<>>,
           \A f \in Fds : \/ file'[f] = file[f] \/ file'[f] = None
                          \/ connections'[f] = None \/ reused'
    PROVE  HeardSound' /\ OrderSound'
<1>1. \A c \in Clients : taken[c] <= taken'[c]
  BY DEF Apart, Typed, ClientsTyped
<1>2. HeardSound'
  BY <1>1, HeardStays DEF Apart
<1>3. ~reused' => \A f \in Fds : Quiet(f)
  BY DEF Quiet, Known
<1>4. OrderSound'
  BY <1>1, <1>3, OrderQuiet DEF Apart
<1> QED
  BY <1>2, <1>4

LEMMA EpollOrder ==
    ASSUME Apart, Typed', Epoll
    PROVE  HeardSound' /\ OrderSound'
<1>1. CASE EpollWait
  BY <1>1, QuietStep DEF EpollWait, clientVars, historyVars
<1>2. CASE Accept
  <2>1. PICK c \in Clients, f \in Fds :
            file' = [file EXCEPT ![f] = c] /\ (connections[f] # None => reused')
    BY <1>2, Zenon DEF Accept, Accepted
  <2>2. /\ script' = script /\ taken' = taken /\ heard' = heard /\ replies' = replies
        /\ connections' = connections /\ (reused => reused')
    BY <1>2, Zenon DEF Accept, Accepted, historyVars
  <2>3. \A g \in Fds : g # f => file'[g] = file[g]
    BY <2>1 DEF Apart, Typed, ServerTyped
  <2> QED
    BY <2>1, <2>2, <2>3, QuietStep
<1>3. CASE Add
  <2>1. /\ script' = script /\ taken' = taken /\ heard' = heard /\ replies' = replies
        /\ file' = file /\ reused' = reused
        /\ connections' = [connections EXCEPT ![at.fd] = Entry] /\ Entry.buf = <<>>
    BY <1>3 DEF Add, historyVars, Entry
  <2>2. \A f \in Fds : connections'[f] = connections[f] \/ connections'[f] = Entry
    BY <2>1 DEF Apart, Typed, MapTyped
  <2> QED
    BY <2>1, <2>2, QuietStep
<1>4. ASSUME NEW f \in Fds, script' = script, taken' = taken, heard' = heard,
             replies' = replies, reused' = reused, Close(f), connections' = connections
                \/ connections' = [connections EXCEPT ![f] = None]
      PROVE  HeardSound' /\ OrderSound'
  <2>1. \A g \in Fds : file'[g] = file[g] \/ file'[g] = None
    BY <1>4 DEF Close, Apart, Typed, ServerTyped
  <2>2. \A g \in Fds : connections'[g] = connections[g] \/ connections'[g] = None
    BY <1>4 DEF Apart, Typed, MapTyped
  <2> QED
    BY <1>4, <2>1, <2>2, QuietStep
<1>5. CASE CloseHangup
  <2>1. at.fd \in Fds
    BY <1>5 DEF CloseHangup, Apart, Typed, ServerTyped
  <2> QED
    BY <1>4, <1>5, <2>1 DEF CloseHangup, historyVars
<1>6. ASSUME NEW f \in Fds, Hangup(f) PROVE HeardSound' /\ OrderSound'
  <2>1. \A g \in Fds : connections'[g] = connections[g] \/ connections'[g] = None
    BY <1>6 DEF Hangup, Apart, Typed, MapTyped
  <2> QED
    BY <1>6, <2>1, QuietStep DEF Hangup, historyVars
<1>7. ASSUME NEW f \in Fds, ReadNothing(f) PROVE HeardSound' /\ OrderSound'
  BY <1>7, QuietStep DEF ReadNothing, historyVars
<1>8. ASSUME NEW f \in Fds, ReadEnds(f) PROVE HeardSound' /\ OrderSound'
  BY <1>4, <1>8 DEF ReadEnds, historyVars
<1>9. ASSUME NEW f \in Fds, Read(f) PROVE HeardSound' /\ OrderSound'
  <2>1. OrderSound'
    BY <1>9, ReadOrder
  <2>2. script' = script /\ heard' = heard
    BY <1>9, Zenon DEF Read, historyVars
  <2>3. \A c \in Clients : taken[c] <= taken'[c]
    <3>1. /\ file[f] \in Clients
          /\ \E count, buf, header : ReadInto(f, file[f], count, buf, header)
      BY <1>9, ReadReads DEF Apart
    <3>2. PICK count : count \in 1..sent[file[f]] - taken[file[f]]
                       /\ taken' = [taken EXCEPT ![file[f]] = @ + count]
      BY <3>1 DEF ReadInto
    <3>3. \A c \in Clients : taken[c] \in Nat /\ sent[c] \in Nat
      BY DEF Apart, Typed, ClientsTyped
    <3>4. count \in Nat
      BY <3>1, <3>2, <3>3
    <3>5. taken \in [Clients -> Nat]
      BY DEF Apart, Typed, ClientsTyped
    <3> QED
      BY <3>2, <3>3, <3>4, <3>5
  <2>4. HeardSound'
    BY <2>2, <2>3, HeardStays DEF Apart
  <2> QED
    BY <2>1, <2>4
<1> QED
  BY <1>1, <1>2, <1>3, <1>5, <1>6, <1>7, <1>8, <1>9 DEF Epoll

LEMMA TaskOrder ==
    ASSUME Apart, Typed', NEW f \in Fds, Task(f)
    PROVE  HeardSound' /\ OrderSound'
<1>1. CASE TaskWaits
  BY <1>1, QuietStep DEF TaskWaits
<1>2. CASE TaskWrites(f)
  <2>1. \A c \in Clients : taken[c] <= taken'[c]
    BY <1>2 DEF TaskWrites, Apart, Typed, ClientsTyped
  <2>2. HeardSound'
    BY <1>2, <2>1, HeardStays DEF TaskWrites, Apart
  <2>3. OrderSound'
    BY <1>2, ShiftOrder, GarbledOrder, UpgradeOrder DEF TaskWrites
  <2> QED
    BY <2>2, <2>3
<1> QED
  BY <1>1, <1>2, TaskWritesOrWaits DEF Apart

LEMMA ChatOrder ==
    ASSUME Apart, Typed', NEW h \in Chats, Chat(h)
    PROVE  HeardSound' /\ OrderSound'
<1>1. CASE ChatEnds(h)
  BY <1>1, QuietStep DEF ChatEnds, historyVars
<1>2. CASE ChatReads(h)
  <2>1. /\ script' = script /\ replies' = replies /\ reused' = reused
        /\ connections' = connections /\ file' = file
    BY <1>2, Zenon DEF ChatReads
  <2>2. PICK c \in Clients : /\ sent[c] - taken[c] \in Nat \ {0}
                             /\ taken' = [taken EXCEPT ![c] = @ + (sent[c] - taken[c])]
    <3>1. \E d \in Clients, texts \in Seq(Tokens) : \E place : ReadBy(h, d, texts, place)
      BY <1>2, ChatTakes DEF Apart
    <3> QED
      BY <3>1, Zenon DEF ReadBy
  <2>3. \A d \in Clients : taken[d] <= taken'[d]
    <3>1. PICK n \in Nat : n = sent[c] - taken[c]
      BY <2>2
    <3>2. \A d \in Clients : taken[d] \in Nat
      BY DEF Apart, Typed, ClientsTyped
    <3>3. taken' = [taken EXCEPT ![c] = @ + n]
      BY <2>2, <3>1
    <3> QED
      BY <3>2, <3>3 DEF Apart, Typed, ClientsTyped
  <2>4. \A f \in Fds : Quiet(f)
    BY <2>1 DEF Quiet, Known
  <2>5. OrderSound'
    BY <2>1, <2>3, <2>4, OrderQuiet DEF Apart
  <2> QED
    BY <1>2, <2>5, ReadsHeard
<1>3. CASE ChatCloses(h)
  <2>1. /\ script' = script /\ taken' = taken /\ heard' = heard /\ replies' = replies
        /\ connections' = connections /\ reused' = reused /\ Close(chat[h].fd)
    BY <1>3 DEF ChatCloses, historyVars
  <2>2. \A g \in Fds : file'[g] = file[g] \/ file'[g] = None
    BY <2>1 DEF Close, Apart, Typed, ServerTyped
  <2> QED
    BY <2>1, <2>2, QuietStep
<1> QED
  BY <1>1, <1>2, <1>3 DEF Chat

LEMMA ApartNext == Apart /\ [Next]_vars => Apart'
<1> SUFFICES ASSUME Apart, [Next]_vars PROVE Apart'
  OBVIOUS
<1>1. Typed' /\ FilesSound' /\ EndsSound'
  BY TypedNext, FilesNext, EndsNext DEF Apart
<1>2. ASSUME NEW c \in Clients, Client(c) PROVE HeardSound' /\ OrderSound'
  <2>1. /\ script' = script /\ taken' = taken /\ heard' = heard /\ replies' = replies
        /\ connections' = connections /\ file' = file /\ reused' = reused
    BY <1>2 DEF Client, Connect, Send, ClientRead, HangUp, historyVars
  <2> QED
    BY <1>1, <2>1, QuietStep
<1>3. ASSUME UNCHANGED vars PROVE HeardSound' /\ OrderSound'
  <2>1. /\ script' = script /\ taken' = taken /\ heard' = heard /\ replies' = replies
        /\ connections' = connections /\ file' = file /\ reused' = reused
    BY <1>3 DEF vars, historyVars
  <2> QED
    BY <1>1, <2>1, QuietStep
<1>4. HeardSound' /\ OrderSound'
  <2>1. ASSUME Epoll PROVE HeardSound' /\ OrderSound'
    BY <1>1, <2>1, EpollOrder
  <2>2. ASSUME NEW f \in Fds, Task(f) PROVE HeardSound' /\ OrderSound'
    BY <1>1, <2>2, TaskOrder
  <2>3. ASSUME NEW h \in Chats, Chat(h) PROVE HeardSound' /\ OrderSound'
    BY <1>1, <2>3, ChatOrder
  <2>4. CASE Next
    BY <1>2, <2>1, <2>2, <2>3, <2>4, Zenon DEF Next
  <2> QED
    BY <1>3, <2>4
<1> QED
  BY <1>1, <1>4 DEF Apart

LEMMA ApartMeans == Apart => ClientsKeptApart
<1> SUFFICES ASSUME Apart, ~reused, NEW c \in Clients
             PROVE  /\ \A i \in DOMAIN replies[c] : replies[c][i].from = c
                    /\ InOrder(heard[c])
                    /\ \A i, j \in DOMAIN replies[c] :
                          i < j => \/ replies[c][i].n < replies[c][j].n
                                   \/ /\ replies[c][i].n = replies[c][j].n
                                      /\ Kind(replies[c][i]) = "upgrade"
  BY DEF ClientsKeptApart
<1>1. /\ DOMAIN replies[c] = 1..Len(replies[c]) /\ DOMAIN heard[c] = 1..Len(heard[c])
      /\ \A i \in 1..Len(replies[c]) : replies[c][i] \in Tokens
  BY DEF Apart, Typed, HistoryTyped
<1>2. \A t \in Tokens : t.n \in Nat
  BY TokensAreMessages DEF Messages, Apart, Typed, ClientsTyped
<1>3. InOrder(heard[c])
  BY <1>1, Zenon DEF InOrder, Apart, HeardSound, HeardOf
<1>4. \A i \in 1..Len(replies[c]) :
          /\ replies[c][i].from = c
          /\ \A j \in 1..Len(replies[c]) : i < j => Done(replies[c][i], replies[c][j])
  BY Zenon DEF Apart, OrderSound, Told, Answers
<1>5. \A t, u \in Tokens : Done(t, u) => t.n < u.n \/ (t.n = u.n /\ Kind(t) = "upgrade")
  BY <1>2 DEF Done
<1> QED
  BY <1>1, <1>3, <1>4, <1>5

\* Clients are kept apart, whatever they ask and however tasks, reads and
\* closes of main_async.cc fall together, until a number is reused.
THEOREM ClientsStayApart == Spec => []ClientsKeptApart
<1>1. Spec => []Apart
  BY ApartInit, ApartNext, PTL DEF Spec
<1> QED
  BY <1>1, ApartMeans, PTL
=============================================================================
