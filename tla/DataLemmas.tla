----------------------------- MODULE DataLemmas -----------------------------
(***************************************************************************)
(* What the proofs need to know of the data: least elements, induction,    *)
(* recursive functions, and lists.  Induction is stated for sets: the set  *)
(* of the numbers that have a property stands for the property.            *)
(***************************************************************************)
EXTENDS Lists, FiniteSetsExt, WellFoundedInduction, TLAPS

LEMMA LessThanWellFounded ==
    IsWellFoundedOn({ss \in Nat \X Nat : ss[1] < ss[2]}, Nat)
  BY NatLessThanWellFounded, Zenon DEF OpToRel

LEMMA LeastElement ==
    ASSUME NEW S \in SUBSET Nat, S # {}
    PROVE  \E x \in S : \A y \in S : x <= y
<1> DEFINE R == {ss \in Nat \X Nat : ss[1] < ss[2]}
<1>1. \E x \in S : \A y \in S : <<y, x>> \notin R
  <2>1. IsWellFoundedOn(R, Nat)
    BY LessThanWellFounded
  <2> HIDE DEF R
  <2> QED
    BY <2>1, WFMin
<1>2. \A x, y \in S : <<y, x>> \notin R => ~(y < x)
  OBVIOUS
<1>3. \A x, y \in S : ~(y < x) => x <= y
  OBVIOUS
<1> HIDE DEF R
<1> QED
  BY <1>1, <1>2, <1>3

LEMMA MinIsLeast ==
    ASSUME NEW S \in SUBSET Nat, S # {}
    PROVE  Min(S) \in S /\ \A x \in S : Min(S) <= x
  BY LeastElement DEF Min

LEMMA MaxIsGreatest ==
    ASSUME NEW S \in SUBSET Nat, S # {}, NEW n \in Nat, \A x \in S : x <= n
    PROVE  Max(S) \in S /\ \A x \in S : Max(S) >= x
<1> DEFINE U == {u \in Nat : \A x \in S : x <= u}
<1>1. PICK u \in U : \A v \in U : u <= v
  BY LeastElement
<1>2. u \in S
  <2> SUFFICES ASSUME u \notin S PROVE FALSE
    OBVIOUS
  <2>1. \A x \in S : x < u
    BY <1>1
  <2>2. u > 0 /\ u - 1 \in Nat
    <3>1. PICK x \in S : TRUE
      OBVIOUS
    <3>2. u \in Nat /\ x \in Nat /\ x < u
      BY <2>1, <3>1
    <3> QED
      BY <3>2
  <2>3. \A x \in S : x <= u - 1
    BY <2>1
  <2> QED
    BY <1>1, <2>2, <2>3
<1>3. \E x \in S : \A y \in S : x >= y
  BY <1>1, <1>2
<1> QED
  BY <1>3 DEF Max

\* Induction.
LEMMA Induction ==
    ASSUME NEW S, 0 \in S, \A n \in Nat : n \in S => n + 1 \in S
    PROVE  Nat \subseteq S
<1> SUFFICES ASSUME NEW m \in Nat, m \notin S PROVE FALSE
  OBVIOUS
<1> DEFINE T == {n \in Nat : n \notin S}
<1>1. PICK x \in T : \A y \in T : x <= y
  BY LeastElement
<1>2. x # 0 /\ x - 1 \in Nat /\ x - 1 \notin T
  BY <1>1
<1> QED
  BY <1>1, <1>2

\* Induction up to a bound.
LEMMA BoundedInduction ==
    ASSUME NEW n \in Nat, NEW S, 0 \in S, \A i \in 1..n : i - 1 \in S => i \in S
    PROVE  0..n \subseteq S
<1> DEFINE T == {i \in Nat : i <= n => i \in S}
<1>1. \A i \in Nat : i \in T => i + 1 \in T
  <2> SUFFICES ASSUME NEW i \in Nat, i \in T, i + 1 <= n PROVE i + 1 \in S
    OBVIOUS
  <2>1. i \in S /\ i + 1 \in 1..n /\ (i + 1) - 1 = i
    OBVIOUS
  <2> QED
    BY <2>1
<1>2. Nat \subseteq T
  <2> HIDE DEF T
  <2>1. 0 \in T
    BY DEF T
  <2> QED
    BY <1>1, <2>1, Induction
<1> QED
  BY <1>2

\* A function on 0..n that is given by its first value and by its steps.
StepsOf(n, S) == [1..n -> [S -> S]]
Unfolds(f, n, S, base, step) ==
    /\ f \in [0..n -> S]
    /\ f[0] = base
    /\ \A i \in 1..n : f[i] = step[i][f[i - 1]]

\* It exists.
LEMMA Recursion ==
    ASSUME NEW n \in Nat, NEW S, NEW base \in S, NEW step \in StepsOf(n, S)
    PROVE  \E f : Unfolds(f, n, S, base, step)
<1> USE DEF StepsOf
<1> DEFINE Good(m, f) ==
        f[0] = base /\ \A i \in 1..m : f[i] = step[i][f[i - 1]]
    T == {m \in 0..n : \E f \in [0..m -> S] : Good(m, f)}
<1>1. 0 \in T
  <2>1. [i \in 0..0 |-> base] \in [0..0 -> S] /\ Good(0, [i \in 0..0 |-> base])
    OBVIOUS
  <2>2. \E f \in [0..0 -> S] : Good(0, f)
    BY <2>1, Zenon
  <2> HIDE DEF Good
  <2> QED
    BY <2>2
<1>2. ASSUME NEW m \in 1..n, m - 1 \in T PROVE m \in T
  <2>1. PICK f \in [0..(m - 1) -> S] : Good(m - 1, f)
    BY <1>2
  <2> DEFINE g == [i \in 0..m |-> IF i = m THEN step[m][f[m - 1]] ELSE f[i]]
  <2>2. step[m][f[m - 1]] \in S
    <3>1. f[m - 1] \in S /\ step[m] \in [S -> S]
      OBVIOUS
    <3> QED
      BY <3>1
  <2>3. g \in [0..m -> S]
    BY <2>2
  <2>4. \A i \in 1..m : g[i] = step[i][g[i - 1]]
    <3> TAKE i \in 1..m
    <3>1. i - 1 \in 0..m - 1 /\ g[i - 1] = f[i - 1]
      OBVIOUS
    <3>2. CASE i = m
      <4>1. g[m] = step[m][f[m - 1]]
        OBVIOUS
      <4> QED
        BY <3>1, <3>2, <4>1
    <3>3. CASE i # m
      BY <2>1, <3>1, <3>3
    <3> QED
      BY <3>2, <3>3
  <2>5. g[0] = base
    BY <2>1
  <2>6. \E h \in [0..m -> S] : Good(m, h)
    <3> HIDE DEF g
    <3> QED
      BY <2>3, <2>4, <2>5, Zenon
  <2> HIDE DEF Good
  <2> QED
    BY <2>6
<1>3. 0..n \subseteq T
  <2> HIDE DEF T
  <2> QED
    BY <1>1, <1>2, BoundedInduction
<1>4. PICK f \in [0..n -> S] : Good(n, f)
  BY <1>3
<1> QED
  BY <1>4 DEF Unfolds

-----------------------------------------------------------------------------
\* The lists that the first elements of s lead to.
PickSteps(f, S, s, places) ==
    /\ f \in [0..Len(s) -> Seq(S)]
    /\ f[0] = <<>>
    /\ \A i \in 1..Len(s) :
           f[i] = IF i \in places THEN Append(f[i - 1], s[i]) ELSE f[i - 1]
    /\ Pick(s, places) = f[Len(s)]

LEMMA PickUnfolds ==
    ASSUME NEW S, NEW s \in Seq(S), NEW places
    PROVE  \E f : PickSteps(f, S, s, places)
<1> DEFINE n == Len(s)
    Rec(f) == [i \in 0..n |-> IF i = 0 THEN <<>>
                              ELSE IF i \in places THEN Append(f[i - 1], s[i])
                                                   ELSE f[i - 1]]
    step == [i \in 1..n |->
                [t \in Seq(S) |-> IF i \in places THEN Append(t, s[i]) ELSE t]]
    picked == CHOOSE f : f = Rec(f)
<1>1. n \in Nat /\ <<>> \in Seq(S)
  OBVIOUS
<1>2. step \in [1..n -> [Seq(S) -> Seq(S)]]
  <2>1. \A i \in 1..n : \A t \in Seq(S) :
            (IF i \in places THEN Append(t, s[i]) ELSE t) \in Seq(S)
    OBVIOUS
  <2> QED
    BY <2>1
<1>3. PICK f \in [0..n -> Seq(S)] :
          f[0] = <<>> /\ \A i \in 1..n : f[i] = step[i][f[i - 1]]
  <2>1. step \in StepsOf(n, Seq(S))
    BY <1>2 DEF StepsOf
  <2>2. PICK g : Unfolds(g, n, Seq(S), <<>>, step)
    <3> HIDE DEF n, step
    <3> QED
      BY <1>1, <2>1, Recursion
  <2> HIDE DEF step
  <2> QED
    BY <2>2 DEF Unfolds
<1>4. f = Rec(f)
  <2>1. \A i \in 1..n : f[i] = IF i \in places THEN Append(f[i - 1], s[i]) ELSE f[i - 1]
    <3> TAKE i \in 1..n
    <3>1. f[i - 1] \in Seq(S)
      OBVIOUS
    <3>2. step[i][f[i - 1]] = IF i \in places THEN Append(f[i - 1], s[i]) ELSE f[i - 1]
      BY <3>1
    <3>3. f[i] = step[i][f[i - 1]]
      BY <1>3
    <3> QED
      BY <3>2, <3>3
  <2>2. f[0] = <<>>
    BY <1>3
  <2>3. \A i \in 0..n : Rec(f)[i] =
            IF i = 0 THEN <<>>
            ELSE IF i \in places THEN Append(f[i - 1], s[i]) ELSE f[i - 1]
    OBVIOUS
  <2>4. \A i \in 0..n : f[i] = Rec(f)[i]
    <3> TAKE i \in 0..n
    <3> HIDE DEF Rec, step
    <3>1. CASE i = 0
      BY <2>2, <2>3, <3>1
    <3>2. CASE i # 0
      BY <2>1, <2>3, <3>2
    <3> QED
      BY <3>1, <3>2
  <2>5. f = [i \in 0..n |-> f[i]] /\ Rec(f) = [i \in 0..n |-> Rec(f)[i]]
    OBVIOUS
  <2> HIDE DEF Rec
  <2> QED
    BY <2>4, <2>5
<1>5. picked = Rec(picked)
  <2> HIDE DEF Rec
  <2> QED
    BY <1>4
<1>6. /\ picked[0] = <<>>
      /\ \A i \in 1..n :
            picked[i] = IF i \in places THEN Append(picked[i - 1], s[i]) ELSE picked[i - 1]
      /\ picked = [i \in 0..n |-> picked[i]]
  <2> HIDE DEF picked
  <2>1. \A i \in 0..n : picked[i] = Rec(picked)[i]
    BY <1>5
  <2>2. \A i \in 0..n : Rec(picked)[i] =
            IF i = 0 THEN <<>> ELSE IF i \in places THEN Append(picked[i - 1], s[i])
                                                  ELSE picked[i - 1]
    OBVIOUS
  <2>3. picked = [i \in 0..n |-> picked[i]]
    <3>1. picked = Rec(picked)
      BY <1>5
    <3> QED
      BY <3>1
  <2> QED
    BY SMTT(30), <2>1, <2>2, <2>3
<1>7. \A i \in 0..n : picked[i] \in Seq(S)
  <2> DEFINE T == {i \in 0..n : picked[i] \in Seq(S)}
  <2> HIDE DEF picked
  <2>1. 0 \in T
    <3>1. picked[0] = <<>>
      BY <1>6
    <3>3. picked[0] \in Seq(S)
      BY <3>1
    <3>2. 0 \in 0..n
      BY <1>1
    <3> QED
      BY <3>2, <3>3
  <2>2. ASSUME NEW i \in 1..n, i - 1 \in T PROVE i \in T
    <3>1. Append(picked[i - 1], s[i]) \in Seq(S)
      BY <2>2
    <3>2. picked[i] \in Seq(S)
      BY <1>6, <2>2, <3>1
    <3> QED
      BY <3>2
  <2>3. 0..n \subseteq T
    <3> HIDE DEF T, n
    <3> QED
      BY <1>1, <2>1, <2>2, BoundedInduction
  <2> QED
    BY <2>3
<1>8. picked \in [0..n -> Seq(S)]
  <2> HIDE DEF picked
  <2> QED
    BY <1>6, <1>7
<1>9. Pick(s, places) = picked[n]
  BY Zenon DEF Pick
<1> HIDE DEF picked
<1> QED
  BY <1>6, <1>8, <1>9 DEF PickSteps

\* at says where the elements of t stand among the first n of s: t has those at
\* some places, each of them, in order.
Selects(at, t, s, n, places) ==
    /\ at \in [1..Len(t) -> places \cap 1..n]
    /\ \A k \in 1..Len(t) : t[k] = s[at[k]]
    /\ \A j, k \in 1..Len(t) : j < k => at[j] < at[k]
    /\ \A i \in places \cap 1..n : \E k \in 1..Len(t) : at[k] = i

LEMMA PickSelects ==
    ASSUME NEW S, NEW s \in Seq(S), NEW places
    PROVE  /\ Pick(s, places) \in Seq(S)
           /\ \E at : Selects(at, Pick(s, places), s, Len(s), places)
<1> DEFINE n == Len(s)
<1>1. PICK f \in [0..n -> Seq(S)] :
          /\ f[0] = <<>>
          /\ \A i \in 1..n :
                 f[i] = IF i \in places THEN Append(f[i - 1], s[i]) ELSE f[i - 1]
          /\ Pick(s, places) = f[n]
  <2>1. PICK f : PickSteps(f, S, s, places)
    BY PickUnfolds
  <2> QED
    BY <2>1 DEF PickSteps
<1> DEFINE T == {i \in 0..n : \E at : Selects(at, f[i], s, i, places)}
<1>2. n \in Nat
  OBVIOUS
<1>3. 0 \in T
  <2>1. Selects(<<>>, <<>>, s, 0, places)
    BY DEF Selects
  <2> QED
    BY <1>1, <2>1
<1>4. ASSUME NEW i \in 1..n, i - 1 \in T PROVE i \in T
  <2> DEFINE t == f[i - 1]
  <2>1. PICK at : Selects(at, t, s, i - 1, places)
    BY <1>4
  <2>2. t \in Seq(S) /\ s[i] \in S
    OBVIOUS
  <2>3. CASE i \notin places
    <3>1. Selects(at, t, s, i, places)
      <4>1. places \cap 1..i = places \cap 1..(i - 1)
        BY <2>3
      <4> HIDE DEF t
      <4> QED
        BY <2>1, <4>1 DEF Selects
    <3>2. f[i] = t
      BY <1>1, <2>3
    <3> QED
      BY <3>1, <3>2
  <2>4. CASE i \in places
    <3> DEFINE u == Append(t, s[i])
        to == [k \in 1..Len(t) + 1 |-> IF k = Len(t) + 1 THEN i ELSE at[k]]
    <3>1. /\ Len(u) = Len(t) + 1 /\ Len(t) \in Nat
          /\ u[Len(t) + 1] = s[i]
          /\ \A k \in 1..Len(t) : u[k] = t[k]
      BY <2>2
    <3>2. /\ to[Len(t) + 1] = i
          /\ \A k \in 1..Len(t) : to[k] = at[k]
      BY <3>1
    <3> HIDE DEF t, u
    <3>3. to \in [1..Len(t) + 1 -> places \cap 1..i]
      BY <2>1, <2>4, <3>1 DEF Selects
    <3> HIDE DEF to
    <3>4. \A k \in 1..Len(u) : u[k] = s[to[k]]
      BY <2>1, <3>1, <3>2 DEF Selects
    <3>9. \A k \in 1..Len(t) : at[k] \in 1..(i - 1) /\ at[k] < i
      BY SMTT(30), <2>1 DEF Selects
    <3>5. \A j, k \in 1..Len(u) : j < k => to[j] < to[k]
      <4> SUFFICES ASSUME NEW j \in 1..Len(u), NEW k \in 1..Len(u), j < k
                   PROVE  to[j] < to[k]
        OBVIOUS
      <4>1. j \in 1..Len(t)
        BY <3>1
      <4>2. CASE k = Len(t) + 1
        BY <3>2, <3>9, <4>1, <4>2
      <4>3. CASE k \in 1..Len(t)
        BY <2>1, <3>2, <4>1, <4>3 DEF Selects
      <4>4. k \in 1..Len(t) + 1
        BY <3>1
      <4>5. k = Len(t) + 1 \/ k \in 1..Len(t)
        <5>1. \A m \in Nat : \A l \in 1..m + 1 : l = m + 1 \/ l \in 1..m
          OBVIOUS
        <5>2. Len(t) \in Nat
          BY <3>1
        <5> HIDE DEF T, n
        <5> QED
          BY <4>4, <5>1, <5>2
      <4> QED
        BY <4>2, <4>3, <4>5
    <3>6. \A j \in places \cap 1..i : \E k \in 1..Len(u) : to[k] = j
      <4> TAKE j \in places \cap 1..i
      <4>1. CASE j = i
        BY <3>1, <3>2, <4>1
      <4>2. CASE j # i
        <5>1. j \in places \cap 1..(i - 1)
          BY <4>2
        <5>2. PICK k \in 1..Len(t) : at[k] = j
          BY <2>1, <5>1 DEF Selects
        <5> QED
          BY <3>1, <3>2, <5>2
      <4> QED
        BY <4>1, <4>2
    <3>7. Selects(to, u, s, i, places)
      BY <3>1, <3>3, <3>4, <3>5, <3>6 DEF Selects
    <3>8. f[i] = u
      BY <1>1, <2>4 DEF u, t
    <3> QED
      BY <3>7, <3>8
  <2> QED
    BY <2>3, <2>4
<1>5. 0..n \subseteq T
  <2> HIDE DEF T, n
  <2> QED
    BY <1>2, <1>3, <1>4, BoundedInduction
<1>6. n \in T
  BY <1>2, <1>5
<1> QED
  BY <1>1, <1>2, <1>6

\* Nothing is picked twice, and nothing made up.
LEMMA PickFromList ==
    ASSUME NEW S, NEW s \in Seq(S), NEW places
    PROVE  LET t == Pick(s, places)
           IN  /\ t \in Seq(S)
               /\ \A k \in DOMAIN t :
                      \E i \in DOMAIN s \cap places : t[k] = s[i]
               /\ (\A i, j \in DOMAIN s : s[i] = s[j] => i = j)
                      => \A i, j \in DOMAIN t : t[i] = t[j] => i = j
<1> DEFINE t == Pick(s, places)
<1>1. t \in Seq(S)
  BY PickSelects
<1>2. PICK at : Selects(at, t, s, Len(s), places)
  BY PickSelects
<1> HIDE DEF t
<1>3. /\ DOMAIN t = 1..Len(t) /\ DOMAIN s = 1..Len(s)
      /\ \A k \in DOMAIN t : at[k] \in DOMAIN s \cap places /\ t[k] = s[at[k]]
      /\ \A j, k \in DOMAIN t : at[j] = at[k] => j = k
  BY <1>1, <1>2 DEF Selects
<1>4. \A k \in DOMAIN t : \E i \in DOMAIN s \cap places : t[k] = s[i]
  BY <1>3
<1>5. ASSUME \A i, j \in DOMAIN s : s[i] = s[j] => i = j
      PROVE  \A i, j \in DOMAIN t : t[i] = t[j] => i = j
  BY <1>3, <1>5
<1> QED
  BY <1>1, <1>4, <1>5 DEF t

\* Nothing that is picked is lost.
LEMMA PickKeeps ==
    ASSUME NEW S, NEW s \in Seq(S), NEW places
    PROVE  \A i \in DOMAIN s \cap places :
               \E k \in DOMAIN Pick(s, places) : Pick(s, places)[k] = s[i]
<1> DEFINE t == Pick(s, places)
<1>1. t \in Seq(S)
  BY PickSelects
<1>2. PICK at : Selects(at, t, s, Len(s), places)
  BY PickSelects
<1> HIDE DEF t
<1>3. DOMAIN t = 1..Len(t) /\ DOMAIN s = 1..Len(s)
  BY <1>1
<1>4. ASSUME NEW i \in DOMAIN s \cap places
      PROVE  \E k \in DOMAIN t : t[k] = s[i]
  <2>1. PICK k \in 1..Len(t) : at[k] = i
    BY <1>2, <1>3 DEF Selects
  <2> QED
    BY <1>2, <1>3, <2>1 DEF Selects
<1> QED
  BY <1>4 DEF t

\* To pick everything changes nothing.
LEMMA PickAll ==
    ASSUME NEW S, NEW s \in Seq(S)
    PROVE  Pick(s, DOMAIN s) = s
<1> DEFINE n == Len(s)
<1>1. PICK f \in [0..n -> Seq(S)] :
          /\ f[0] = <<>>
          /\ \A i \in 1..n : f[i] = Append(f[i - 1], s[i])
          /\ Pick(s, DOMAIN s) = f[n]
  <2>1. PICK f : PickSteps(f, S, s, DOMAIN s)
    BY PickUnfolds
  <2>2. \A i \in 1..n : i \in DOMAIN s
    OBVIOUS
  <2>3. \A i \in 1..n : f[i] = Append(f[i - 1], s[i])
    BY <2>1, <2>2 DEF PickSteps
  <2>4. f \in [0..n -> Seq(S)] /\ f[0] = <<>> /\ Pick(s, DOMAIN s) = f[n]
    BY <2>1 DEF PickSteps
  <2> HIDE DEF n
  <2> QED
    BY <2>3, <2>4
<1> DEFINE T == {i \in 0..n : Len(f[i]) = i /\ \A j \in 1..i : f[i][j] = s[j]}
<1>2. n \in Nat /\ DOMAIN s = 1..n
  OBVIOUS
<1> HIDE DEF n
<1>3. 0 \in T
  BY <1>1, <1>2
<1>4. ASSUME NEW i \in 1..n, i - 1 \in T PROVE i \in T
  <2> DEFINE t == f[i - 1]
  <2>1. t \in Seq(S) /\ s[i] \in S /\ Len(t) = i - 1 /\ \A j \in 1..i - 1 : t[j] = s[j]
    BY <1>2, <1>4
  <2>2. f[i] = Append(t, s[i])
    BY <1>1
  <2> HIDE DEF t
  <2>3. Len(f[i]) = i /\ \A j \in 1..i : f[i][j] = IF j = i THEN s[i] ELSE t[j]
    BY <2>1, <2>2
  <2> QED
    BY <2>1, <2>3
<1>5. 0..n \subseteq T
  <2> HIDE DEF T
  <2> QED
    BY <1>2, <1>3, <1>4, BoundedInduction
<1>6. f[n] \in Seq(S) /\ Len(f[n]) = n /\ \A j \in 1..n : f[n][j] = s[j]
  BY <1>2, <1>5
<1>7. f[n] = s
  BY <1>2, <1>6 DEF n
<1> QED
  BY <1>1, <1>7
-----------------------------------------------------------------------------
\* The values that the digits of s lead to.
HornerSteps(f, factor, s) ==
    /\ f \in [0..Len(s) -> Nat]
    /\ f[0] = 0
    /\ \A i \in 1..Len(s) : f[i] = factor * f[i - 1] + s[i]
    /\ Horner(factor, s) = f[Len(s)]

LEMMA HornerUnfolds ==
    ASSUME NEW factor \in Nat, NEW s \in Seq(Nat)
    PROVE  \E f : HornerSteps(f, factor, s)
<1> DEFINE n == Len(s)
    Rec(f) == [i \in 0..n |-> IF i = 0 THEN 0 ELSE factor * f[i - 1] + s[i]]
    step == [i \in 1..n |-> [t \in Nat |-> factor * t + s[i]]]
    value == CHOOSE f : f = Rec(f)
<1>1. n \in Nat /\ 0 \in Nat /\ \A i \in 1..n : s[i] \in Nat
  OBVIOUS
<1>2. step \in StepsOf(n, Nat)
  <2>1. \A i \in 1..n : \A t \in Nat : factor * t + s[i] \in Nat
    BY <1>1
  <2> QED
    BY <2>1 DEF StepsOf
<1>3. PICK f : Unfolds(f, n, Nat, 0, step)
  <2> HIDE DEF n, step
  <2> QED
    BY <1>1, <1>2, Recursion
<1>4. f = Rec(f)
  <2>1. \A i \in 0..n : f[i] = IF i = 0 THEN 0 ELSE factor * f[i - 1] + s[i]
    <3> TAKE i \in 0..n
    <3>1. CASE i = 0
      BY <1>3, <3>1 DEF Unfolds
    <3>2. CASE i # 0
      <4>1. i \in 1..n /\ f[i - 1] \in Nat
        BY <1>3, <3>2 DEF Unfolds
      <4>2. f[i] = step[i][f[i - 1]]
        BY <1>3, <4>1 DEF Unfolds
      <4>3. step[i][f[i - 1]] = factor * f[i - 1] + s[i]
        BY <4>1
      <4> QED
        BY <3>2, <4>2, <4>3
    <3> QED
      BY <3>1, <3>2
  <2>2. f \in [0..n -> Nat]
    BY <1>3 DEF Unfolds
  <2> HIDE DEF step
  <2> QED
    BY <2>1, <2>2
<1>5. value = Rec(value)
  <2> HIDE DEF Rec
  <2> QED
    BY <1>4
<1>6. /\ value[0] = 0
      /\ \A i \in 1..n : value[i] = factor * value[i - 1] + s[i]
      /\ value = [i \in 0..n |-> value[i]]
  <2> HIDE DEF value
  <2>1. \A i \in 0..n : value[i] = Rec(value)[i]
    BY <1>5
  <2>2. \A i \in 0..n : Rec(value)[i] =
            IF i = 0 THEN 0 ELSE factor * value[i - 1] + s[i]
    OBVIOUS
  <2>3. value = [i \in 0..n |-> value[i]]
    <3>1. value = Rec(value)
      BY <1>5
    <3> QED
      BY <3>1
  <2> HIDE DEF Rec, n
  <2>4. 0 \in 0..n /\ \A i \in 1..n : i \in 0..n /\ i # 0
    BY <1>1
  <2>5. value[0] = 0
    BY <2>1, <2>2, <2>4
  <2>6. \A i \in 1..n : value[i] = factor * value[i - 1] + s[i]
    BY <2>1, <2>2, <2>4
  <2> QED
    BY <2>3, <2>5, <2>6
<1>7. 0..n \subseteq {i \in 0..n : value[i] \in Nat}
  <2> DEFINE T == {i \in 0..n : value[i] \in Nat}
  <2> HIDE DEF value
  <2>1. 0 \in T
    BY <1>1, <1>6
  <2>2. ASSUME NEW i \in 1..n, i - 1 \in T PROVE i \in T
    <3>1. value[i - 1] \in Nat /\ s[i] \in Nat
      BY <1>1, <2>2
    <3>2. value[i] = factor * value[i - 1] + s[i]
      BY <1>1, <1>6, <2>2
    <3>3. factor * value[i - 1] + s[i] \in Nat
      <4>1. \A v, d \in Nat : factor * v + d \in Nat
        <5> TAKE v, d \in Nat
        <5>1. factor * v \in Nat
          OBVIOUS
        <5> QED
          BY <5>1
      <4> QED
        BY <3>1, <4>1
    <3> QED
      BY <3>2, <3>3
  <2> HIDE DEF T, n
  <2>3. 0..n \subseteq T
    BY <1>1, <2>1, <2>2, BoundedInduction
  <2> QED
    BY <2>3 DEF T
<1>8. Horner(factor, s) = value[n]
  BY Zenon DEF Horner
<1> HIDE DEF value, Rec
<1>9. value \in [0..n -> Nat]
  <2> HIDE DEF n
  <2> QED
    BY <1>6, <1>7
<1> QED
  BY <1>6, <1>8, <1>9 DEF HornerSteps

\* One more digit.
LEMMA HornerAppend ==
    ASSUME NEW factor \in Nat, NEW s \in Seq(Nat), NEW d \in Nat
    PROVE  /\ Horner(factor, s) \in Nat
           /\ Horner(factor, Append(s, d)) = factor * Horner(factor, s) + d
<1> DEFINE n == Len(s)
    t == Append(s, d)
<1>1. /\ n \in Nat /\ t \in Seq(Nat) /\ Len(t) = n + 1 /\ t[n + 1] = d
      /\ \A i \in 1..n : t[i] = s[i]
  OBVIOUS
<1>2. PICK f : HornerSteps(f, factor, s)
  BY HornerUnfolds
<1>3. PICK g : HornerSteps(g, factor, t)
  <2> HIDE DEF t
  <2> QED
    BY <1>1, HornerUnfolds
<1> DEFINE T == {i \in 0..n : f[i] = g[i]}
<1> HIDE DEF t, n
<1>4. /\ f \in [0..n -> Nat] /\ f[0] = 0 /\ Horner(factor, s) = f[n]
      /\ \A i \in 1..n : f[i] = factor * f[i - 1] + s[i]
  BY <1>2 DEF HornerSteps, n
<1>5. /\ g[0] = 0 /\ Horner(factor, t) = g[n + 1]
      /\ \A i \in 1..n + 1 : g[i] = factor * g[i - 1] + t[i]
  BY <1>1, <1>3 DEF HornerSteps
<1>6. 0..n \subseteq T
  <2>1. 0 \in T
    BY <1>1, <1>4, <1>5
  <2>2. ASSUME NEW i \in 1..n, i - 1 \in T PROVE i \in T
    <3>1. f[i - 1] = g[i - 1] /\ i \in 1..n + 1
      BY <1>1, <2>2
    <3>2. f[i] = factor * f[i - 1] + s[i] /\ g[i] = factor * g[i - 1] + t[i]
      BY <1>4, <1>5, <3>1
    <3>3. f[i] = g[i]
      BY <1>1, <3>1, <3>2
    <3> QED
      BY <1>1, <3>3
  <2> HIDE DEF T
  <2> QED
    BY <1>1, <2>1, <2>2, BoundedInduction
<1>7. g[n] = f[n] /\ f[n] \in Nat
  BY <1>1, <1>4, <1>6
<1>8. n + 1 \in 1..n + 1 /\ (n + 1) - 1 = n
  BY <1>1
<1>9. g[n + 1] = factor * g[n] + d
  <2>1. g[n + 1] = factor * g[(n + 1) - 1] + t[n + 1]
    BY <1>5, <1>8
  <2> QED
    BY <1>1, <1>8, <2>1
<1> QED
  BY <1>4, <1>5, <1>7, <1>9 DEF t

\* No digits.
LEMMA HornerEmpty ==
    ASSUME NEW factor \in Nat
    PROVE  Horner(factor, <<>>) = 0
<1>1. <<>> \in Seq(Nat) /\ Len(<<>>) = 0
  OBVIOUS
<1>2. PICK f : HornerSteps(f, factor, <<>>)
  BY <1>1, HornerUnfolds
<1> QED
  BY <1>1, <1>2 DEF HornerSteps

\* One digit.
LEMMA HornerOne ==
    ASSUME NEW factor \in Nat, NEW d \in Nat
    PROVE  Horner(factor, Append(<<>>, d)) = d
<1> DEFINE e == <<>>
<1>1. e \in Seq(Nat) /\ Horner(factor, e) = 0
  BY HornerEmpty
<1> HIDE DEF e
<1>2. Horner(factor, Append(e, d)) = factor * Horner(factor, e) + d
  BY <1>1, HornerAppend
<1>3. Horner(factor, Append(e, d)) = d
  BY <1>1, <1>2
<1> QED
  BY <1>3 DEF e
=============================================================================
