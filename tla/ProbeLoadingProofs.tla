------------------------- MODULE ProbeLoadingProofs -------------------------
(***************************************************************************)
(* Theorems about ProbeLoading, for any number of files, any documents and *)
(* any parameters: only what may be skipped is missing from the plan, the  *)
(* plan is in order, and what is compiled is the document with all its     *)
(* placeholders replaced, whatever the order of the substitutions.         *)
(***************************************************************************)
EXTENDS ProbeLoading, SequenceTheorems, FiniteSetTheorems,
        WellFoundedInduction, TLAPS

-----------------------------------------------------------------------------
(* Natural numbers.                                                        *)

(* Every set of natural numbers but the empty one has a least member.      *)
LEMMA Least ==
  ASSUME NEW T \in SUBSET Nat, T # {}
  PROVE  \E x \in T : \A y \in T : x <= y
<1> DEFINE R == {ss \in Nat \X Nat : ss[1] < ss[2]}
<1>1. OpToRel(<, Nat) = {ss \in Nat \X Nat : ss[1] < ss[2]}
  BY DEF OpToRel
<1>2. IsWellFoundedOn(R, Nat)
  BY <1>1, NatLessThanWellFounded
<1>3. PICK x \in T : \A y \in T : ~(<<y, x>> \in R)
  <2> HIDE DEF R
  <2>1. QED
    BY <1>2, WFMin
<1>4. \A y \in T : y \in Nat /\ x \in Nat /\ ~(y < x)
  BY <1>3
<1>5. QED
  BY <1>4

(* Induction from m to n, over the set of numbers that have the property.  *)
LEMMA Induction ==
  ASSUME NEW m \in Nat, NEW n \in Nat, NEW S,
         m \in S, \A i \in m..(n - 1) : i \in S => i + 1 \in S
  PROVE  \A i \in m..n : i \in S
<1> DEFINE T == {i \in Nat : i \in m..n /\ i \notin S}
<1> SUFFICES ASSUME T # {} PROVE FALSE
  OBVIOUS
<1>1. PICK x \in T : \A y \in T : x <= y
  <2>1. T \in SUBSET Nat
    OBVIOUS
  <2> HIDE DEF T
  <2>2. QED
    BY <2>1, Least
<1>2. x \in m..n /\ x \notin S /\ x # m
  BY <1>1
<1>3. x - 1 \in m..(n - 1) /\ x - 1 \notin T
  BY <1>1, <1>2
<1>4. x - 1 \in S /\ (x - 1) + 1 = x
  BY <1>2, <1>3
<1>5. QED
  BY <1>2, <1>3, <1>4

(* A function that is defined from its previous value exists.              *)
Stays(g, m, n, V) == \A v \in V : \A i \in (m + 1)..n : g[<<v, i>>] \in V
Recursive(f, m, n, V, b, g) ==
  f \in [m..n -> V] /\ f[m] = b /\ \A i \in (m + 1)..n : f[i] = g[<<f[i - 1], i>>]

LEMMA Recursion ==
  ASSUME NEW m \in Nat, NEW n \in Nat, m <= n, NEW V, NEW b \in V, NEW g, Stays(g, m, n, V)
  PROVE  \E f : Recursive(f, m, n, V, b, g)
<1> DEFINE I == (m + 1)..n
           Upto(k) == \E f \in [m..k -> V] :
                        f[m] = b /\ \A i \in (m + 1)..k : f[i] = g[<<f[i - 1], i>>]
           S == {k \in Nat : Upto(k)}
<1>1. Upto(m)
  <2> DEFINE f == [i \in m..m |-> b]
  <2>1. f \in [m..m -> V] /\ f[m] = b /\ (m + 1)..m = {}
    OBVIOUS
  <2>2. QED
    BY <2>1
<1>2. ASSUME NEW k \in m..(n - 1), Upto(k) PROVE Upto(k + 1)
  <2>1. PICK f \in [m..k -> V] :
              f[m] = b /\ \A i \in (m + 1)..k : f[i] = g[<<f[i - 1], i>>]
    BY <1>2
  <2>2. k \in Nat /\ k \in m..k /\ k + 1 \in I /\ k + 1 # m
    OBVIOUS
  <2>3. f[k] \in V
    BY <2>1, <2>2
  <2> DEFINE last == g[<<f[k], k + 1>>]
             h == [i \in m..(k + 1) |-> IF i = k + 1 THEN last ELSE f[i]]
  <2>4. last \in V
    BY <2>2, <2>3 DEF Stays
  <2>5. h \in [m..(k + 1) -> V]
    <3> HIDE DEF last
    <3>1. \A i \in m..(k + 1) : i # k + 1 => i \in m..k
      BY <2>2
    <3>2. QED
      BY <2>1, <2>4, <3>1
  <2>6. h[m] = b
    BY <2>1, <2>2
  <2>7. ASSUME NEW i \in (m + 1)..(k + 1) PROVE h[i] = g[<<h[i - 1], i>>]
    <3>1. i - 1 \in m..k /\ i \in m..(k + 1) /\ i - 1 \in m..(k + 1) /\ i - 1 # k + 1
      BY <2>2
    <3>2. h[i - 1] = f[i - 1]
      BY <3>1
    <3>3. CASE i = k + 1
      <4>1. h[i] = g[<<f[k], k + 1>>] /\ i - 1 = k
        BY <3>1, <3>3, <2>2
      <4>2. QED
        BY <3>2, <3>3, <4>1
    <3>4. CASE i # k + 1
      <4>1. i \in (m + 1)..k /\ h[i] = f[i]
        BY <3>1, <3>4
      <4>2. QED
        BY <2>1, <3>2, <4>1
    <3>5. QED
      BY <3>3, <3>4
  <2> HIDE DEF h
  <2>8. QED
    BY <2>5, <2>6, <2>7
<1>3. m \in S /\ \A k \in m..(n - 1) : k \in S => k + 1 \in S
  <2> HIDE DEF Upto
  <2>1. QED
    BY <1>1, <1>2
<1>4. n \in S
  <2> HIDE DEF S
  <2>1. \A k \in m..n : k \in S
    BY <1>3, Induction
  <2>2. QED
    BY <2>1
<1>5. QED
  BY <1>4 DEF Recursive

-----------------------------------------------------------------------------
(* Texts.                                                                  *)

Texts == Seq(Int)

LEMMA Concat ==
  ASSUME NEW a \in Texts, NEW b \in Texts
  PROVE  /\ a \o b \in Texts /\ Len(a \o b) = Len(a) + Len(b)
         /\ \A k \in 1..(Len(a) + Len(b)) :
              (a \o b)[k] = IF k <= Len(a) THEN a[k] ELSE b[k - Len(a)]
BY ConcatProperties DEF Texts

(* What FlattenSeq computes: the parts joined one after the other.         *)
Joins(F, q) ==
  /\ F \in [0..Len(q) -> Texts] /\ F[0] = <<>>
  /\ \A i \in 1..Len(q) : F[i] = F[i - 1] \o q[i]

LEMMA JoinsExists ==
  ASSUME NEW q \in Seq(Texts)
  PROVE  \E F : Joins(F, q)
<1> DEFINE n == Len(q)
           V == Texts
           g == [x \in V \X (1..n) |-> x[1] \o q[x[2]]]
<1>1. n \in Nat /\ \A i \in 1..n : q[i] \in V
  OBVIOUS
<1>2. \A v \in V : \A i \in 1..n : g[<<v, i>>] \in V
  BY <1>1, Concat
<1>3. <<>> \in V
  BY DEF Texts
<1>4. PICK f : Recursive(f, 0, n, V, <<>>, g)
  <2> HIDE DEF g, n, V
  <2>1. 0 \in Nat /\ 0 <= n /\ 0 + 1 = 1
    BY <1>1
  <2>2. Stays(g, 0, n, V)
    BY <1>2, <2>1 DEF Stays
  <2>3. QED
    BY <1>1, <1>3, <2>1, <2>2, Recursion, Zenon
<1>5. f \in [0..n -> V] /\ f[0] = <<>>
  BY <1>4 DEF Recursive
<1>6. \A i \in 1..n : f[i] = f[i - 1] \o q[i]
  <2>1. SUFFICES ASSUME NEW i \in 1..n PROVE f[i] = f[i - 1] \o q[i]
    OBVIOUS
  <2>2. i - 1 \in 0..n
    BY <1>1
  <2>3. f[i - 1] \in V /\ f[i] = g[<<f[i - 1], i>>]
    <3> HIDE DEF g, n, V
    <3>1. 0 + 1 = 1
      OBVIOUS
    <3>2. QED
      BY <1>4, <1>5, <2>2, <3>1 DEF Recursive
  <2>4. QED
    BY <2>3
<1>7. QED
  BY <1>5, <1>6 DEF Joins

LEMMA FlattenRight ==
  ASSUME NEW q \in Seq(Texts), NEW F, Joins(F, q)
  PROVE  FlattenSeq(q) = F[Len(q)]
<1> DEFINE n == Len(q)
           Body(f) == [i \in 1..n |-> IF i = 1 THEN q[i] ELSE f[i - 1] \o q[i]]
           f0 == [i \in 1..n |-> F[i]]
           G == CHOOSE f : f = Body(f)
<1>1. n \in Nat /\ \A i \in 1..n : q[i] \in Texts
  OBVIOUS
<1>2. CASE n = 0
  <2>1. q = <<>> /\ F[n] = <<>>
    BY <1>2 DEF Joins
  <2>2. QED
    BY <1>2, <2>1 DEF FlattenSeq
<1>3. CASE n # 0
  <2>1. \A i \in 2..n : i \in 1..n /\ i - 1 \in 1..n /\ i # 1
    BY <1>1
  <2>2. 1 \in 1..n /\ n \in 1..n /\ 1 - 1 = 0
    BY <1>1, <1>3
  <2>3. F[1] = q[1]
    <3>1. F[1] = <<>> \o q[1]
      BY <2>2 DEF Joins
    <3>2. q[1] \in Texts
      BY <1>1, <2>2
    <3>3. <<>> \o q[1] = q[1]
      BY <3>2 DEF Texts
    <3>4. QED
      BY <3>1, <3>3
  <2>4. \A i \in 2..n : F[i] = F[i - 1] \o q[i]
    BY <2>1 DEF Joins
  <2>5. f0 = Body(f0)
    <3>1. \A i \in 1..n : i # 1 => i \in 2..n
      BY <1>1
    <3>2. QED
      BY <2>1, <2>3, <2>4, <3>1
  <2>6. FlattenSeq(q) = G[n]
    BY <1>1, <1>3 DEF FlattenSeq
  <2>7. G = Body(G)
    <3> HIDE DEF Body, f0
    <3>1. QED
      BY <2>5
  <2>8. G[1] = q[1] /\ \A i \in 2..n : G[i] = G[i - 1] \o q[i]
    <3> HIDE DEF G
    <3>1. QED
      BY <2>1, <2>2, <2>7
  <2> DEFINE S == {i \in Nat : G[i] = F[i]}
  <2> HIDE DEF G, n
  <2>9. 1 \in S
    BY <2>3, <2>8
  <2>10. ASSUME NEW i \in 1..(n - 1), i \in S PROVE i + 1 \in S
    <3>1. i + 1 \in 2..n /\ (i + 1) - 1 = i /\ i + 1 \in Nat
      BY <1>1
    <3>2. G[i + 1] = G[i] \o q[i + 1] /\ F[i + 1] = F[i] \o q[i + 1]
      BY <2>4, <2>8, <3>1
    <3>3. G[i + 1] = F[i + 1]
      BY <2>10, <3>2, Zenon
    <3>4. QED
      BY <3>1, <3>3
  <2>11. n \in S
    <3> HIDE DEF S
    <3>1. 1 \in Nat /\ \A i \in 1..n : i \in S
      BY <1>1, <2>9, <2>10, Induction
    <3>2. QED
      BY <2>2, <3>1
  <2>12. QED
    BY <2>6, <2>11 DEF n
<1>4. QED
  BY <1>2, <1>3

LEMMA FlattenType ==
  ASSUME NEW q \in Seq(Texts)
  PROVE  FlattenSeq(q) \in Texts
<1>1. PICK F : Joins(F, q)
  BY JoinsExists
<1>2. Len(q) \in 0..Len(q)
  OBVIOUS
<1>3. QED
  BY <1>1, <1>2, FlattenRight DEF Joins

LEMMA FlattenAppend ==
  ASSUME NEW q \in Seq(Texts), NEW x \in Texts
  PROVE  FlattenSeq(Append(q, x)) = FlattenSeq(q) \o x
<1> DEFINE r == Append(q, x)
           n == Len(q)
<1>1. r \in Seq(Texts) /\ n \in Nat /\ Len(r) = n + 1 /\ r[n + 1] = x
      /\ \A i \in 1..n : r[i] = q[i]
  OBVIOUS
<1> HIDE DEF r
<1>2. PICK F : Joins(F, r)
  BY <1>1, JoinsExists
<1> DEFINE E == [i \in 0..n |-> F[i]]
<1>3. Joins(E, q)
  <2>1. \A i \in 0..n : i \in 0..(n + 1)
    BY <1>1
  <2>2. \A i \in 1..n : i \in 1..(n + 1) /\ i \in 0..n /\ i - 1 \in 0..n
    BY <1>1
  <2>3. 0 \in 0..n
    BY <1>1
  <2>4. F \in [0..(n + 1) -> Texts] /\ F[0] = <<>>
        /\ \A i \in 1..(n + 1) : F[i] = F[i - 1] \o r[i]
    BY <1>1, <1>2 DEF Joins
  <2>5. E \in [0..n -> Texts] /\ E[0] = <<>> /\ \A i \in 1..n : E[i] = E[i - 1] \o q[i]
    BY <1>1, <2>1, <2>2, <2>3, <2>4
  <2>6. QED
    BY <2>5 DEF Joins
<1>4. FlattenSeq(q) = E[n]
  BY <1>3, FlattenRight
<1>5. FlattenSeq(r) = F[n + 1]
  BY <1>1, <1>2, FlattenRight
<1>6. F[n + 1] = F[n] \o x /\ E[n] = F[n]
  <2>1. n + 1 \in 1..(n + 1) /\ (n + 1) - 1 = n /\ n \in 0..n
    BY <1>1
  <2>2. QED
    BY <1>1, <1>2, <2>1 DEF Joins
<1>7. QED
  BY <1>4, <1>5, <1>6 DEF r

-----------------------------------------------------------------------------
(* Expansion of a text.                                                    *)

ValuesOk(v) == \A c \in DOMAIN v : v[c] \in Texts

(* What is true of the empty text and of a text with one more letter.      *)
LEMMA TextInduction ==
  ASSUME NEW S, <<>> \in S,
         \A t \in Texts : \A c \in Int : t \in S => Append(t, c) \in S
  PROVE  \A t \in Texts : t \in S
<1> SUFFICES ASSUME NEW u \in Texts PROVE u \in S
  OBVIOUS
<1> DEFINE n == Len(u)
           K == {k \in Nat : \A t \in Texts : Len(t) = k => t \in S}
<1>1. n \in Nat
  BY DEF Texts
<1>2. 0 \in K
  <2>1. \A t \in Texts : Len(t) = 0 => t = <<>>
    BY DEF Texts
  <2>2. QED
    BY <2>1
<1>3. ASSUME NEW k \in 0..(n - 1), k \in K PROVE k + 1 \in K
  <2>1. SUFFICES ASSUME NEW t \in Texts, Len(t) = k + 1 PROVE t \in S
    OBVIOUS
  <2> DEFINE f == SubSeq(t, 1, Len(t) - 1)
             c == t[Len(t)]
  <2>2. f \in Texts /\ c \in Int /\ Len(f) = k /\ t = Append(f, c)
    <3>1. t \in Seq(Int) /\ Len(t) \in 1..Len(t)
      BY <1>1, <2>1 DEF Texts
    <3>2. c \in Int
      BY <3>1, ElementOfSeq
    <3>3. f \in Seq(Int) /\ Len(f) = k
      BY <1>1, <2>1, <3>1
    <3>4. t = Append(f, c)
      BY <3>1, <3>2, <3>3
    <3>5. QED
      BY <3>2, <3>3, <3>4 DEF Texts
  <2> HIDE DEF f, c
  <2>3. f \in S
    BY <1>3, <2>2
  <2>4. QED
    BY <2>2, <2>3
<1>4. n \in K
  <2> HIDE DEF K, n
  <2>1. 0 \in Nat /\ n \in 0..n
    BY <1>1
  <2>2. \A k \in 0..n : k \in K
    BY <1>1, <1>2, <1>3, <2>1, Induction
  <2>3. QED
    BY <2>1, <2>2
<1>5. QED
  BY <1>4

LEMMA PutType ==
  ASSUME NEW v, ValuesOk(v), NEW c \in Int
  PROVE  Put(v, c) \in Texts
<1>1. <<c>> \in Texts
  BY DEF Texts
<1>2. QED
  BY <1>1 DEF Put, ValuesOk

LEMMA PartsType ==
  ASSUME NEW v, ValuesOk(v), NEW t \in Texts
  PROVE  [i \in 1..Len(t) |-> Put(v, t[i])] \in Seq(Texts)
<1>1. Len(t) \in Nat /\ \A i \in 1..Len(t) : t[i] \in Int
  BY ElementOfSeq DEF Texts
<1>2. \A i \in 1..Len(t) : Put(v, t[i]) \in Texts
  BY <1>1, PutType
<1>3. QED
  BY <1>1, <1>2

LEMMA ExpandType ==
  ASSUME NEW v, ValuesOk(v), NEW t \in Texts
  PROVE  Expand(t, v) \in Texts
BY PartsType, FlattenType DEF Expand

LEMMA ExpandEmpty ==
  ASSUME NEW v
  PROVE  Expand(<<>>, v) = <<>>
<1>1. [i \in 1..0 |-> Put(v, <<>>[i])] = <<>>
  OBVIOUS
<1>2. Len(<<>>) = 0
  OBVIOUS
<1>3. Expand(<<>>, v) = FlattenSeq(<<>>)
  BY <1>1, <1>2 DEF Expand
<1>4. FlattenSeq(<<>>) = <<>>
  BY <1>2 DEF FlattenSeq
<1>5. QED
  BY <1>3, <1>4

LEMMA AsFunction ==
  ASSUME NEW T, NEW s \in Seq(T), NEW n, Len(s) = n
  PROVE  s = [i \in 1..n |-> s[i]]
OBVIOUS

LEMMA ExpandAppend ==
  ASSUME NEW v, ValuesOk(v), NEW t \in Texts, NEW c \in Int
  PROVE  Expand(Append(t, c), v) = Expand(t, v) \o Put(v, c)
<1> DEFINE u == Append(t, c)
           n == Len(t)
           q == [i \in 1..n |-> Put(v, t[i])]
           r == [i \in 1..Len(u) |-> Put(v, u[i])]
<1>1. n \in Nat /\ Len(u) = n + 1 /\ u[n + 1] = c /\ \A i \in 1..n : u[i] = t[i]
  BY DEF Texts
<1>2. q \in Seq(Texts) /\ Put(v, c) \in Texts /\ Len(q) = n
  <2>1. q \in Seq(Texts) /\ Put(v, c) \in Texts
    BY PartsType, PutType
  <2>2. Len(q) = n
    BY <1>1
  <2>3. QED
    BY <2>1, <2>2
<1>3. r = Append(q, Put(v, c))
  <2> DEFINE a == Append(q, Put(v, c))
  <2>1. \A i \in 1..n : i \in 1..(n + 1) /\ i # n + 1
    BY <1>1
  <2>2. \A i \in 1..(n + 1) : i \in 1..n \/ i = n + 1
    BY <1>1
  <2>3. n + 1 \in 1..(n + 1)
    BY <1>1
  <2>4. r = [i \in 1..(n + 1) |-> Put(v, u[i])]
    BY <1>1
  <2>5. \A i \in 1..n : a[i] = Put(v, t[i])
    <3>1. \A i \in 1..n : q[i] = Put(v, t[i])
      OBVIOUS
    <3> HIDE DEF q, n
    <3>2. QED
      BY <1>2, <3>1, AppendProperties
  <2>6. a[n + 1] = Put(v, c) /\ a = [i \in 1..(n + 1) |-> a[i]]
    <3> HIDE DEF q, n
    <3> DEFINE x == Put(v, c)
    <3> HIDE DEF x
    <3>1. Append(q, x) \in Seq(Texts) /\ Len(Append(q, x)) = n + 1 /\ Append(q, x)[n + 1] = x
      BY <1>2, AppendProperties DEF x
    <3>2. Append(q, x) = [i \in 1..(n + 1) |-> Append(q, x)[i]]
      BY <3>1, AsFunction
    <3>3. QED
      BY <3>1, <3>2 DEF x
  <2>7. \A i \in 1..(n + 1) : Put(v, u[i]) = a[i]
    <3>1. SUFFICES ASSUME NEW i \in 1..(n + 1) PROVE Put(v, u[i]) = a[i]
      OBVIOUS
    <3>2. CASE i \in 1..n
      BY <1>1, <2>5, <3>2
    <3>3. CASE i = n + 1
      BY <1>1, <2>6, <3>3
    <3>4. QED
      BY <2>2, <3>2, <3>3
  <2> HIDE DEF a, u, r
  <2>8. QED
    BY <2>4, <2>6, <2>7 DEF a
<1>4. FlattenSeq(Append(q, Put(v, c))) = FlattenSeq(q) \o Put(v, c)
  <2> HIDE DEF q
  <2>1. QED
    BY <1>2, FlattenAppend
<1>5. Expand(u, v) = FlattenSeq(r) /\ Expand(t, v) = FlattenSeq(q)
  BY DEF Expand
<1> HIDE DEF u, r, q
<1>6. QED
  BY <1>3, <1>4, <1>5 DEF u

LEMMA ExpandLetter ==
  ASSUME NEW v, ValuesOk(v), NEW c \in Int
  PROVE  Expand(<<c>>, v) = Put(v, c)
<1>1. <<>> \in Texts /\ <<c>> = Append(<<>>, c)
  BY DEF Texts
<1>2. Expand(<<c>>, v) = <<>> \o Put(v, c)
  BY <1>1, ExpandAppend, ExpandEmpty
<1>3. \A a \in Texts : <<>> \o a = a
  BY DEF Texts
<1>4. QED
  BY <1>2, <1>3, PutType

LEMMA AppendLetter ==
  ASSUME NEW t \in Texts, NEW c \in Int
  PROVE  Append(t, c) = t \o <<c>> /\ Append(t, c) \in Texts /\ <<c>> \in Texts
BY DEF Texts

LEMMA Associative ==
  ASSUME NEW a \in Texts, NEW b \in Texts, NEW c \in Texts
  PROVE  (a \o b) \o c = a \o (b \o c)
BY ConcatAssociative, SMTT(20) DEF Texts

(* Expansion goes through a text from left to right.                       *)
LEMMA ExpandConcat ==
  ASSUME NEW v, ValuesOk(v), NEW a \in Texts, NEW b \in Texts
  PROVE  Expand(a \o b, v) = Expand(a, v) \o Expand(b, v)
<1> DEFINE S == {t \in Texts : Expand(a \o t, v) = Expand(a, v) \o Expand(t, v)}
<1>1. <<>> \in S
  <2>1. <<>> \in Texts /\ \A t \in Texts : t \o <<>> = t
    BY DEF Texts
  <2>2. Expand(a, v) \in Texts
    BY ExpandType
  <2>3. QED
    BY <2>1, <2>2, ExpandEmpty
<1>2. ASSUME NEW t \in Texts, NEW c \in Int, t \in S PROVE Append(t, c) \in S
  <2> DEFINE x == Expand(a, v)
             y == Expand(t, v)
             z == Put(v, c)
             at1 == a \o t
  <2>1. x \in Texts /\ y \in Texts /\ z \in Texts /\ at1 \in Texts /\ Append(t, c) \in Texts
    BY ExpandType, PutType, Concat, AppendLetter
  <2>2. a \o Append(t, c) = Append(at1, c)
    <3> DEFINE one == <<c>>
    <3>1. one \in Texts /\ Append(t, c) = t \o one /\ Append(at1, c) = at1 \o one
      BY <2>1, AppendLetter
    <3> HIDE DEF one
    <3>2. (a \o t) \o one = a \o (t \o one)
      BY <3>1, Associative
    <3>3. QED
      BY <3>1, <3>2, Zenon
  <2>3. Expand(Append(at1, c), v) = Expand(at1, v) \o z
    BY <2>1, ExpandAppend
  <2>4. Expand(at1, v) = x \o y
    BY <1>2
  <2>5. Expand(Append(t, c), v) = y \o z
    BY ExpandAppend
  <2> HIDE DEF x, y, z, at1
  <2>6. (x \o y) \o z = x \o (y \o z)
    <3>1. x \in Texts /\ y \in Texts /\ z \in Texts
      BY <2>1
    <3>2. QED
      BY <3>1, Associative, SMTT(30)
  <2>7. QED
    BY <2>1, <2>2, <2>3, <2>4, <2>5, <2>6 DEF x
<1>3. b \in S
  <2> HIDE DEF S
  <2>1. QED
    BY <1>1, <1>2, TextInduction
<1>4. QED
  BY <1>3

(* A text without placeholders is its own expansion.                       *)
Terminal(t, v) == \A i \in 1..Len(t) : t[i] \notin DOMAIN v

LEMMA TerminalParts ==
  ASSUME NEW v, NEW a \in Texts, NEW b \in Texts, Terminal(a \o b, v)
  PROVE  Terminal(a, v) /\ Terminal(b, v)
<1>1. /\ Len(a) \in Nat /\ Len(b) \in Nat /\ Len(a \o b) = Len(a) + Len(b)
      /\ \A k \in 1..(Len(a) + Len(b)) :
            (a \o b)[k] = IF k <= Len(a) THEN a[k] ELSE b[k - Len(a)]
  BY Concat DEF Texts
<1>2. \A k \in 1..(Len(a) + Len(b)) : (a \o b)[k] \notin DOMAIN v
  BY <1>1 DEF Terminal
<1>3. ASSUME NEW i \in 1..Len(a) PROVE a[i] \notin DOMAIN v
  <2>1. i \in 1..(Len(a) + Len(b)) /\ i <= Len(a)
    BY <1>1
  <2>2. QED
    BY <1>1, <1>2, <2>1
<1>4. ASSUME NEW i \in 1..Len(b) PROVE b[i] \notin DOMAIN v
  <2>1. i + Len(a) \in 1..(Len(a) + Len(b)) /\ ~(i + Len(a) <= Len(a)) /\ (i + Len(a)) - Len(a) = i
    BY <1>1
  <2>2. QED
    BY <1>1, <1>2, <2>1
<1>5. QED
  BY <1>3, <1>4 DEF Terminal

LEMMA ExpandTerminal ==
  ASSUME NEW v, ValuesOk(v), NEW u \in Texts, Terminal(u, v)
  PROVE  Expand(u, v) = u
<1> DEFINE S == {t \in Texts : Terminal(t, v) => Expand(t, v) = t}
<1>1. <<>> \in S
  <2>1. <<>> \in Texts
    BY DEF Texts
  <2>2. QED
    BY <2>1, ExpandEmpty
<1>2. ASSUME NEW t \in Texts, NEW c \in Int, t \in S PROVE Append(t, c) \in S
  <2>1. Append(t, c) \in Texts /\ <<c>> \in Texts /\ Append(t, c) = t \o <<c>>
    BY AppendLetter
  <2>2. ASSUME Terminal(Append(t, c), v) PROVE Expand(Append(t, c), v) = Append(t, c)
    <3>1. Terminal(t, v) /\ Terminal(<<c>>, v)
      BY <2>1, <2>2, TerminalParts
    <3>2. Put(v, c) = <<c>>
      <4>1. 1 \in 1..Len(<<c>>) /\ <<c>>[1] = c
        OBVIOUS
      <4>2. c \notin DOMAIN v
        BY <3>1, <4>1 DEF Terminal
      <4>3. QED
        BY <4>2 DEF Put
    <3>3. Expand(t, v) = t
      BY <1>2, <3>1
    <3>4. QED
      BY <2>1, <3>2, <3>3, ExpandAppend
  <2>3. QED
    BY <2>1, <2>2
<1>3. u \in S
  <2> HIDE DEF S
  <2>1. QED
    BY <1>1, <1>2, TextInduction
<1>4. QED
  BY <1>3

-----------------------------------------------------------------------------
(* Rounds of expansion.                                                    *)

Rounds(t, v, n) ==
  LET round[k \in 0..n] == IF k = 0 THEN t ELSE Expand(round[k - 1], v)
  IN round
Round(t, v, n) == Rounds(t, v, n)[n]

LEMMA RoundsRight ==
  ASSUME NEW v, ValuesOk(v), NEW t \in Texts, NEW n \in Nat
  PROVE  /\ Rounds(t, v, n) \in [0..n -> Texts] /\ Rounds(t, v, n)[0] = t
         /\ \A k \in 1..n : Rounds(t, v, n)[k] = Expand(Rounds(t, v, n)[k - 1], v)
<1> DEFINE V == Texts
           g == [x \in V \X (1..n) |-> Expand(x[1], v)]
           Body(f) == [k \in 0..n |-> IF k = 0 THEN t ELSE Expand(f[k - 1], v)]
<1>1. \A u \in V : \A i \in 1..n : g[<<u, i>>] \in V
  BY ExpandType
<1>2. PICK f : Recursive(f, 0, n, V, t, g)
  <2> HIDE DEF g, V
  <2>1. 0 \in Nat /\ 0 <= n /\ 0 + 1 = 1
    OBVIOUS
  <2>2. Stays(g, 0, n, V)
    BY <1>1, <2>1 DEF Stays
  <2>3. t \in V
    BY DEF V
  <2>4. QED
    BY <2>1, <2>2, <2>3, Recursion, Zenon
<1>3. f \in [0..n -> V] /\ f[0] = t
  BY <1>2 DEF Recursive
<1>4. \A i \in 1..n : f[i] = Expand(f[i - 1], v)
  <2>1. SUFFICES ASSUME NEW i \in 1..n PROVE f[i] = Expand(f[i - 1], v)
    OBVIOUS
  <2>2. i - 1 \in 0..n
    OBVIOUS
  <2>3. f[i - 1] \in V /\ f[i] = g[<<f[i - 1], i>>]
    <3> HIDE DEF g, V
    <3>1. 0 + 1 = 1
      OBVIOUS
    <3>2. QED
      BY <1>2, <1>3, <2>2, <3>1 DEF Recursive
  <2>4. QED
    BY <2>3
<1>5. f = Body(f)
  <2> HIDE DEF g, V
  <2>1. \A k \in 0..n : k # 0 => k \in 1..n
    OBVIOUS
  <2>2. QED
    BY <1>3, <1>4, <2>1
<1> DEFINE F == CHOOSE f1 : f1 = Body(f1)
<1>6. Rounds(t, v, n) = F
  BY DEF Rounds
<1>7. F = Body(F)
  <2> HIDE DEF Body
  <2>1. QED
    BY <1>5
<1>8. F[0] = t /\ \A i \in 1..n : F[i] = Expand(F[i - 1], v)
  <2> HIDE DEF F
  <2>1. 0 \in 0..n /\ \A i \in 1..n : i \in 0..n /\ i # 0
    OBVIOUS
  <2>2. QED
    BY <1>7, <2>1
<1> DEFINE S == {i \in Nat : F[i] \in Texts}
<1>9. \A i \in 0..n : i \in S
  <2> HIDE DEF F
  <2>1. 0 \in S
    BY <1>8
  <2>2. ASSUME NEW i \in 0..(n - 1), i \in S PROVE i + 1 \in S
    <3>1. i + 1 \in 1..n /\ (i + 1) - 1 = i /\ i + 1 \in Nat
      OBVIOUS
    <3>2. QED
      BY <1>8, <2>2, <3>1, ExpandType
  <2> HIDE DEF S
  <2>3. QED
    BY <2>1, <2>2, Induction
<1>10. F \in [0..n -> Texts]
  <2> HIDE DEF Body
  <2>1. \A i \in 0..n : F[i] \in Texts
    <3> HIDE DEF F
    <3>1. QED
      BY <1>9
  <2>2. F = [k \in 0..n |-> IF k = 0 THEN t ELSE Expand(F[k - 1], v)]
    BY <1>7 DEF Body
  <2> HIDE DEF F
  <2>3. QED
    BY <2>1, <2>2
<1>11. QED
  BY <1>6, <1>8, <1>10

LEMMA RoundType ==
  ASSUME NEW v, ValuesOk(v), NEW t \in Texts, NEW n \in Nat
  PROVE  Round(t, v, n) \in Texts
<1>1. n \in 0..n
  OBVIOUS
<1>2. QED
  BY <1>1, RoundsRight DEF Round

LEMMA RoundZero ==
  ASSUME NEW v, ValuesOk(v), NEW t \in Texts
  PROVE  Round(t, v, 0) = t
BY RoundsRight DEF Round

(* One round more is one expansion more.                                   *)
LEMMA RoundNext ==
  ASSUME NEW v, ValuesOk(v), NEW t \in Texts, NEW n \in Nat
  PROVE  Round(t, v, n + 1) = Expand(Round(t, v, n), v)
<1> DEFINE F == Rounds(t, v, n + 1)
           G == Rounds(t, v, n)
           S == {k \in Nat : F[k] = G[k]}
<1>1. n + 1 \in Nat /\ n + 1 \in 1..(n + 1) /\ (n + 1) - 1 = n /\ n \in 0..n
      /\ \A k \in 0..(n - 1) : k + 1 \in 1..n /\ k + 1 \in 1..(n + 1) /\ (k + 1) - 1 = k
                               /\ k + 1 \in Nat
  OBVIOUS
<1>2. /\ F[0] = t /\ \A k \in 1..(n + 1) : F[k] = Expand(F[k - 1], v)
      /\ G[0] = t /\ \A k \in 1..n : G[k] = Expand(G[k - 1], v)
  BY <1>1, RoundsRight
<1> HIDE DEF F, G
<1>3. 0 \in S
  BY <1>2
<1>4. ASSUME NEW k \in 0..(n - 1), k \in S PROVE k + 1 \in S
  BY <1>1, <1>2, <1>4
<1>5. \A k \in 0..n : k \in S
  <2> HIDE DEF S
  <2>1. QED
    BY <1>3, <1>4, Induction
<1>6. F[n] = G[n]
  BY <1>1, <1>5
<1>7. F[n + 1] = Expand(F[n], v)
  BY <1>1, <1>2
<1>8. QED
  BY <1>6, <1>7 DEF Round, F, G

LEMMA RoundFirst ==
  ASSUME NEW v, ValuesOk(v), NEW t \in Texts, NEW n \in Nat
  PROVE  Round(Expand(t, v), v, n) = Round(t, v, n + 1)
<1> DEFINE u == Expand(t, v)
           S == {k \in Nat : Round(u, v, k) = Round(t, v, k + 1)}
<1>1. u \in Texts
  BY ExpandType
<1>2. 0 \in S
  <2>1. Round(t, v, 0 + 1) = Expand(Round(t, v, 0), v) /\ Round(t, v, 0) = t /\ 0 + 1 = 1
    BY RoundZero, RoundNext
  <2>2. Round(u, v, 0) = u
    BY <1>1, RoundZero
  <2>3. QED
    BY <2>1, <2>2
<1>3. ASSUME NEW k \in 0..(n - 1), k \in S PROVE k + 1 \in S
  <2>1. k \in Nat /\ k + 1 \in Nat
    OBVIOUS
  <2>2. /\ Round(u, v, k + 1) = Expand(Round(u, v, k), v)
        /\ Round(t, v, (k + 1) + 1) = Expand(Round(t, v, k + 1), v)
    <3> HIDE DEF u
    <3>1. QED
      BY <1>1, <2>1, RoundNext
  <2> HIDE DEF u
  <2>3. QED
    BY <1>3, <2>1, <2>2
<1>4. \A k \in 0..n : k \in S
  <2> HIDE DEF S
  <2>1. QED
    BY <1>2, <1>3, Induction
<1>5. n \in S
  BY <1>4
<1>6. QED
  BY <1>5

LEMMA RoundConcat ==
  ASSUME NEW v, ValuesOk(v), NEW a \in Texts, NEW b \in Texts, NEW n \in Nat
  PROVE  Round(a \o b, v, n) = Round(a, v, n) \o Round(b, v, n)
<1> DEFINE c == a \o b
           S == {k \in Nat : Round(c, v, k) = Round(a, v, k) \o Round(b, v, k)}
<1>1. c \in Texts
  BY Concat
<1> HIDE DEF c
<1>2. 0 \in S
  <2>1. Round(c, v, 0) = a \o b
    BY <1>1, RoundZero DEF c
  <2>2. QED
    BY <2>1, RoundZero
<1>3. ASSUME NEW k \in 0..(n - 1), k \in S PROVE k + 1 \in S
  <2>1. k \in Nat /\ k + 1 \in Nat
    OBVIOUS
  <2>2. /\ Round(c, v, k + 1) = Expand(Round(c, v, k), v)
        /\ Round(a, v, k + 1) = Expand(Round(a, v, k), v)
        /\ Round(b, v, k + 1) = Expand(Round(b, v, k), v)
    BY <1>1, <2>1, RoundNext
  <2>3. Round(a, v, k) \in Texts /\ Round(b, v, k) \in Texts
    BY <2>1, RoundType
  <2>4. Expand(Round(a, v, k) \o Round(b, v, k), v)
          = Expand(Round(a, v, k), v) \o Expand(Round(b, v, k), v)
    BY <2>3, ExpandConcat
  <2>5. Round(c, v, k) = Round(a, v, k) \o Round(b, v, k)
    BY <1>3
  <2>6. QED
    BY <2>1, <2>2, <2>4, <2>5
<1>4. \A k \in 0..n : k \in S
  <2> HIDE DEF S
  <2>1. QED
    BY <1>2, <1>3, Induction
<1>5. n \in S
  BY <1>4
<1>6. QED
  BY <1>5 DEF c

LEMMA RoundEmpty ==
  ASSUME NEW v, ValuesOk(v), NEW n \in Nat
  PROVE  Round(<<>>, v, n) = <<>>
<1> DEFINE S == {k \in Nat : Round(<<>>, v, k) = <<>>}
<1>1. <<>> \in Texts
  BY DEF Texts
<1>2. 0 \in S
  BY <1>1, RoundZero
<1>3. ASSUME NEW k \in 0..(n - 1), k \in S PROVE k + 1 \in S
  <2>1. k \in Nat /\ k + 1 \in Nat
    OBVIOUS
  <2>2. Round(<<>>, v, k + 1) = Expand(Round(<<>>, v, k), v)
    BY <1>1, <2>1, RoundNext
  <2>3. QED
    BY <1>3, <2>1, <2>2, ExpandEmpty
<1>4. \A k \in 0..n : k \in S
  <2> HIDE DEF S
  <2>1. QED
    BY <1>2, <1>3, Induction
<1>5. n \in 0..n
  OBVIOUS
<1>6. QED
  BY <1>4, <1>5

(* Replacing one parameter is overtaken by a round that replaces all: if   *)
(* nothing is left after some rounds, the text before the replacement has  *)
(* the same outcome one round later.                                       *)
LEMMA ReplaceRight ==
  ASSUME NEW v, ValuesOk(v), NEW p \in DOMAIN v, NEW n \in Nat, NEW u \in Texts,
         Terminal(Round(Replace(u, p, v[p]), v, n), v)
  PROVE  Round(u, v, n + 1) = Round(Replace(u, p, v[p]), v, n)
<1> DEFINE w == [q \in {p} |-> v[p]]
           End(t) == Round(Expand(t, w), v, n)
           S == {t \in Texts : Terminal(End(t), v) => Round(t, v, n + 1) = End(t)}
<1>1. ValuesOk(w)
  BY DEF ValuesOk
<1>2. \A t : Replace(t, p, v[p]) = Expand(t, w)
  BY DEF Replace
<1> HIDE DEF w
<1>3. \A t \in Texts : Expand(t, w) \in Texts /\ End(t) \in Texts
  BY <1>1, ExpandType, RoundType
<1>4. <<>> \in S
  <2>1. <<>> \in Texts /\ n + 1 \in Nat
    BY DEF Texts
  <2>2. End(<<>>) = <<>> /\ Round(<<>>, v, n + 1) = <<>>
    BY <2>1, ExpandEmpty, RoundEmpty
  <2>3. QED
    BY <2>1, <2>2
<1>5. ASSUME NEW t \in Texts, NEW c \in Int, t \in S PROVE Append(t, c) \in S
  <2> DEFINE one == <<c>>
             z == Put(w, c)
             e == Round(z, v, n)
  <2>1. one \in Texts /\ Append(t, c) = t \o one /\ Append(t, c) \in Texts /\ n + 1 \in Nat
    BY AppendLetter
  <2>2. z \in Texts /\ e \in Texts
    <3>1. z \in Texts
      BY <1>1, PutType
    <3> HIDE DEF z
    <3>2. QED
      BY <3>1, RoundType
  <2>3. SUFFICES ASSUME Terminal(End(Append(t, c)), v)
                 PROVE  Round(Append(t, c), v, n + 1) = End(Append(t, c))
    BY <2>1
  <2>4. Expand(Append(t, c), w) = Expand(t, w) \o z
    BY <1>1, ExpandAppend
  <2>5. End(Append(t, c)) = End(t) \o e
    <3> DEFINE a == Expand(t, w)
    <3>1. a \in Texts /\ End(t) = Round(a, v, n) /\ End(Append(t, c)) = Round(a \o z, v, n)
      BY <1>3, <2>4
    <3>2. \A x, y \in Texts : Round(x \o y, v, n) = Round(x, v, n) \o Round(y, v, n)
      BY RoundConcat
    <3> HIDE DEF End, a, z
    <3>3. Round(a \o z, v, n) = Round(a, v, n) \o e
      BY <2>2, <3>1, <3>2, Zenon
    <3>4. QED
      BY <3>1, <3>3
  <2>6. Terminal(End(t), v) /\ Terminal(e, v)
    <3> HIDE DEF End, e
    <3>1. QED
      BY <1>3, <2>2, <2>3, <2>5, TerminalParts
  <2>7. Round(t, v, n + 1) = End(t)
    BY <1>5, <2>6
  <2>8. Round(one, v, n + 1) = e
    <3>1. CASE c = p
      <4>1. z = v[p]
        <5>1. w[p] = v[p] /\ p \in DOMAIN w
          BY DEF w
        <5>2. QED
          BY <3>1, <5>1 DEF Put
      <4>2. Expand(one, v) = v[p]
        <5>1. Expand(one, v) = Put(v, c)
          BY ExpandLetter
        <5>2. QED
          BY <3>1, <5>1 DEF Put
      <4>3. Round(Expand(one, v), v, n) = Round(one, v, n + 1)
        BY <2>1, RoundFirst
      <4>4. QED
        BY <4>1, <4>2, <4>3
    <3>2. CASE c # p
      <4>1. z = one
        BY <3>2 DEF Put, w
      <4>2. Expand(e, v) = e
        BY <2>2, <2>6, ExpandTerminal
      <4>3. Round(one, v, n + 1) = Expand(Round(one, v, n), v)
        BY <2>1, RoundNext
      <4>4. QED
        BY <4>1, <4>2, <4>3
    <3>3. QED
      BY <3>1, <3>2
  <2>9. Round(t \o one, v, n + 1) = Round(t, v, n + 1) \o Round(one, v, n + 1)
    <3> DEFINE m == n + 1
    <3>1. m \in Nat
      OBVIOUS
    <3> HIDE DEF one, End, m
    <3>2. ASSUME NEW x \in Texts, NEW y \in Texts
          PROVE  Round(x \o y, v, m) = Round(x, v, m) \o Round(y, v, m)
      BY <3>1, RoundConcat, SMTT(20)
    <3>3. QED
      BY <2>1, <3>2, Zenon DEF m
  <2> HIDE DEF End, e, one
  <2>10. QED
    BY <2>1, <2>5, <2>7, <2>8, <2>9
<1>6. u \in S
  <2> HIDE DEF S
  <2>1. QED
    BY <1>4, <1>5, TextInduction
<1>7. QED
  BY <1>2, <1>6

-----------------------------------------------------------------------------
(* The order of the plan.                                                  *)

Probes == [plan_order : Nat, name : Nat, at : Nat, text : Texts]

LEMMA BeforeOrders ==
  ASSUME NEW a \in Probes, NEW b \in Probes
  PROVE  /\ ~Before(a, a) /\ ~(Before(a, b) /\ Before(b, a))
         /\ \A c \in Probes : /\ Before(a, b) /\ Before(b, c) => Before(a, c)
                              /\ ~Before(a, b) /\ ~Before(b, c) => ~Before(a, c)
BY DEF Before, Probes

LEMMA AfterBefore ==
  ASSUME NEW a \in Probes, NEW b \in Probes, NEW c \in Probes
  PROVE  /\ Before(a, b) /\ ~Before(c, b) => Before(a, c)
         /\ ~Before(b, a) /\ Before(b, c) => Before(a, c)
BY DEF Before, Probes

(* Where the sort puts i before j: by plan_order and name, then as read.   *)
Precedes(plan, i, j) ==
  \/ Before(plan[i], plan[j])
  \/ i <= j /\ ~Before(plan[j], plan[i])

LEMMA PrecedesOrders ==
  ASSUME NEW plan \in Seq(Probes), NEW i \in 1..Len(plan), NEW j \in 1..Len(plan)
  PROVE  /\ Precedes(plan, i, i)
         /\ Precedes(plan, i, j) \/ Precedes(plan, j, i)
         /\ Precedes(plan, i, j) /\ Precedes(plan, j, i) => i = j
         /\ \A k \in 1..Len(plan) :
              Precedes(plan, i, j) /\ Precedes(plan, j, k) => Precedes(plan, i, k)
<1>1. \A k \in 1..Len(plan) : plan[k] \in Probes /\ k \in Nat
  OBVIOUS
<1>2. Precedes(plan, i, i)
  BY <1>1, BeforeOrders DEF Precedes
<1>3. Precedes(plan, i, j) \/ Precedes(plan, j, i)
  BY <1>1 DEF Precedes
<1>4. Precedes(plan, i, j) /\ Precedes(plan, j, i) => i = j
  BY <1>1, BeforeOrders DEF Precedes
<1>5. ASSUME NEW k \in 1..Len(plan), Precedes(plan, i, j), Precedes(plan, j, k)
      PROVE  Precedes(plan, i, k)
  <2> DEFINE a == plan[i]
             b == plan[j]
             c == plan[k]
  <2>1. a \in Probes /\ b \in Probes /\ c \in Probes /\ i \in Nat /\ j \in Nat /\ k \in Nat
    BY <1>1
  <2>2. /\ Before(a, b) \/ (i <= j /\ ~Before(b, a))
        /\ Before(b, c) \/ (j <= k /\ ~Before(c, b))
    BY <1>5 DEF Precedes
  <2> HIDE DEF a, b, c
  <2>3. Before(a, c) \/ (i <= k /\ ~Before(c, a))
    <3>1. CASE Before(a, b) /\ Before(b, c)
      BY <2>1, <3>1, BeforeOrders
    <3>2. CASE Before(a, b) /\ ~Before(c, b)
      BY <2>1, <3>2, AfterBefore
    <3>3. CASE ~Before(b, a) /\ Before(b, c)
      BY <2>1, <3>3, AfterBefore
    <3>4. CASE i <= j /\ j <= k /\ ~Before(b, a) /\ ~Before(c, b)
      <4>1. ~Before(c, a)
        BY <2>1, <3>4, BeforeOrders
      <4>2. i <= k
        BY <2>1, <3>4
      <4>3. QED
        BY <4>1, <4>2
    <3>5. QED
      BY <2>2, <3>1, <3>2, <3>3, <3>4
  <2>4. QED
    BY <2>3 DEF Precedes, a, b, c
<1>6. QED
  BY <1>2, <1>3, <1>4, <1>5

(* The sort is a permutation pi of what was read that follows this order.  *)
Sorts(pi, plan, s) ==
  LET n == Len(plan) IN
  /\ pi \in [1..n -> 1..n]
  /\ \A i \in 1..n : \E r \in 1..n : pi[r] = i
  /\ \A r, q \in 1..n : r < q => pi[r] # pi[q] /\ Precedes(plan, pi[r], pi[q])
  /\ Len(s) = n /\ \A r \in 1..n : s[r] = plan[pi[r]]

LEMMA SortRight ==
  ASSUME NEW plan \in Seq(Probes)
  PROVE  /\ StableSort(plan) \in Seq(Probes)
         /\ \E pi : Sorts(pi, plan, StableSort(plan))
<1> DEFINE n == Len(plan)
           N == 1..n
           Under(i) == {j \in N : Precedes(plan, j, i)}
           rank == [i \in N |-> Cardinality(Under(i))]
           pi == [r \in N |-> CHOOSE i \in N : rank[i] = r]
           s == StableSort(plan)
<1>1. n \in Nat /\ IsFiniteSet(N) /\ Cardinality(N) = n
  <2>1. n \in Nat
    OBVIOUS
  <2> HIDE DEF n
  <2>2. QED
    BY <2>1, FS_Interval
<1>2. s = [r \in N |-> plan[pi[r]]]
  <2>1. \A i \in N : {j \in 1..Len(plan) :
                        Before(plan[j], plan[i]) \/ (j <= i /\ ~Before(plan[i], plan[j]))}
                       = Under(i)
    BY DEF Precedes
  <2> DEFINE Rank(i) == Cardinality({j \in 1..Len(plan) :
                   Before(plan[j], plan[i]) \/ (j <= i /\ ~Before(plan[i], plan[j]))})
  <2>2. \A i \in N : Rank(i) = rank[i]
    BY <2>1
  <2>3. s = [r \in N |-> plan[CHOOSE i \in N : Rank(i) = r]]
    BY DEF StableSort
  <2> HIDE DEF Rank, rank, N
  <2>4. \A r \in N : (CHOOSE i \in N : Rank(i) = r) = (CHOOSE i \in N : rank[i] = r)
    BY <2>2
  <2>5. QED
    BY <2>3, <2>4
<1>3. \A i \in N : IsFiniteSet(Under(i)) /\ rank[i] \in N
  <2>1. SUFFICES ASSUME NEW i \in N PROVE IsFiniteSet(Under(i)) /\ rank[i] \in N
    OBVIOUS
  <2> DEFINE U == Under(i)
  <2>2. U \in SUBSET N /\ i \in U
    BY PrecedesOrders
  <2>3. rank[i] = Cardinality(U)
    OBVIOUS
  <2> HIDE DEF U, N, rank
  <2>4. IsFiniteSet(U) /\ Cardinality(U) <= n /\ Cardinality(U) \in Nat
    BY <1>1, <2>2, FS_Subset, FS_CardinalityType
  <2>5. Cardinality(U) # 0
    BY <2>2, <2>4, FS_EmptySet
  <2>6. rank[i] \in N
    BY <1>1, <2>3, <2>4, <2>5 DEF N
  <2>7. QED
    BY <2>4, <2>6 DEF U
<1>4. \A i \in N : rank[i] \in Nat
  <2> HIDE DEF rank
  <2>1. \A r \in N : r \in Nat
    OBVIOUS
  <2> HIDE DEF N
  <2>2. QED
    BY <1>3, <2>1
<1>5. ASSUME NEW i \in N, NEW j \in N, Precedes(plan, i, j), i # j PROVE rank[i] < rank[j]
  <2> DEFINE U == Under(i)
             W == Under(j)
  <2>1. U \subseteq W /\ j \in W /\ j \notin U
    BY <1>5, PrecedesOrders
  <2>2. IsFiniteSet(W) /\ rank[i] = Cardinality(U) /\ rank[j] = Cardinality(W)
    BY <1>3
  <2>3. rank[i] \in Nat /\ rank[j] \in Nat
    BY <1>4
  <2> HIDE DEF U, W, rank
  <2>4. U \in SUBSET W /\ U # W
    BY <2>1
  <2>5. Cardinality(U) < Cardinality(W)
    <3>1. Cardinality(U) <= Cardinality(W) /\ Cardinality(U) # Cardinality(W)
      BY <2>2, <2>4, FS_Subset
    <3>2. QED
      BY <2>2, <2>3, <3>1
  <2>6. QED
    BY <2>2, <2>5
<1>6. \A i, j \in N : rank[i] = rank[j] => i = j
  <2>1. SUFFICES ASSUME NEW i \in N, NEW j \in N, rank[i] = rank[j], i # j PROVE FALSE
    OBVIOUS
  <2>2. rank[i] < rank[j] \/ rank[j] < rank[i]
    BY <1>5, <2>1, PrecedesOrders
  <2>3. rank[i] \in Nat /\ rank[j] \in Nat
    BY <1>4
  <2> HIDE DEF rank
  <2>4. QED
    BY <2>1, <2>2, <2>3
<1>7. \A r \in N : \E i \in N : rank[i] = r
  <2>1. rank \in Injection(N, N)
    <3>1. rank \in [N -> N]
      BY <1>3
    <3> HIDE DEF rank, N
    <3>2. QED
      BY <1>6, <3>1 DEF Injection, IsInjective
  <2> HIDE DEF rank, N
  <2>2. rank \in Surjection(N, N)
    BY <1>1, <2>1, FS_Injection
  <2>3. QED
    BY <2>2 DEF Surjection
<1> HIDE DEF rank
<1>8. \A r \in N : pi[r] \in N /\ rank[pi[r]] = r
  BY <1>7
<1>9. pi \in [N -> N]
  BY <1>8
<1> HIDE DEF pi
<1>10. \A i \in N : pi[rank[i]] = i
  BY <1>3, <1>6, <1>8
<1>11. ASSUME NEW r \in N, NEW q \in N, r < q PROVE pi[r] # pi[q] /\ Precedes(plan, pi[r], pi[q])
  <2>1. r \in Nat /\ q \in Nat
    OBVIOUS
  <2>2. pi[r] # pi[q]
    BY <1>8, <1>11, <2>1
  <2>3. ~Precedes(plan, pi[q], pi[r])
    <3>1. SUFFICES ASSUME Precedes(plan, pi[q], pi[r]) PROVE FALSE
      OBVIOUS
    <3>2. rank[pi[q]] < rank[pi[r]]
      BY <1>5, <1>8, <2>2, <3>1
    <3>3. QED
      BY <1>8, <1>11, <2>1, <3>2
  <2>4. QED
    BY <1>8, <2>2, <2>3, PrecedesOrders
<1>12. s \in Seq(Probes) /\ Len(s) = n /\ \A r \in N : s[r] = plan[pi[r]]
  <2>1. \A r \in N : plan[pi[r]] \in Probes
    BY <1>8
  <2> HIDE DEF s
  <2>2. s \in [1..n -> Probes]
    BY <1>2, <2>1
  <2>3. QED
    BY <1>1, <1>2, <2>2
<1>13. \A i \in N : \E r \in N : pi[r] = i
  BY <1>3, <1>10
<1> HIDE DEF s
<1>14. Sorts(pi, plan, s)
  BY <1>9, <1>11, <1>12, <1>13 DEF Sorts
<1>15. QED
  BY <1>12, <1>14 DEF s

-----------------------------------------------------------------------------
(* The files of a load.                                                    *)

Increasing(s) == \A i, j \in DOMAIN s : i < j => s[i] < s[j]

(* A finite set of numbers can be listed in order: there is a number above *)
(* those listed so far as long as some of the set are missing.             *)
LEMMA Listable ==
  ASSUME NEW P \in SUBSET Nat, IsFiniteSet(P)
  PROVE  Cardinality(P) \in Nat /\ \E s \in [1..Cardinality(P) -> P] : Increasing(s)
<1> DEFINE n == Cardinality(P)
           Lowest(s, k) == \A x \in P : (\A i \in 1..k : s[i] # x) => \A i \in 1..k : s[i] < x
           Upto(k) == \E s \in [1..k -> P] : Increasing(s) /\ Lowest(s, k)
           S == {k \in Nat : Upto(k)}
<1>1. n \in Nat
  BY FS_CardinalityType
<1> HIDE DEF n
<1>2. Upto(0)
  <2> DEFINE s == [i \in 1..0 |-> 0]
  <2>1. s \in [1..0 -> P] /\ Increasing(s) /\ Lowest(s, 0)
    BY DEF Increasing
  <2>2. QED
    BY <2>1
<1>3. ASSUME NEW k \in 0..(n - 1), Upto(k) PROVE Upto(k + 1)
  <2>1. PICK s \in [1..k -> P] : Increasing(s) /\ Lowest(s, k)
    BY <1>3
  <2> DEFINE T == {x \in P : \A i \in 1..k : s[i] # x}
  <2>2. k \in Nat /\ k < n
    BY <1>1
  <2>3. T # {}
    <3>1. SUFFICES ASSUME T = {} PROVE FALSE
      OBVIOUS
    <3>2. P \subseteq {s[i] : i \in 1..k}
      BY <3>1
    <3>3. IsFiniteSet(1..k) /\ Cardinality(1..k) = k
      BY <2>2, FS_Interval
    <3>4. /\ IsFiniteSet({s[i] : i \in 1..k})
          /\ Cardinality({s[i] : i \in 1..k}) <= k
      <4>1. s \in Surjection(1..k, {s[i] : i \in 1..k})
        BY DEF Surjection
      <4>2. QED
        BY <3>3, <4>1, FS_Surjection
    <3>5. n <= Cardinality({s[i] : i \in 1..k})
      BY <3>2, <3>4, FS_Subset DEF n
    <3>6. Cardinality({s[i] : i \in 1..k}) \in Nat
      BY <3>4, FS_CardinalityType
    <3>7. QED
      BY <1>1, <2>2, <3>4, <3>5, <3>6
  <2>4. PICK y \in T : \A x \in T : y <= x
    <3>1. T \in SUBSET Nat
      OBVIOUS
    <3> HIDE DEF T
    <3>2. QED
      BY <2>3, <3>1, Least
  <2> DEFINE t == [i \in 1..(k + 1) |-> IF i = k + 1 THEN y ELSE s[i]]
  <2>5. /\ \A i \in 1..k : i \in 1..(k + 1) /\ i # k + 1
        /\ \A i \in 1..(k + 1) : i # k + 1 => i \in 1..k
        /\ k + 1 \in 1..(k + 1)
    BY <2>2
  <2>6. y \in P /\ y \in Nat /\ \A i \in 1..k : s[i] < y
    BY <2>1, <2>4
  <2>7. t \in [1..(k + 1) -> P]
    BY <2>5, <2>6
  <2>8. t[k + 1] = y /\ \A i \in 1..k : t[i] = s[i]
    BY <2>5
  <2>9. Increasing(t)
    <3>1. SUFFICES ASSUME NEW i \in 1..(k + 1), NEW j \in 1..(k + 1), i < j PROVE t[i] < t[j]
      BY DEF Increasing
    <3>2. i \in 1..k
      BY <2>2, <3>1
    <3>3. CASE j = k + 1
      BY <2>6, <2>8, <3>2, <3>3
    <3>4. CASE j # k + 1
      <4>1. j \in 1..k /\ s[i] < s[j]
        BY <2>1, <2>5, <3>1, <3>2, <3>4 DEF Increasing
      <4>2. QED
        BY <2>8, <3>2, <4>1
    <3>5. QED
      BY <3>3, <3>4
  <2>10. Lowest(t, k + 1)
    <3>1. SUFFICES ASSUME NEW x \in P, \A i \in 1..(k + 1) : t[i] # x,
                          NEW i \in 1..(k + 1)
                   PROVE  t[i] < x
      OBVIOUS
    <3>2. x # y /\ \A l \in 1..k : s[l] # x
      BY <2>5, <2>8, <3>1
    <3>3. y <= x /\ x \in Nat
      BY <2>4, <3>2
    <3>4. CASE i = k + 1
      BY <2>6, <2>8, <3>2, <3>3, <3>4
    <3>5. CASE i # k + 1
      <4>1. i \in 1..k
        BY <2>5, <3>5
      <4>2. s[i] < x /\ t[i] = s[i]
        BY <2>1, <2>8, <3>2, <4>1
      <4>3. QED
        BY <4>2
    <3>6. QED
      BY <3>4, <3>5
  <2> HIDE DEF t
  <2>11. QED
    BY <2>7, <2>9, <2>10
<1>4. n \in S
  <2>1. 0 \in S /\ \A k \in 0..(n - 1) : k \in S => k + 1 \in S
    <3> HIDE DEF Upto
    <3>1. QED
      BY <1>1, <1>2, <1>3
  <2> HIDE DEF S
  <2>2. \A k \in 0..n : k \in S
    BY <1>1, <2>1, Induction
  <2>3. QED
    BY <1>1, <2>2
<1>5. \E s \in [1..n -> P] : Increasing(s)
  BY <1>4
<1>6. QED
  BY <1>1, <1>5 DEF n

LEMMA SortDedupRight ==
  ASSUME NEW found \in Seq(Path)
  PROVE  LET s == SortDedup(found)
         IN /\ s \in Seq(Path) /\ Increasing(s)
            /\ ToSet(found) = {s[i] : i \in 1..Len(s)}
<1> DEFINE P == ToSet(found)
           n == Cardinality(P)
           s == SortDedup(found)
<1>1. P \in SUBSET Path /\ Path \subseteq Nat /\ IsFiniteSet(Path)
  <2>1. NPaths \in Int /\ 1 \in Int
    BY LoadingConstants
  <2>2. IsFiniteSet(1..NPaths)
    BY <2>1, FS_Interval
  <2>3. \A i \in DOMAIN found : found[i] \in Path
    BY ElementOfSeq
  <2>4. QED
    BY <2>2, <2>3 DEF Path, ToSet
<1>2. IsFiniteSet(P) /\ P \in SUBSET Nat
  BY <1>1, FS_Subset
<1> HIDE DEF P, n
<1>3. n \in Nat /\ \E f \in [1..n -> P] : Increasing(f)
  BY <1>2, Listable DEF n
<1>4. s \in [1..n -> P] /\ Increasing(s)
  <2>1. s = CHOOSE f \in [1..n -> P] : Increasing(f)
    BY DEF SortDedup, Increasing, P, n
  <2> HIDE DEF s
  <2>2. QED
    BY <1>3, <2>1
<1> HIDE DEF s
<1>5. s \in Seq(Path) /\ Len(s) = n
  <2>1. s \in [1..n -> Path]
    BY <1>1, <1>4
  <2>2. QED
    BY <1>3, <2>1
<1>6. \A x \in P : \E i \in 1..n : s[i] = x
  <2>1. IsFiniteSet(1..n) /\ Cardinality(1..n) = n
    BY <1>3, FS_Interval
  <2>2. s \in Injection(1..n, P)
    <3>1. SUFFICES ASSUME NEW i \in 1..n, NEW j \in 1..n, s[i] = s[j] PROVE i = j
      BY <1>4 DEF Injection, IsInjective
    <3>2. DOMAIN s = 1..n /\ s[i] \in Nat /\ s[j] \in Nat /\ i \in Nat /\ j \in Nat
      <4>1. s[i] \in P /\ s[j] \in P /\ DOMAIN s = 1..n
        BY <1>4
      <4>2. i \in Nat /\ j \in Nat
        BY <1>3
      <4>3. QED
        BY <1>2, <4>1, <4>2
    <3>3. ~(i < j) /\ ~(j < i)
      BY <1>4, <3>1, <3>2 DEF Increasing
    <3>4. QED
      BY <3>2, <3>3
  <2>3. s \in Surjection(1..n, P)
    BY <1>2, <2>1, <2>2, FS_Injection DEF n
  <2>4. QED
    BY <2>3 DEF Surjection
<1>7. P = {s[i] : i \in 1..Len(s)}
  BY <1>4, <1>5, <1>6
<1>8. QED
  BY <1>4, <1>5, <1>7 DEF s, P

LEMMA ListsRight ==
  ASSUME NEW S \in SUBSET Path, NEW s \in SetToSeqs(S)
  PROVE  s \in Seq(Path) /\ ToSet(s) = S
<1> DEFINE n == Cardinality(S)
<1>1. IsFiniteSet(S)
  <2>1. NPaths \in Int /\ 1 \in Int
    BY LoadingConstants
  <2>2. IsFiniteSet(Path)
    BY <2>1, FS_Interval DEF Path
  <2>3. QED
    BY <2>2, FS_Subset
<1>2. n \in Nat
  BY <1>1, FS_CardinalityType
<1>3. s \in [1..n -> S] /\ \A i, j \in 1..n : i # j => s[i] # s[j]
  BY DEF SetToSeqs
<1>4. s \in Surjection(1..n, S)
  <2> HIDE DEF n
  <2>1. IsFiniteSet(1..n) /\ Cardinality(1..n) = n
    BY <1>2, FS_Interval
  <2>2. s \in Injection(1..n, S)
    BY <1>3 DEF Injection, IsInjective
  <2>3. QED
    BY <1>1, <2>1, <2>2, FS_Injection DEF n
<1> HIDE DEF n
<1>5. s \in [1..n -> Path]
  BY <1>3
<1>6. s \in Seq(Path)
  BY <1>2, <1>5
<1>7. DOMAIN s = 1..n
  BY <1>3
<1>8. QED
  BY <1>3, <1>4, <1>6, <1>7 DEF ToSet, Surjection

LEMMA FoundRight ==
  ASSUME NEW S \in SUBSET Path, NEW T \in SUBSET Path,
         NEW s \in SetToSeqs(S), NEW t \in SetToSeqs(T)
  PROVE  s \o t \in Seq(Path) /\ ToSet(s \o t) = S \cup T
<1>1. /\ s \in Seq(Path) /\ ToSet(s) = S
      /\ t \in Seq(Path) /\ ToSet(t) = T
  BY ListsRight
<1>2. /\ s \o t \in Seq(Path) /\ Len(s \o t) = Len(s) + Len(t)
      /\ \A k \in 1..(Len(s) + Len(t)) :
           (s \o t)[k] = IF k <= Len(s) THEN s[k] ELSE t[k - Len(s)]
  BY <1>1, ConcatProperties
<1>3. Len(s) \in Nat /\ Len(t) \in Nat /\ DOMAIN s = 1..Len(s) /\ DOMAIN t = 1..Len(t)
      /\ DOMAIN (s \o t) = 1..(Len(s) + Len(t))
  BY <1>1, <1>2
<1> DEFINE u == s \o t
<1> HIDE DEF u
<1>4. ASSUME NEW k \in DOMAIN u PROVE u[k] \in ToSet(s) \cup ToSet(t)
  <2>1. k \in 1..(Len(s) + Len(t))
    BY <1>3 DEF u
  <2>2. CASE k <= Len(s)
    <3>1. k \in DOMAIN s /\ u[k] = s[k]
      BY <1>2, <1>3, <2>1, <2>2 DEF u
    <3>2. QED
      BY <3>1 DEF ToSet
  <2>3. CASE ~(k <= Len(s))
    <3>1. k - Len(s) \in DOMAIN t
      BY <1>3, <2>1, <2>3
    <3>2. u[k] = t[k - Len(s)]
      BY <1>2, <2>1, <2>3 DEF u
    <3>3. QED
      BY <3>1, <3>2 DEF ToSet
  <2>4. QED
    BY <2>2, <2>3
<1>5. ASSUME NEW k \in DOMAIN s PROVE s[k] \in ToSet(u)
  <2>1. k \in 1..(Len(s) + Len(t)) /\ k <= Len(s)
    BY <1>3
  <2>2. k \in DOMAIN u /\ u[k] = s[k]
    BY <1>2, <1>3, <2>1 DEF u
  <2>3. QED
    BY <2>2 DEF ToSet
<1>6. ASSUME NEW k \in DOMAIN t PROVE t[k] \in ToSet(u)
  <2> DEFINE m == k + Len(s)
  <2>1. m \in 1..(Len(s) + Len(t)) /\ ~(m <= Len(s)) /\ m - Len(s) = k
    BY <1>3
  <2> HIDE DEF m
  <2>2. m \in DOMAIN u /\ u[m] = t[k]
    BY <1>2, <1>3, <2>1 DEF u
  <2>3. QED
    BY <2>2 DEF ToSet
<1>7. ToSet(u) = S \cup T
  <2>1. ToSet(u) \subseteq S \cup T
    BY <1>1, <1>4 DEF ToSet
  <2>2. S \subseteq ToSet(u) /\ T \subseteq ToSet(u)
    BY <1>1, <1>5, <1>6 DEF ToSet
  <2>3. QED
    BY <2>1, <2>2
<1>8. QED
  BY <1>2, <1>7 DEF u

-----------------------------------------------------------------------------
(* Parameters.                                                             *)

Inputs ==
  /\ explicit \in SUBSET Path /\ listed \in SUBSET Path
  /\ supplied \in [Param -> Value \cup {None}]

LEMMA ResolvedRight ==
  ASSUME Inputs, NEW d \in Documents
  PROVE  /\ ValuesOk(Resolved(d)) /\ DOMAIN Resolved(d) \subseteq Param
         /\ IsFiniteSet(DOMAIN Resolved(d))
         /\ \A p \in DOMAIN Resolved(d) : Resolved(d)[p] \in Texts
<1> DEFINE D == {q \in Declared(d) : Selected(d, q) # None}
<1>1. Resolved(d) = [p \in D |-> Selected(d, p)]
  BY DEF Resolved
<1>2. D \in SUBSET Param
  BY DEF Declared
<1>3. IsFiniteSet(D)
  <2> HIDE DEF D
  <2>1. QED
    BY <1>2, LoadingConstants, FS_Subset
<1>4. ASSUME NEW p \in D PROVE Selected(d, p) \in Texts
  <2>1. p \in Param /\ d.parameters[p] \in Declaration /\ Selected(d, p) # None
    BY DEF Declared, Documents
  <2>2. supplied[p] \in Value \cup {None} /\ d.parameters[p].default \in Value \cup {None}
    BY <2>1 DEF Inputs, Declaration
  <2>3. Selected(d, p) \in Value
    BY <2>1, <2>2 DEF Selected
  <2>4. QED
    BY <2>3, LoadingConstants DEF Texts
<1>5. QED
  BY <1>1, <1>2, <1>3, <1>4 DEF ValuesOk

LEMMA FirstErrorRight ==
  ASSUME NEW d, FirstError(d) # None
  PROVE  FirstError(d) \in Declared(d)
<1> DEFINE wrong == {p \in Declared(d) : Missing(d, p) \/ Invalid(d, p)}
           f == FirstError(d)
<1>1. f = IF wrong = {} THEN None ELSE CHOOSE p \in wrong : \A q \in wrong : p <= q
  BY DEF FirstError
<1>2. wrong \in SUBSET Nat
  BY LoadingConstants DEF Declared
<1>3. wrong \subseteq Declared(d)
  OBVIOUS
<1>4. wrong # {} /\ f # None
  BY <1>1
<1> HIDE DEF wrong, f
<1>5. \E p \in wrong : \A q \in wrong : p <= q
  BY <1>2, <1>4, Least
<1>6. f \in wrong
  BY <1>1, <1>4, <1>5
<1>7. QED
  BY <1>3, <1>6 DEF f

LEMMA ExpandedRight ==
  ASSUME NEW d
  PROVE  Expanded(d) = Round(d.text, Resolved(d), Cardinality(DOMAIN Resolved(d)))
BY DEF Expanded, Round, Rounds

LEMMA LeftOverRight ==
  ASSUME NEW t \in Texts, ~LeftOver(t)
  PROVE  PlaceholdersIn(t) = {} /\ \A v : DOMAIN v \subseteq Param => Terminal(t, v)
<1>1. PlaceholdersIn(t) = {}
  BY DEF LeftOver
<1>2. ASSUME NEW v, DOMAIN v \subseteq Param, NEW i \in 1..Len(t) PROVE t[i] \notin DOMAIN v
  <2>1. i \in DOMAIN t
    BY DEF Texts
  <2>2. t[i] \notin Param
    BY <1>1, <2>1 DEF PlaceholdersIn, ToSet
  <2>3. QED
    BY <1>2, <2>2
<1>3. QED
  BY <1>1, <1>2 DEF Terminal

-----------------------------------------------------------------------------
(* The invariant of a load.                                                *)

Positions ==
  /\ files \in Seq(Path) /\ held \in Seq(Documents) /\ probes \in Seq(Probes) /\ at \in Nat
  /\ phase \in {"collect", "read", "substitute", "loaded", "failed"}
  /\ phase = "collect" => held = <<>> /\ probes = <<>>
  /\ phase = "read" => at = Len(held) + 1 /\ at <= Len(files) + 1
  /\ phase = "substitute" => at = Len(held) /\ at \in 1..Len(files)
  /\ phase = "loaded" => Len(held) = Len(files)

(* Each file that was asked for is listed, once and in order.              *)
FilesRight ==
  phase \in {"read", "substitute", "loaded"} =>
    Increasing(files) /\ {files[i] : i \in 1..Len(files)} = explicit \cup listed

(* A file gives one probe at most; they are in the order of the files.     *)
ProbesRight ==
  /\ \A i \in 1..Len(probes) :
       /\ probes[i].at \in 1..Len(held)
       /\ phase = "substitute" => probes[i].at # at
  /\ \A i, j \in 1..Len(probes) : i # j => probes[i].at # probes[j].at
  /\ phase \in {"read", "substitute"} =>
       \A i, j \in 1..Len(probes) : i < j => probes[i].at < probes[j].at

(* A file that was read is in the plan, is the current one or was skipped. *)
Skipped(k) ==
  files[k] \notin explicit /\ \E p \in Declared(held[k]) : Missing(held[k], p)
SkippedRight ==
  phase \in {"read", "substitute", "loaded"} =>
    \A k \in 1..Len(held) :
      \/ phase = "substitute" /\ k = at
      \/ \E i \in 1..Len(probes) : probes[i].at = k
      \/ Skipped(k)

(* What is left to substitute makes of the text what the document stands   *)
(* for, as long as it makes a text without placeholders of it.             *)
Substituting(d, v, text, left) ==
  \A j \in 0..Cardinality(left) :
    Terminal(Round(text, v, j), v) =>
      Round(d.text, v, j + Cardinality(DOMAIN v) - Cardinality(left)) = Round(text, v, j)

TextsRight ==
  phase = "substitute" =>
    /\ doc \in Documents /\ resolved = Resolved(held[at])
    /\ pending \subseteq DOMAIN resolved
    /\ Substituting(held[at], resolved, doc.text, pending)

LoadInv ==
  /\ Inputs /\ Positions /\ FilesRight /\ ProbesRight /\ SkippedRight /\ TextsRight
  /\ SubstitutionExact /\ PlanOrdered

(* The operators on documents do not change in a step.                     *)
LEMMA SameInputs ==
  ASSUME UNCHANGED inputs
  PROVE  /\ \A d : Resolved(d)' = Resolved(d) /\ Expanded(d)' = Expanded(d)
         /\ \A d, p : Missing(d, p)' = Missing(d, p)
<1>1. supplied' = supplied
  BY DEF inputs
<1>2. ASSUME NEW d PROVE Resolved(d)' = Resolved(d)
  BY <1>1 DEF Resolved, Selected, Declared
<1>3. ASSUME NEW d PROVE Expanded(d)' = Expanded(d)
  <2>1. Expanded(d) = Round(d.text, Resolved(d), Cardinality(DOMAIN Resolved(d)))
    BY DEF Expanded, Round, Rounds
  <2>2. Expanded(d)' = Round(d.text, Resolved(d)', Cardinality(DOMAIN Resolved(d)'))
    BY DEF Expanded, Round, Rounds
  <2>3. QED
    BY <1>2, <2>1, <2>2
<1>4. ASSUME NEW d, NEW p PROVE Missing(d, p)' = Missing(d, p)
  BY <1>1 DEF Missing, Selected
<1>5. QED
  BY <1>2, <1>3, <1>4

-----------------------------------------------------------------------------
(* The invariant is kept.                                                  *)

LEMMA InitRight == Init => LoadInv
<1> SUFFICES ASSUME Init PROVE LoadInv
  OBVIOUS
<1>1. Inputs
  BY DEF Init, Inputs
<1>2. files = <<>> /\ held = <<>> /\ probes = <<>> /\ at = 0 /\ phase = "collect"
  BY DEF Init
<1>3. Positions
  BY <1>2 DEF Positions
<1>4. FilesRight /\ SkippedRight /\ TextsRight /\ PlanOrdered
  BY <1>2 DEF FilesRight, SkippedRight, TextsRight, PlanOrdered
<1>5. ProbesRight /\ SubstitutionExact
  BY <1>2 DEF ProbesRight, SubstitutionExact
<1>6. QED
  BY <1>1, <1>3, <1>4, <1>5 DEF LoadInv

(* What was read before is not changed by reading one file more.           *)
Longer ==
  /\ held' \in Seq(Documents) /\ Len(held) <= Len(held')
  /\ \A k \in 1..Len(held) : held'[k] = held[k] /\ k \in 1..Len(held')

LEMMA HeldLonger ==
  ASSUME held \in Seq(Documents),
         held' = held \/ \E d \in Doc : held' = Append(held, d)
  PROVE  Longer
<1>1. CASE held' = held
  BY <1>1 DEF Longer
<1>2. ASSUME NEW d \in Doc, held' = Append(held, d) PROVE Longer
  <2>1. d \in Documents
    BY LoadingConstants
  <2>2. QED
    BY <1>2, <2>1 DEF Longer
<1>3. QED
  BY <1>1, <1>2

(* The text that a probe stands for, in the state after a step.            *)
LEMMA NextExpanded ==
  ASSUME UNCHANGED inputs, NEW i
  PROVE  Expanded(held[probes[i].at])' = Expanded(held'[probes'[i].at])
<1> DEFINE d == held'[probes'[i].at]
<1>1. supplied' = supplied
  BY DEF inputs
<1>2. Resolved(held[probes[i].at])' = Resolved(d)
  BY <1>1 DEF Resolved, Selected, Declared
<1>3. Expanded(d) = Round(d.text, Resolved(d), Cardinality(DOMAIN Resolved(d)))
  BY DEF Expanded, Round, Rounds
<1>4. Expanded(held[probes[i].at])' =
        Round(d.text, Resolved(held[probes[i].at])', Cardinality(DOMAIN Resolved(held[probes[i].at])'))
  BY DEF Expanded, Round, Rounds
<1>5. QED
  BY <1>2, <1>3, <1>4

LEMMA TextsRightNext ==
  ASSUME UNCHANGED inputs,
         \A i \in 1..Len(probes') : /\ PlaceholdersIn(probes'[i].text) = {}
                                   /\ probes'[i].text = Expanded(held'[probes'[i].at])
  PROVE  SubstitutionExact'
BY NextExpanded DEF SubstitutionExact, PlaceholdersIn

LEMMA TextsKept ==
  ASSUME LoadInv, Longer, UNCHANGED <<inputs, probes>>
  PROVE  SubstitutionExact'
<1>1. ASSUME NEW i \in 1..Len(probes)
      PROVE  /\ PlaceholdersIn(probes'[i].text) = {}
             /\ probes'[i].text = Expanded(held'[probes'[i].at])
  <2>1. probes'[i] = probes[i] /\ held'[probes'[i].at] = held[probes[i].at]
    BY DEF LoadInv, ProbesRight, Longer
  <2>2. QED
    BY <2>1 DEF LoadInv, SubstitutionExact
<1>2. QED
  BY <1>1, TextsRightNext

(* A load that fails keeps what it read.                                   *)
LEMMA FailStep ==
  ASSUME LoadInv, Longer, UNCHANGED <<inputs, files, probes, at>>, phase' = "failed"
  PROVE  LoadInv'
<1>1. Inputs'
  BY DEF LoadInv, Inputs, inputs
<1>2. Positions'
  BY DEF LoadInv, Positions, Longer
<1>3. FilesRight' /\ SkippedRight' /\ TextsRight' /\ PlanOrdered'
  BY DEF FilesRight, SkippedRight, TextsRight, PlanOrdered
<1>4. ProbesRight'
  BY DEF LoadInv, ProbesRight, Longer
<1>5. SubstitutionExact'
  BY TextsKept
<1>6. QED
  BY <1>1, <1>2, <1>3, <1>4, <1>5 DEF LoadInv

LEMMA CollectStep ==
  ASSUME LoadInv, Collect
  PROVE  LoadInv'
<1>1. held' = held /\ phase = "collect" /\ UNCHANGED <<inputs, probes>>
  BY DEF Collect, Fail
<1>2. held = <<>> /\ probes = <<>> /\ held \in Seq(Documents)
  BY <1>1 DEF LoadInv, Positions
<1>3. Longer
  BY <1>1, <1>2, HeldLonger
<1>4. CASE Fail
  BY <1>3, <1>4, FailStep DEF Fail
<1>5. ASSUME NEW given \in SetToSeqs(explicit), NEW walk \in Walks,
             files' = SortDedup(given \o walk), phase' = "read", at' = 1
      PROVE  LoadInv'
  <2>1. explicit \in SUBSET Path /\ listed \in SUBSET Path
    BY DEF LoadInv, Inputs
  <2>2. given \o walk \in Seq(Path) /\ ToSet(given \o walk) = explicit \cup listed
    BY <2>1, FoundRight DEF Walks
  <2>3. /\ files' \in Seq(Path) /\ Increasing(files')
        /\ {files'[i] : i \in 1..Len(files')} = explicit \cup listed
    BY <1>5, <2>2, SortDedupRight
  <2>4. Inputs'
    BY <1>1 DEF LoadInv, Inputs, inputs
  <2>5. Positions'
    BY <1>1, <1>2, <1>5, <2>3 DEF LoadInv, Positions
  <2>6. FilesRight'
    BY <1>1, <2>3 DEF FilesRight, inputs, Increasing
  <2>7. ProbesRight' /\ SkippedRight' /\ TextsRight' /\ PlanOrdered'
    BY <1>1, <1>2, <1>5 DEF ProbesRight, SkippedRight, TextsRight, PlanOrdered
  <2>8. SubstitutionExact'
    BY <1>1, <1>3, TextsKept
  <2>9. QED
    BY <2>4, <2>5, <2>6, <2>7, <2>8 DEF LoadInv
<1>6. QED
  BY <1>4, <1>5 DEF Collect

(* Of a file that was skipped, all that says so is kept.                   *)
LEMMA SkippedKept ==
  ASSUME LoadInv, Longer, UNCHANGED <<inputs, files>>, NEW k \in 1..Len(held), Skipped(k)
  PROVE  Skipped(k)'
<1>1. explicit' = explicit /\ supplied' = supplied /\ held'[k] = held[k]
  BY DEF inputs, Longer
<1>2. QED
  BY <1>1 DEF Skipped, Declared, Missing, Selected

LEMMA ReadStep ==
  ASSUME LoadInv, ReadFile
  PROVE  LoadInv'
<1>1. /\ phase = "read" /\ at <= Len(files) /\ UNCHANGED <<inputs, files, probes>>
      /\ held' = held \/ \E d \in Doc : held' = Append(held, d)
  BY DEF ReadFile, Fail
<1>2. Longer
  BY <1>1, HeldLonger DEF LoadInv, Positions
<1>3. /\ at = Len(held) + 1 /\ at \in 1..Len(files) /\ Len(held) \in Nat
      /\ held \in Seq(Documents)
  BY <1>1 DEF LoadInv, Positions
<1>4. CASE Fail
  BY <1>2, <1>4, FailStep DEF Fail
<1>5. ASSUME NEW d \in Doc, held' = Append(held, d),
             UNCHANGED at, phase' = "failed"
      PROVE  LoadInv'
  BY <1>1, <1>2, <1>5, FailStep
<1>6. Inputs'
  BY <1>1 DEF LoadInv, Inputs, inputs
<1>7. SubstitutionExact'
  BY <1>1, <1>2, TextsKept
<1>8. ASSUME phase' \in {"read", "substitute"} PROVE FilesRight' /\ PlanOrdered'
  BY <1>1, <1>8 DEF LoadInv, FilesRight, PlanOrdered, inputs, Increasing
<1>9. ASSUME NEW d \in Doc, held' = Append(held, d)
      PROVE  d \in Documents /\ Len(held') = at /\ held'[at] = d
  BY <1>3, <1>9, LoadingConstants
<1>10. ASSUME NEW k \in 1..Len(held)
       PROVE  (\E i \in 1..Len(probes) : probes[i].at = k) \/ Skipped(k)'
  BY <1>1, <1>2, <1>10, SkippedKept DEF LoadInv, SkippedRight
<1>11. ASSUME NEW d \in Doc, held' = Append(held, d), phase' = "substitute", doc' = d,
              resolved' = Resolved(d), pending' = DOMAIN Resolved(d), UNCHANGED at
       PROVE  LoadInv'
  <2>1. d \in Documents /\ Len(held') = at /\ held'[at] = d
    BY <1>9, <1>11
  <2>2. Positions'
    BY <1>1, <1>2, <1>3, <1>11, <2>1 DEF LoadInv, Positions, Longer
  <2>3. ProbesRight'
    BY <1>1, <1>3, <1>11, <2>1 DEF LoadInv, ProbesRight
  <2>4. SkippedRight'
    <3>1. \A k \in 1..Len(held') : k = at \/ k \in 1..Len(held)
      BY <1>3, <2>1
    <3>2. QED
      BY <1>1, <1>10, <1>11, <3>1 DEF SkippedRight
  <2>5. TextsRight'
    <3> DEFINE v == Resolved(d)
               n == Cardinality(DOMAIN v)
    <3>1. n \in Nat
      BY <2>1, ResolvedRight, FS_CardinalityType DEF LoadInv
    <3>2. Substituting(d, v, d.text, DOMAIN v)
      <4>1. \A j \in 0..n : j + n - n = j
        <5> HIDE DEF n
        <5>1. QED
          BY <3>1
      <4>2. QED
        BY <4>1 DEF Substituting
    <3>3. Resolved(held[at])' = v
      <4>1. supplied' = supplied /\ at' = at
        BY <1>1, <1>11 DEF inputs
      <4>2. QED
        BY <2>1, <4>1 DEF Resolved, Selected, Declared
    <3>4. held'[at'] = d
      BY <1>11, <2>1
    <3> HIDE DEF v
    <3>5. /\ doc' \in Documents /\ resolved' = v /\ pending' = DOMAIN v
          /\ Substituting(held'[at'], resolved', doc'.text, pending')
      BY <1>11, <2>1, <3>2, <3>4 DEF v
    <3>6. QED
      BY <3>3, <3>5 DEF TextsRight
  <2>6. QED
    BY <1>6, <1>7, <1>8, <1>11, <2>2, <2>3, <2>4, <2>5 DEF LoadInv
<1>12. ASSUME NEW d \in Doc, held' = Append(held, d), FirstError(d) # None,
              Missing(d, FirstError(d)), Skips(files[at]), at' = at + 1,
              UNCHANGED <<phase, doc, resolved, pending>>
       PROVE  LoadInv'
  <2>1. d \in Documents /\ Len(held') = at /\ held'[at] = d
    BY <1>9, <1>12
  <2>2. Positions'
    BY <1>1, <1>2, <1>3, <1>12, <2>1 DEF LoadInv, Positions, Longer
  <2>3. ProbesRight'
    BY <1>1, <1>3, <1>12, <2>1 DEF LoadInv, ProbesRight
  <2>5. SkippedRight'
    <3>1. \A k \in 1..Len(held') : k = at \/ k \in 1..Len(held)
      BY <1>3, <2>1
    <3>2. ASSUME NEW k \in 1..Len(held'), k = at PROVE Skipped(k)'
      <4>1. explicit' = explicit /\ supplied' = supplied /\ files' = files
        BY <1>1 DEF inputs
      <4>2. FirstError(d) \in Declared(d)
        BY <1>12, FirstErrorRight
      <4>3. files[k] \notin explicit /\ held'[k] = d
        BY <1>12, <2>1, <3>2 DEF Skips
      <4>4. QED
        BY <1>12, <4>1, <4>2, <4>3 DEF Skipped, Missing, Selected, Declared
    <3>3. QED
      BY <1>1, <1>10, <3>1, <3>2 DEF SkippedRight
  <2>6. TextsRight'
    BY <1>1, <1>12 DEF TextsRight
  <2>7. QED
    BY <1>1, <1>6, <1>7, <1>8, <1>12, <2>2, <2>3, <2>5, <2>6 DEF LoadInv
<1>13. QED
  BY <1>4, <1>5, <1>11, <1>12 DEF ReadFile

LEMMA SubstituteStep ==
  ASSUME LoadInv, NEW p \in Param, Substitute(p)
  PROVE  LoadInv'
<1> DEFINE v == resolved
           d == held[at]
           t == doc.text
           u == Replace(t, p, v[p])
           left == pending \ {p}
           n == Cardinality(DOMAIN v)
           c == Cardinality(left)
<1>1. /\ phase = "substitute" /\ p \in pending /\ pending' = left
      /\ doc' = [doc EXCEPT !.text = u]
      /\ UNCHANGED <<inputs, phase, files, at, resolved, probes, held>>
  BY DEF Substitute
<1>2. /\ held \in Seq(Documents) /\ d \in Documents /\ doc \in Documents /\ v = Resolved(d)
      /\ pending \subseteq DOMAIN v /\ Substituting(d, v, t, pending)
  BY <1>1 DEF LoadInv, Positions, TextsRight
<1>3. /\ ValuesOk(v) /\ IsFiniteSet(DOMAIN v) /\ p \in DOMAIN v /\ v[p] \in Texts
  BY <1>1, <1>2, ResolvedRight DEF LoadInv
<1>4. t \in Texts /\ d.text \in Texts
  BY <1>2 DEF Documents, Texts
<1>5. u \in Texts
  <2>1. ValuesOk([q \in {p} |-> v[p]])
    BY <1>3 DEF ValuesOk
  <2>2. QED
    BY <1>4, <2>1, ExpandType DEF Replace
<1>6. n \in Nat /\ c \in Nat /\ Cardinality(pending) = c + 1
  <2>1. IsFiniteSet(pending)
    BY <1>2, <1>3, FS_Subset
  <2>2. IsFiniteSet(left) /\ c = Cardinality(pending) - 1 /\ Cardinality(pending) \in Nat
    BY <1>1, <2>1, FS_RemoveElement, FS_CardinalityType
  <2>3. n \in Nat /\ c \in Nat
    BY <1>3, <2>2, FS_CardinalityType
  <2> HIDE DEF n, c
  <2>4. QED
    BY <2>2, <2>3
<1>7. doc' \in Documents /\ doc'.text = u
  BY <1>1, <1>2, <1>5 DEF Documents, Texts
<1>8. Substituting(d, v, u, left)
  <2> SUFFICES ASSUME NEW j \in 0..c, Terminal(Round(u, v, j), v)
               PROVE  Round(d.text, v, j + n - c) = Round(u, v, j)
    BY DEF Substituting
  <2>1. Round(t, v, j + 1) = Round(u, v, j)
    BY <1>3, <1>4, ReplaceRight
  <2>2. j + 1 \in 0..(c + 1) /\ (j + 1) + n - (c + 1) = j + n - c
    <3> HIDE DEF n, c
    <3>1. QED
      BY <1>6
  <2>3. Round(d.text, v, (j + 1) + n - Cardinality(pending)) = Round(t, v, j + 1)
    BY <1>2, <1>6, <2>1, <2>2 DEF Substituting
  <2>4. QED
    BY <1>6, <2>1, <2>2, <2>3
<1>9. TextsRight'
  <2>1. Resolved(held[at])' = Resolved(d)
    BY <1>1 DEF Resolved, Selected, Declared, inputs
  <2>2. resolved' = v /\ pending' \subseteq DOMAIN v
    BY <1>1, <1>2
  <2>3. Substituting(held'[at'], resolved', doc'.text, pending')
    BY <1>1, <1>7, <1>8
  <2>4. QED
    BY <1>2, <1>7, <2>1, <2>2, <2>3 DEF TextsRight
<1>10. Inputs' /\ Positions' /\ FilesRight' /\ ProbesRight' /\ PlanOrdered'
  BY <1>1 DEF LoadInv, Inputs, inputs, Positions, FilesRight, Increasing, ProbesRight, PlanOrdered
<1>11. Longer
  BY <1>1, <1>2, HeldLonger
<1>12. SkippedRight'
  <2>1. ASSUME NEW k \in 1..Len(held) PROVE k = at \/ (\E i \in 1..Len(probes) : probes[i].at = k)
                                             \/ Skipped(k)'
    BY <1>1, <1>11, SkippedKept DEF LoadInv, SkippedRight
  <2>2. QED
    BY <1>1, <2>1 DEF SkippedRight
<1>13. SubstitutionExact'
  BY <1>1, <1>11, TextsKept
<1>14. QED
  BY <1>9, <1>10, <1>12, <1>13 DEF LoadInv

LEMMA CompileStep ==
  ASSUME LoadInv, CompileFile
  PROVE  LoadInv'
<1> DEFINE v == resolved
           d == held[at]
           t == doc.text
           r == [plan_order |-> doc.plan_order, name |-> doc.name, at |-> at, text |-> t]
           m == Len(probes)
<1>1. /\ phase = "substitute" /\ pending = {}
      /\ UNCHANGED <<inputs, files, pending, held>>
  BY DEF CompileFile
<1>2. /\ held \in Seq(Documents) /\ d \in Documents /\ doc \in Documents /\ v = Resolved(d)
      /\ Substituting(d, v, t, {})
      /\ at = Len(held) /\ at \in 1..Len(files) /\ probes \in Seq(Probes) /\ m \in Nat
  BY <1>1 DEF LoadInv, Positions, TextsRight
<1>3. Longer
  BY <1>1, <1>2, HeldLonger
<1>4. CASE LeftOver(t) \/ ~doc.compiles
  BY <1>1, <1>3, <1>4, FailStep DEF CompileFile
<1>5. CASE ~LeftOver(t) /\ doc.compiles
  <2>1. /\ probes' = Append(probes, r) /\ phase' = "read" /\ at' = at + 1
    BY <1>5 DEF CompileFile
  <2>2. t \in Texts /\ r \in Probes
    BY <1>2 DEF Documents, Texts, Probes
  <2>3. PlaceholdersIn(t) = {} /\ t = Expanded(d)
    <3> DEFINE n == Cardinality(DOMAIN v)
    <3>1. ValuesOk(v) /\ DOMAIN v \subseteq Param /\ n \in Nat
      BY <1>2, ResolvedRight, FS_CardinalityType DEF LoadInv
    <3>2. Cardinality({}) = 0
      BY FS_EmptySet
    <3>3. Terminal(t, v) /\ PlaceholdersIn(t) = {}
      BY <1>5, <2>2, <3>1, LeftOverRight
    <3>4. Round(t, v, 0) = t
      BY <2>2, <3>1, RoundZero
    <3>5. 0 + n - 0 = n
      <4> HIDE DEF n
      <4>1. QED
        BY <3>1
    <3>6. Round(d.text, v, n) = t
      BY <1>2, <3>2, <3>3, <3>4, <3>5 DEF Substituting
    <3>7. QED
      BY <1>2, <3>3, <3>6, ExpandedRight
  <2>4. /\ probes' \in Seq(Probes) /\ Len(probes') = m + 1 /\ probes'[m + 1] = r
        /\ \A i \in 1..m : probes'[i] = probes[i]
        /\ \A i \in 1..(m + 1) : i \in 1..m \/ i = m + 1
    BY <1>2, <2>1, <2>2
  <2>5. Inputs' /\ FilesRight' /\ TextsRight' /\ PlanOrdered'
    BY <1>1, <2>1 DEF LoadInv, Inputs, inputs, FilesRight, Increasing, TextsRight, PlanOrdered
  <2>6. Positions'
    BY <1>1, <1>2, <2>1, <2>4 DEF LoadInv, Positions
  <2>7. r.at = at
    OBVIOUS
  <2>8. \A i \in 1..m : probes[i].at \in 1..Len(held) /\ probes[i].at # at /\ probes[i].at < at
    BY <1>1, <1>2 DEF LoadInv, ProbesRight
  <2>9. /\ \A i, j \in 1..m : i # j => probes[i].at # probes[j].at
        /\ \A i, j \in 1..m : i < j => probes[i].at < probes[j].at
    BY <1>1 DEF LoadInv, ProbesRight
  <2> HIDE DEF r, m
  <2>10. ProbesRight'
    <3>1. \A i \in 1..(m + 1) : probes'[i].at \in 1..Len(held)
      BY <1>2, <2>4, <2>7, <2>8
    <3>2. \A i, j \in 1..(m + 1) : i < j => probes'[i].at < probes'[j].at
      <4>1. ASSUME NEW i \in 1..(m + 1), NEW j \in 1..(m + 1), i < j
            PROVE  probes'[i].at < probes'[j].at
        <5>1. i \in 1..m
          BY <1>2, <4>1
        <5>2. CASE j \in 1..m
          BY <2>4, <2>9, <4>1, <5>1, <5>2
        <5>3. CASE j = m + 1
          BY <2>4, <2>7, <2>8, <5>1, <5>3
        <5>4. QED
          BY <2>4, <5>2, <5>3
      <4>2. QED
        BY <4>1
    <3>3. \A i, j \in 1..(m + 1) : i # j => probes'[i].at # probes'[j].at
      <4>1. ASSUME NEW i \in 1..(m + 1), NEW j \in 1..(m + 1), i # j
            PROVE  probes'[i].at # probes'[j].at
        <5>1. /\ probes'[i].at \in Nat /\ probes'[j].at \in Nat
              /\ (i < j \/ j < i)
          BY <1>2, <3>1, <4>1
        <5>2. QED
          BY <3>2, <5>1
      <4>2. QED
        BY <4>1
    <3>4. QED
      BY <1>1, <2>1, <2>4, <3>1, <3>2, <3>3 DEF ProbesRight
  <2>11. SkippedRight'
    <3>1. ASSUME NEW k \in 1..Len(held)
          PROVE  (\E i \in 1..Len(probes') : probes'[i].at = k) \/ Skipped(k)'
      <4>1. CASE k = at
        <5>1. m + 1 \in 1..Len(probes') /\ probes'[m + 1].at = k
          BY <1>2, <2>4, <2>7, <4>1
        <5>2. QED
          BY <5>1
      <4>2. CASE \E i \in 1..m : probes[i].at = k
        <5>1. \A i \in 1..m : i \in 1..Len(probes')
          BY <1>2, <2>4
        <5>2. QED
          BY <2>4, <4>2, <5>1
      <4>3. CASE Skipped(k)
        BY <1>1, <1>3, <4>3, SkippedKept
      <4>4. QED
        BY <1>1, <4>1, <4>2, <4>3 DEF LoadInv, SkippedRight, m
    <3>2. QED
      BY <1>1, <3>1 DEF SkippedRight
  <2>12. SubstitutionExact'
    <3>1. ASSUME NEW i \in 1..(m + 1)
          PROVE  /\ PlaceholdersIn(probes'[i].text) = {}
                 /\ probes'[i].text = Expanded(held[probes'[i].at])
      <4>1. CASE i \in 1..m
        BY <2>4, <4>1 DEF LoadInv, SubstitutionExact, m
      <4>2. CASE i = m + 1
        <5>1. r.text = t
          BY DEF r
        <5>2. QED
          BY <2>3, <2>4, <2>7, <4>2, <5>1
      <4>3. QED
        BY <2>4, <4>1, <4>2
    <3>2. held' = held
      BY <1>1
    <3>3. QED
      BY <1>1, <2>4, <3>1, <3>2, TextsRightNext
  <2>13. QED
    BY <2>5, <2>6, <2>10, <2>11, <2>12 DEF LoadInv
<1>6. QED
  BY <1>4, <1>5

LEMMA SortStep ==
  ASSUME LoadInv, SortPlan
  PROVE  LoadInv'
<1> DEFINE n == Len(probes)
           s == StableSort(probes)
<1>1. /\ phase = "read" /\ at > Len(files) /\ probes' = s /\ phase' \in {"failed", "loaded"}
      /\ UNCHANGED <<inputs, files, at, doc, resolved, pending, held>>
  BY DEF SortPlan
<1>2. /\ probes \in Seq(Probes) /\ n \in Nat /\ held \in Seq(Documents) /\ files \in Seq(Path)
      /\ Len(held) = Len(files)
  BY <1>1 DEF LoadInv, Positions
<1>3. s \in Seq(Probes)
  BY <1>2, SortRight
<1>4. PICK pi : Sorts(pi, probes, s)
  BY <1>2, SortRight
<1>5. /\ pi \in [1..n -> 1..n] /\ Len(s) = n
      /\ \A i \in 1..n : \E r \in 1..n : pi[r] = i
      /\ \A r, q \in 1..n : r < q => pi[r] # pi[q] /\ Precedes(probes, pi[r], pi[q])
      /\ \A r \in 1..n : pi[r] \in 1..n /\ s[r] = probes[pi[r]]
  BY <1>4 DEF Sorts
<1>6. Longer
  BY <1>1, <1>2, HeldLonger
<1>7. Inputs' /\ Positions' /\ FilesRight' /\ TextsRight'
  BY <1>1, <1>2, <1>3
     DEF LoadInv, Inputs, inputs, Positions, FilesRight, Increasing, TextsRight
<1>8. /\ \A i \in 1..n : probes[i].at \in 1..Len(held)
      /\ \A i, j \in 1..n : i # j => probes[i].at # probes[j].at
      /\ \A i, j \in 1..n : i < j => probes[i].at < probes[j].at
  BY <1>1 DEF LoadInv, ProbesRight
<1> HIDE DEF n, s
<1>9. ProbesRight'
  <2>1. ASSUME NEW i \in 1..n PROVE s[i].at \in 1..Len(held)
    <3>1. pi[i] \in 1..n /\ s[i] = probes[pi[i]]
      BY <1>5
    <3>2. QED
      BY <1>8, <3>1, Zenon
  <2>2. ASSUME NEW i \in 1..n, NEW j \in 1..n, i # j PROVE s[i].at # s[j].at
    <3>1. i < j \/ j < i
      BY <2>2
    <3>2. pi[i] # pi[j]
      BY <1>5, <3>1
    <3>3. pi[i] \in 1..n /\ pi[j] \in 1..n /\ s[i] = probes[pi[i]] /\ s[j] = probes[pi[j]]
      BY <1>5
    <3>4. QED
      BY <1>8, <3>2, <3>3, Zenon
  <2>3. /\ probes' = s /\ Len(probes') = n /\ held' = held
        /\ phase' # "substitute" /\ phase' # "read"
    BY <1>1, <1>5
  <2>4. QED
    BY <2>1, <2>2, <2>3, Zenon DEF ProbesRight
<1>10. SkippedRight'
  <2>1. ASSUME NEW k \in 1..Len(held)
        PROVE  (\E i \in 1..Len(probes') : probes'[i].at = k) \/ Skipped(k)'
    <3>1. CASE \E i \in 1..n : probes[i].at = k
      <4>1. PICK i \in 1..n : probes[i].at = k
        BY <3>1
      <4>2. PICK r \in 1..n : pi[r] = i
        BY <1>5
      <4>3. QED
        BY <1>1, <1>5, <4>1, <4>2
    <3>2. CASE Skipped(k)
      BY <1>1, <1>6, <3>2, SkippedKept
    <3>3. QED
      BY <1>1, <3>1, <3>2 DEF LoadInv, SkippedRight, n
  <2>2. QED
    BY <1>1, <2>1 DEF SkippedRight
<1>11. SubstitutionExact'
  <2>1. ASSUME NEW i \in 1..n
        PROVE  PlaceholdersIn(s[i].text) = {} /\ s[i].text = Expanded(held[s[i].at])
    <3>1. pi[i] \in 1..Len(probes) /\ s[i] = probes[pi[i]]
      BY <1>5 DEF n
    <3>2. QED
      BY <3>1, Zenon DEF LoadInv, SubstitutionExact
  <2>2. QED
    BY <1>1, <1>5, <2>1, TextsRightNext
<1>12. PlanOrdered'
  <2> SUFFICES ASSUME NEW r \in 1..n, NEW q \in 1..n, r < q
               PROVE  \/ Before(s[r], s[q])
                      \/ ~Before(s[q], s[r]) /\ files[s[r].at] < files[s[q].at]
    <3>1. probes' = s /\ Len(probes') = n /\ files' = files
      BY <1>1, <1>5
    <3>2. QED
      BY <3>1 DEF PlanOrdered, Before
  <2>1. CASE Before(s[r], s[q])
    BY <2>1
  <2>2. CASE ~Before(s[r], s[q])
    <3>1. pi[r] <= pi[q] /\ ~Before(s[q], s[r])
      <4>1. /\ s[r] = probes[pi[r]] /\ s[q] = probes[pi[q]]
            /\ Precedes(probes, pi[r], pi[q])
        BY <1>5
      <4>2. QED
        BY <2>2, <4>1, Zenon DEF Precedes
    <3>2. pi[r] < pi[q]
      <4>1. pi[r] \in Int /\ pi[q] \in Int /\ pi[r] # pi[q]
        BY <1>5
      <4>2. QED
        BY <3>1, <4>1
    <3>3. s[r].at < s[q].at /\ s[r].at \in 1..Len(held) /\ s[q].at \in 1..Len(held)
      <4>1. /\ pi[r] \in 1..n /\ pi[q] \in 1..n
            /\ s[r] = probes[pi[r]] /\ s[q] = probes[pi[q]]
        BY <1>5
      <4>2. QED
        BY <1>8, <3>2, <4>1, Zenon
    <3>4. files[s[r].at] < files[s[q].at]
      BY <1>1, <1>2, <3>3 DEF LoadInv, FilesRight, Increasing
    <3>5. QED
      BY <3>1, <3>4
  <2>3. QED
    BY <2>1, <2>2
<1>13. QED
  BY <1>7, <1>9, <1>10, <1>11, <1>12 DEF LoadInv

LEMMA Invariance == LoadInv /\ [Next]_vars => LoadInv'
<1> SUFFICES ASSUME LoadInv, [Next]_vars PROVE LoadInv'
  OBVIOUS
<1>1. CASE UNCHANGED vars
  <2>1. UNCHANGED <<inputs, phase, files, at, doc, resolved, pending, probes, held>>
    BY <1>1 DEF vars, inputs
  <2>2. Longer
    BY <2>1, HeldLonger DEF LoadInv, Positions
  <2>3. Inputs' /\ Positions' /\ FilesRight' /\ ProbesRight' /\ PlanOrdered'
    BY <2>1 DEF LoadInv, Inputs, inputs, Positions, FilesRight, Increasing, ProbesRight,
                PlanOrdered, Before
  <2>4. SkippedRight'
    <3>1. ASSUME NEW k \in 1..Len(held), Skipped(k) PROVE Skipped(k)'
      BY <2>1, <2>2, <3>1, SkippedKept
    <3>2. QED
      BY <2>1, <3>1 DEF LoadInv, SkippedRight
  <2>5. TextsRight'
    <3>1. Resolved(held[at])' = Resolved(held[at])
      BY <2>1 DEF Resolved, Selected, Declared, inputs
    <3>2. QED
      BY <2>1, <3>1 DEF LoadInv, TextsRight
  <2>6. SubstitutionExact'
    BY <2>1, <2>2, TextsKept
  <2>7. QED
    BY <2>3, <2>4, <2>5, <2>6 DEF LoadInv
<1>2. CASE Collect
  BY <1>2, CollectStep
<1>3. CASE ReadFile
  BY <1>3, ReadStep
<1>4. CASE CompileFile
  BY <1>4, CompileStep
<1>5. CASE SortPlan
  BY <1>5, SortStep
<1>6. ASSUME NEW p \in Param, Substitute(p) PROVE LoadInv'
  BY <1>6, SubstituteStep
<1>7. QED
  BY <1>1, <1>2, <1>3, <1>4, <1>5, <1>6 DEF Next

LEMMA LoadInvCorrect == Spec => []LoadInv
BY InitRight, Invariance, PTL DEF Spec

-----------------------------------------------------------------------------
(* Properties of every load.                                               *)

(* Whatever the order in which the files are found, and however many there *)
(* are, the plan is in the order of plan_order and name, and of the paths  *)
(* for those that tie (load_probes_with_params).                           *)
THEOREM OrderCorrect == Spec => []PlanOrdered
<1>1. LoadInv => PlanOrdered
  BY DEF LoadInv
<1>2. QED
  BY <1>1, LoadInvCorrect, PTL

(* Whatever the parameters, their values and the order in which the        *)
(* HashMap yields them, a text that is compiled is the fully expanded one  *)
(* (substitute_parameters).                                                *)
THEOREM SubstitutionCorrect == Spec => []SubstitutionExact
<1>1. LoadInv => SubstitutionExact
  BY DEF LoadInv
<1>2. QED
  BY <1>1, LoadInvCorrect, PTL

LEMMA PlanComplete == LoadInv => NothingLeftOut
<1> SUFFICES ASSUME LoadInv, phase = "loaded"
             PROVE  /\ Len(probes) = Cardinality(Loaded)
                    /\ \A path \in (explicit \cup listed) \ Loaded :
                         /\ path \notin explicit
                         /\ \E i \in 1..Len(files) :
                              files[i] = path /\ \E p \in Declared(held[i]) : Missing(held[i], p)
  BY DEF NothingLeftOut
<1> DEFINE n == Len(probes)
           f == [i \in 1..n |-> files[probes[i].at]]
<1>1. /\ files \in Seq(Path) /\ Len(held) = Len(files) /\ n \in Nat /\ Len(files) \in Nat
      /\ Increasing(files) /\ {files[i] : i \in 1..Len(files)} = explicit \cup listed
  BY DEF LoadInv, Positions, FilesRight
<1>2. /\ \A i \in 1..n : probes[i].at \in 1..Len(files)
      /\ \A i, j \in 1..n : i # j => probes[i].at # probes[j].at
  BY <1>1 DEF LoadInv, ProbesRight
<1>3. ASSUME NEW k \in 1..Len(files), NEW l \in 1..Len(files), files[k] = files[l] PROVE k = l
  <2>1. k < l \/ l < k \/ k = l
    OBVIOUS
  <2>2. files[k] \in Int /\ files[l] \in Int /\ k \in DOMAIN files /\ l \in DOMAIN files
    <3>1. files[k] \in Path /\ files[l] \in Path
      BY <1>1, ElementOfSeq
    <3>2. QED
      BY <1>1, <3>1, LoadingConstants DEF Path
  <2>3. /\ k < l => files[k] < files[l]
        /\ l < k => files[l] < files[k]
    BY <1>1, <2>2 DEF Increasing
  <2>4. QED
    BY <1>3, <2>1, <2>2, <2>3
<1>4. n = Cardinality(Loaded)
  <2>1. \A i \in 1..n : f[i] = files[probes[i].at]
    OBVIOUS
  <2>2. Loaded = {f[i] : i \in 1..n} /\ f \in [1..n -> Loaded]
    BY DEF Loaded
  <2>3. ASSUME NEW i \in 1..n, NEW j \in 1..n, f[i] = f[j] PROVE i = j
    BY <1>2, <1>3, <2>1, <2>3
  <2> HIDE DEF n, f
  <2>4. f \in Bijection(1..n, Loaded)
    BY <2>2, <2>3 DEF Bijection, Injection, Surjection, IsInjective
  <2>5. IsFiniteSet(1..n) /\ Cardinality(1..n) = n
    <3>1. 1 \in Int /\ n \in Int
      BY <1>1
    <3>2. IsFiniteSet(1..n) /\ Cardinality(1..n) = IF 1 > n THEN 0 ELSE n - 1 + 1
      BY <3>1, FS_Interval
    <3>3. QED
      BY <1>1, <3>2
  <2>6. ExistsBijection(1..n, Loaded)
    BY <2>4 DEF ExistsBijection
  <2>7. QED
    BY <2>5, <2>6, FS_Bijection
<1>5. ASSUME NEW path \in (explicit \cup listed) \ Loaded
      PROVE  /\ path \notin explicit
             /\ \E i \in 1..Len(files) :
                  files[i] = path /\ \E p \in Declared(held[i]) : Missing(held[i], p)
  <2>1. PICK k \in 1..Len(files) : files[k] = path
    BY <1>1
  <2>2. ~ \E i \in 1..n : probes[i].at = k
    BY <2>1 DEF Loaded
  <2>3. Skipped(k)
    BY <1>1, <2>2 DEF LoadInv, SkippedRight
  <2>4. QED
    BY <2>1, <2>3 DEF Skipped
<1>6. QED
  BY <1>4, <1>5

(* Whatever the files and the parameters, what a plan leaves out was found *)
(* in the directory only and lacks a value for a required parameter, and   *)
(* no file is in it twice (load_probes_with_params).                       *)
THEOREM LeftOutCorrect == Spec => []NothingLeftOut
BY LoadInvCorrect, PlanComplete, PTL
=============================================================================
