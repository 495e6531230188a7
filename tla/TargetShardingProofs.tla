------------------------ MODULE TargetShardingProofs ------------------------
(***************************************************************************)
(* Theorems about TargetSharding, for every list of targets, every set of  *)
(* ports and every number of processes: the ports are iterated in order,   *)
(* the shards of the workers are a partition of the jobs, and what is      *)
(* counted from prefixes is what iteration yields.                         *)
(***************************************************************************)
EXTENDS TargetSharding, SequenceTheorems, FiniteSetTheorems,
        WellFoundedInduction, TLAPS

-----------------------------------------------------------------------------
(* Natural numbers.                                                        *)

(* Every set of natural numbers but the empty one has a least member.      *)
LEMMA Least ==
  ASSUME NEW T \in SUBSET Nat, T # {}
  PROVE  \E x \in T : \A y \in T : x <= y
<1> DEFINE R == {ss \in Nat \X Nat : ss[1] < ss[2]}
<1>1. OpToRel(<, Nat) = {ss \in Nat \X Nat : ss[1] < ss[2]}
  BY DEF OpToRel
<1>2. IsWellFoundedOn(R, Nat)
  BY <1>1, NatLessThanWellFounded
<1>3. PICK x \in T : \A y \in T : ~(<<y, x>> \in R)
  <2> HIDE DEF R
  <2>1. QED
    BY <1>2, WFMin
<1>4. \A y \in T : y \in Nat /\ x \in Nat /\ ~(y < x)
  BY <1>3
<1>5. QED
  BY <1>4

(* Induction from m to n, over the set of numbers that have the property.  *)
LEMMA Induction ==
  ASSUME NEW m \in Nat, NEW n \in Nat, NEW S,
         m \in S, \A i \in m..(n - 1) : i \in S => i + 1 \in S
  PROVE  \A i \in m..n : i \in S
<1> DEFINE T == {i \in Nat : i \in m..n /\ i \notin S}
<1> SUFFICES ASSUME T # {} PROVE FALSE
  OBVIOUS
<1>1. PICK x \in T : \A y \in T : x <= y
  <2>1. T \in SUBSET Nat
    OBVIOUS
  <2> HIDE DEF T
  <2>2. QED
    BY <2>1, Least
<1>2. x \in m..n /\ x \notin S /\ x # m
  BY <1>1
<1>3. x - 1 \in m..(n - 1) /\ x - 1 \notin T
  BY <1>1, <1>2
<1>4. x - 1 \in S /\ (x - 1) + 1 = x
  BY <1>2, <1>3
<1>5. QED
  BY <1>2, <1>3, <1>4

(* A function that is defined from its previous value exists.              *)
Stays(g, m, n, V) == \A v \in V : \A i \in (m + 1)..n : g[<<v, i>>] \in V
Recursive(f, m, n, V, b, g) ==
  f \in [m..n -> V] /\ f[m] = b /\ \A i \in (m + 1)..n : f[i] = g[<<f[i - 1], i>>]

LEMMA Recursion ==
  ASSUME NEW m \in Nat, NEW n \in Nat, m <= n, NEW V, NEW b \in V, NEW g, Stays(g, m, n, V)
  PROVE  \E f : Recursive(f, m, n, V, b, g)
<1> DEFINE I == (m + 1)..n
           Upto(k) == \E f \in [m..k -> V] :
                        f[m] = b /\ \A i \in (m + 1)..k : f[i] = g[<<f[i - 1], i>>]
           S == {k \in Nat : Upto(k)}
<1>1. Upto(m)
  <2> DEFINE f == [i \in m..m |-> b]
  <2>1. f \in [m..m -> V] /\ f[m] = b /\ (m + 1)..m = {}
    OBVIOUS
  <2>2. QED
    BY <2>1
<1>2. ASSUME NEW k \in m..(n - 1), Upto(k) PROVE Upto(k + 1)
  <2>1. PICK f \in [m..k -> V] :
              f[m] = b /\ \A i \in (m + 1)..k : f[i] = g[<<f[i - 1], i>>]
    BY <1>2
  <2>2. k \in Nat /\ k \in m..k /\ k + 1 \in I /\ k + 1 # m
    OBVIOUS
  <2>3. f[k] \in V
    BY <2>1, <2>2
  <2> DEFINE last == g[<<f[k], k + 1>>]
             h == [i \in m..(k + 1) |-> IF i = k + 1 THEN last ELSE f[i]]
  <2>4. last \in V
    BY <2>2, <2>3 DEF Stays
  <2>5. h \in [m..(k + 1) -> V]
    <3> HIDE DEF last
    <3>1. \A i \in m..(k + 1) : i # k + 1 => i \in m..k
      BY <2>2
    <3>2. QED
      BY <2>1, <2>4, <3>1
  <2>6. h[m] = b
    BY <2>1, <2>2
  <2>7. ASSUME NEW i \in (m + 1)..(k + 1) PROVE h[i] = g[<<h[i - 1], i>>]
    <3>1. i - 1 \in m..k /\ i \in m..(k + 1) /\ i - 1 \in m..(k + 1) /\ i - 1 # k + 1
      BY <2>2
    <3>2. h[i - 1] = f[i - 1]
      BY <3>1
    <3>3. CASE i = k + 1
      <4>1. h[i] = g[<<f[k], k + 1>>] /\ i - 1 = k
        BY <3>1, <3>3, <2>2
      <4>2. QED
        BY <3>2, <3>3, <4>1
    <3>4. CASE i # k + 1
      <4>1. i \in (m + 1)..k /\ h[i] = f[i]
        BY <3>1, <3>4
      <4>2. QED
        BY <2>1, <3>2, <4>1
    <3>5. QED
      BY <3>3, <3>4
  <2> HIDE DEF h
  <2>8. QED
    BY <2>5, <2>6, <2>7
<1>3. m \in S /\ \A k \in m..(n - 1) : k \in S => k + 1 \in S
  <2> HIDE DEF Upto
  <2>1. QED
    BY <1>1, <1>2
<1>4. n \in S
  <2> HIDE DEF S
  <2>1. \A k \in m..n : k \in S
    BY <1>3, Induction
  <2>2. QED
    BY <2>1
<1>5. QED
  BY <1>4 DEF Recursive

(* Quotient and remainder are unique.                                      *)
LEMMA Quotient ==
  ASSUME NEW p \in Nat \ {0}, NEW q \in Int, NEW r \in 0..(p - 1), NEW a \in Int,
         a = p * q + r
  PROVE  a % p = r /\ a \div p = q
<1>1. a = p * (a \div p) + (a % p) /\ a % p \in 0..(p - 1) /\ a \div p \in Int
  OBVIOUS
<1> DEFINE e == a \div p
           s == a % p
<1>2. e \in Int /\ s \in 0..(p - 1) /\ p * e + s = p * q + r
  BY <1>1
<1> HIDE DEF e, s
<1>3. \A d \in Int : d >= 1 => p * d >= p
  OBVIOUS
<1>4. p * (e - q) = p * e - p * q /\ p * (q - e) = p * q - p * e
  BY <1>2
<1>5. ~(e - q >= 1)
  <2>1. SUFFICES ASSUME e - q >= 1 PROVE FALSE
    OBVIOUS
  <2>2. p * (e - q) >= p
    BY <1>2, <1>3, <2>1
  <2> DEFINE u == p * e
             v == p * q
  <2>3. u \in Int /\ v \in Int /\ u - v >= p /\ u + s = v + r
    BY <1>2, <1>4, <2>2
  <2> HIDE DEF u, v
  <2>4. QED
    BY <1>2, <2>3
<1>6. ~(q - e >= 1)
  <2>1. SUFFICES ASSUME q - e >= 1 PROVE FALSE
    OBVIOUS
  <2>2. p * (q - e) >= p
    BY <1>2, <1>3, <2>1
  <2> DEFINE u == p * e
             v == p * q
  <2>3. u \in Int /\ v \in Int /\ v - u >= p /\ u + s = v + r
    BY <1>2, <1>4, <2>2
  <2> HIDE DEF u, v
  <2>4. QED
    BY <1>2, <2>3
<1>7. e = q
  BY <1>2, <1>5, <1>6
<1>8. s = r
  <2> DEFINE v == p * q
  <2>1. v \in Int /\ v + s = v + r
    BY <1>2, <1>7
  <2> HIDE DEF v
  <2>2. QED
    BY <1>2, <2>1
<1>9. QED
  BY <1>7, <1>8 DEF e, s

(* skip(w).step_by(p) meets exactly the positions of remainder w.          *)
LEMMA StrideRemainder ==
  ASSUME NEW p \in Nat \ {0}, NEW w \in 0..(p - 1), NEW a \in Nat
  PROVE  (a >= w /\ (a - w) % p = 0) <=> a % p = w
<1>1. ASSUME a >= w, (a - w) % p = 0 PROVE a % p = w
  <2> DEFINE q == (a - w) \div p
  <2>1. q \in Int /\ a - w = p * q + ((a - w) % p)
    OBVIOUS
  <2>2. a - w = p * q + 0
    BY <1>1, <2>1
  <2> HIDE DEF q
  <2>3. a = p * q + w
    <3> DEFINE v == p * q
    <3>1. v \in Int /\ a - w = v + 0
      BY <2>1, <2>2
    <3> HIDE DEF v
    <3>2. a = v + w
      BY <3>1
    <3>3. QED
      BY <3>2 DEF v
  <2>4. QED
    BY <2>1, <2>3, Quotient
<1>2. ASSUME a % p = w PROVE a >= w /\ (a - w) % p = 0
  <2> DEFINE q == a \div p
  <2>1. q \in Int /\ a = p * q + (a % p)
    OBVIOUS
  <2>2. q >= 0
    OBVIOUS
  <2>3. a = p * q + w
    BY <1>2, <2>1
  <2> HIDE DEF q
  <2>4. p * q >= 0
    BY <2>1, <2>2
  <2>5. a - w = p * q + 0 /\ a >= w
    <3> DEFINE v == p * q
    <3>1. v \in Int /\ v >= 0 /\ a = v + w
      BY <2>1, <2>3, <2>4
    <3> HIDE DEF v
    <3>2. a - w = v + 0 /\ a >= w
      BY <3>1
    <3>3. QED
      BY <3>2 DEF v
  <2>6. a - w \in Int /\ 0 \in 0..(p - 1)
    OBVIOUS
  <2>7. (a - w) % p = 0
    <3> DEFINE c == a - w
    <3>1. c \in Int /\ c = p * q + 0
      BY <2>5, <2>6
    <3> HIDE DEF c
    <3>2. c % p = 0
      BY <2>1, <2>6, <3>1, Quotient
    <3>3. QED
      BY <3>2 DEF c
  <2>8. QED
    BY <2>5, <2>7
<1>3. QED
  BY <1>1, <1>2

-----------------------------------------------------------------------------
(* The ranges of a set of ports.                                           *)

(* A finite set of numbers can be listed in order: there is a number above *)
(* those listed so far as long as some of the set are missing.             *)
LEMMA SortedRight ==
  ASSUME NEW P \in SUBSET Nat, IsFiniteSet(P)
  PROVE  /\ Sorted(P) \in [1..Cardinality(P) -> P] /\ Increasing(Sorted(P))
         /\ Cardinality(P) \in Nat
<1> DEFINE n == Cardinality(P)
           Lowest(s, k) == \A x \in P : (\A i \in 1..k : s[i] # x) => \A i \in 1..k : s[i] < x
           Upto(k) == \E s \in [1..k -> P] : Increasing(s) /\ Lowest(s, k)
           S == {k \in Nat : Upto(k)}
<1>1. n \in Nat
  BY FS_CardinalityType
<1> HIDE DEF n
<1>2. Upto(0)
  <2> DEFINE s == [i \in 1..0 |-> 0]
  <2>1. s \in [1..0 -> P] /\ Increasing(s) /\ Lowest(s, 0)
    BY DEF Increasing
  <2>2. QED
    BY <2>1
<1>3. ASSUME NEW k \in 0..(n - 1), Upto(k) PROVE Upto(k + 1)
  <2>1. PICK s \in [1..k -> P] : Increasing(s) /\ Lowest(s, k)
    BY <1>3
  <2> DEFINE T == {x \in P : \A i \in 1..k : s[i] # x}
  <2>2. k \in Nat /\ k < n
    BY <1>1
  <2>3. T # {}
    <3>1. SUFFICES ASSUME T = {} PROVE FALSE
      OBVIOUS
    <3>2. P \subseteq {s[i] : i \in 1..k}
      BY <3>1
    <3>3. IsFiniteSet(1..k) /\ Cardinality(1..k) = k
      BY <2>2, FS_Interval
    <3>4. /\ IsFiniteSet({s[i] : i \in 1..k})
          /\ Cardinality({s[i] : i \in 1..k}) <= k
      <4>1. s \in Surjection(1..k, {s[i] : i \in 1..k})
        BY DEF Surjection
      <4>2. QED
        BY <3>3, <4>1, FS_Surjection
    <3>5. n <= Cardinality({s[i] : i \in 1..k})
      BY <3>2, <3>4, FS_Subset DEF n
    <3>6. Cardinality({s[i] : i \in 1..k}) \in Nat
      BY <3>4, FS_CardinalityType
    <3>7. QED
      BY <1>1, <2>2, <3>4, <3>5, <3>6
  <2>4. PICK y \in T : \A x \in T : y <= x
    <3>1. T \in SUBSET Nat
      OBVIOUS
    <3> HIDE DEF T
    <3>2. QED
      BY <2>3, <3>1, Least
  <2> DEFINE t == [i \in 1..(k + 1) |-> IF i = k + 1 THEN y ELSE s[i]]
  <2>5. /\ \A i \in 1..k : i \in 1..(k + 1) /\ i # k + 1
        /\ \A i \in 1..(k + 1) : i # k + 1 => i \in 1..k
        /\ k + 1 \in 1..(k + 1)
    BY <2>2
  <2>6. y \in P /\ y \in Nat /\ \A i \in 1..k : s[i] < y
    BY <2>1, <2>4
  <2>7. t \in [1..(k + 1) -> P]
    BY <2>5, <2>6
  <2>8. t[k + 1] = y /\ \A i \in 1..k : t[i] = s[i]
    BY <2>5
  <2>9. Increasing(t)
    <3>1. SUFFICES ASSUME NEW i \in 1..(k + 1), NEW j \in 1..(k + 1), i < j PROVE t[i] < t[j]
      BY DEF Increasing
    <3>2. i \in 1..k
      BY <2>2, <3>1
    <3>3. CASE j = k + 1
      BY <2>6, <2>8, <3>2, <3>3
    <3>4. CASE j # k + 1
      <4>1. j \in 1..k /\ s[i] < s[j]
        BY <2>1, <2>5, <3>1, <3>2, <3>4 DEF Increasing
      <4>2. QED
        BY <2>8, <3>2, <4>1
    <3>5. QED
      BY <3>3, <3>4
  <2>10. Lowest(t, k + 1)
    <3>1. SUFFICES ASSUME NEW x \in P, \A i \in 1..(k + 1) : t[i] # x,
                          NEW i \in 1..(k + 1)
                   PROVE  t[i] < x
      OBVIOUS
    <3>2. x # y /\ \A l \in 1..k : s[l] # x
      BY <2>5, <2>8, <3>1
    <3>3. y <= x /\ x \in Nat
      BY <2>4, <3>2
    <3>4. CASE i = k + 1
      BY <2>6, <2>8, <3>2, <3>3, <3>4
    <3>5. CASE i # k + 1
      <4>1. i \in 1..k
        BY <2>5, <3>5
      <4>2. s[i] < x /\ t[i] = s[i]
        BY <2>1, <2>8, <3>2, <4>1
      <4>3. QED
        BY <4>2
    <3>6. QED
      BY <3>4, <3>5
  <2> HIDE DEF t
  <2>11. QED
    BY <2>7, <2>9, <2>10
<1>4. n \in S
  <2>1. 0 \in S /\ \A k \in 0..(n - 1) : k \in S => k + 1 \in S
    <3> HIDE DEF Upto
    <3>1. QED
      BY <1>1, <1>2, <1>3
  <2> HIDE DEF S
  <2>2. \A k \in 0..n : k \in S
    BY <1>1, <2>1, Induction
  <2>3. QED
    BY <1>1, <2>2
<1>5. \E s \in [1..n -> P] : Increasing(s)
  BY <1>4
<1>6. QED
  BY <1>1, <1>5 DEF Sorted, n

(* Ranges that do not overlap and ascend.                                  *)
Formed(r) ==
  /\ r \in Seq(Nat \X Nat)
  /\ \A i \in 1..Len(r) : r[i][1] <= r[i][2]
  /\ \A i \in 1..Len(r) : \A j \in 1..Len(r) : i < j => r[i][2] < r[j][1]

Covers(r, x) == \E i \in 1..Len(r) : r[i][1] <= x /\ x <= r[i][2]

LEMMA AddPortType ==
  ASSUME NEW r \in Seq(Nat \X Nat), NEW p \in Nat
  PROVE  AddPort(r, p) \in Seq(Nat \X Nat)
<1>1. CASE r # <<>> /\ Last(r)[2] + 1 = p
  <2>1. Len(r) \in 1..Len(r) /\ r[Len(r)] \in Nat \X Nat
    BY <1>1
  <2>2. <<r[Len(r)][1], p>> \in Nat \X Nat
    BY <2>1
  <2>3. AddPort(r, p) = [r EXCEPT ![Len(r)] = <<r[Len(r)][1], p>>]
    BY <1>1 DEF AddPort
  <2>4. QED
    BY <2>1, <2>2, <2>3, ExceptSeq
<1>2. CASE ~(r # <<>> /\ Last(r)[2] + 1 = p)
  BY <1>2 DEF AddPort
<1>3. QED
  BY <1>1, <1>2

(* A port above all ranges extends the last of them or starts another.     *)
LEMMA AddPortRight ==
  ASSUME NEW r, Formed(r), NEW p \in Nat, r # <<>> => r[Len(r)][2] < p
  PROVE  LET a == AddPort(r, p)
         IN /\ Formed(a) /\ a # <<>> /\ a[Len(a)][2] = p
            /\ \A x \in Nat : Covers(a, x) <=> Covers(r, x) \/ x = p
<1> DEFINE a == AddPort(r, p)
<1>1. r \in Seq(Nat \X Nat) /\ Len(r) \in Nat /\ r = [i \in 1..Len(r) |-> r[i]]
  BY DEF Formed
<1>2. \A i \in 1..Len(r) : r[i] \in Nat \X Nat /\ r[i][1] \in Nat /\ r[i][2] \in Nat
  BY <1>1
<1>3. \A i \in 1..Len(r) : r[i][2] < p /\ r[i][1] <= r[i][2]
  <2>1. SUFFICES ASSUME NEW i \in 1..Len(r) PROVE r[i][2] < p /\ r[i][1] <= r[i][2]
    OBVIOUS
  <2>2. r # <<>> /\ Len(r) \in 1..Len(r)
    BY <1>1
  <2>3. r[i][1] <= r[i][2] /\ r[Len(r)][1] <= r[Len(r)][2] /\ r[Len(r)][2] < p
    BY <2>2 DEF Formed
  <2>4. CASE i = Len(r)
    BY <2>3, <2>4
  <2>5. CASE i # Len(r)
    <3>1. r[i][2] < r[Len(r)][1]
      BY <2>2, <2>5 DEF Formed
    <3>2. QED
      BY <1>2, <2>2, <2>3, <3>1
  <2>6. QED
    BY <2>4, <2>5
<1>4. CASE r # <<>> /\ Last(r)[2] + 1 = p
  <2> DEFINE n == Len(r)
  <2>1. n \in 1..n /\ r[n] \in Nat \X Nat /\ r[n][2] + 1 = p
    BY <1>1, <1>4 DEF Last
  <2>2. a = [r EXCEPT ![n] = <<r[n][1], p>>]
    BY <1>4 DEF AddPort
  <2>3. Len(a) = n /\ a \in Seq(Nat \X Nat)
    <3>1. a \in Seq(Nat \X Nat)
      BY <1>1, AddPortType
    <3>2. Len([r EXCEPT ![n] = <<r[n][1], p>>]) = n
      BY <1>1
    <3>3. QED
      BY <2>2, <3>1, <3>2
  <2>4. a[n][1] = r[n][1] /\ a[n][2] = p
    BY <1>1, <2>1, <2>2
  <2>5. \A i \in 1..n : i # n => a[i] = r[i]
    BY <1>1, <2>2
  <2> HIDE DEF a
  <2>6. \A i \in 1..n : a[i][1] <= a[i][2]
    BY <1>2, <1>3, <2>1, <2>4, <2>5
  <2>7. ASSUME NEW i \in 1..n, NEW j \in 1..n, i < j PROVE a[i][2] < a[j][1]
    <3>1. i # n /\ a[j][1] = r[j][1]
      BY <1>1, <2>4, <2>5, <2>7
    <3>2. r[i][2] < r[j][1]
      BY <2>7 DEF Formed
    <3>3. QED
      BY <2>5, <3>1, <3>2
  <2>8. Formed(a)
    BY <2>3, <2>6, <2>7 DEF Formed
  <2>9. ASSUME NEW x \in Nat PROVE Covers(a, x) <=> Covers(r, x) \/ x = p
    <3>1. ASSUME NEW i \in 1..n, a[i][1] <= x, x <= a[i][2] PROVE Covers(r, x) \/ x = p
      <4>1. CASE i # n
        BY <2>5, <3>1, <4>1 DEF Covers
      <4>2. CASE i = n
        <5>1. r[n][1] <= x /\ x <= p
          BY <2>4, <3>1, <4>2
        <5>2. x = p \/ x <= r[n][2]
          BY <1>2, <2>1, <5>1
        <5>3. QED
          BY <2>1, <5>1, <5>2 DEF Covers
      <4>3. QED
        BY <4>1, <4>2
    <3>2. ASSUME NEW i \in 1..n, r[i][1] <= x, x <= r[i][2] PROVE Covers(a, x)
      <4>1. a[i][1] = r[i][1] /\ x <= a[i][2]
        <5>1. CASE i # n
          BY <2>5, <3>2, <5>1
        <5>2. CASE i = n
          BY <1>2, <1>3, <2>4, <3>2, <5>2
        <5>3. QED
          BY <5>1, <5>2
      <4>2. QED
        BY <2>3, <3>2, <4>1 DEF Covers
    <3>3. ASSUME x = p PROVE Covers(a, x)
      <4>1. a[n][1] <= x /\ x <= a[n][2]
        BY <1>2, <1>3, <2>1, <2>4, <3>3
      <4>2. QED
        BY <2>1, <2>3, <4>1 DEF Covers
    <3>4. QED
      BY <2>3, <3>1, <3>2, <3>3 DEF Covers
  <2>10. a # <<>>
    BY <2>1, <2>3
  <2>11. QED
    BY <2>3, <2>4, <2>8, <2>9, <2>10 DEF a
<1>5. CASE ~(r # <<>> /\ Last(r)[2] + 1 = p)
  <2> DEFINE n == Len(r)
  <2>1. a = Append(r, <<p, p>>)
    BY <1>5 DEF AddPort
  <2>2. n \in Nat /\ Len(a) = n + 1 /\ a \in Seq(Nat \X Nat)
    BY <1>1, <2>1
  <2>3. a[n + 1] = <<p, p>> /\ \A i \in 1..n : a[i] = r[i]
    BY <1>1, <2>1
  <2>4. \A i \in 1..(n + 1) : i \in 1..n \/ i = n + 1
    BY <2>2
  <2> HIDE DEF a, n
  <2>5. \A i \in 1..(n + 1) : a[i][1] <= a[i][2]
    BY <1>3, <2>3, <2>4 DEF n
  <2>6. ASSUME NEW i \in 1..(n + 1), NEW j \in 1..(n + 1), i < j PROVE a[i][2] < a[j][1]
    <3>1. i \in 1..n
      BY <2>2, <2>6
    <3>2. CASE j = n + 1
      BY <1>3, <2>3, <3>1, <3>2 DEF n
    <3>3. CASE j \in 1..n
      BY <2>3, <2>6, <3>1, <3>3 DEF Formed, n
    <3>4. QED
      BY <2>4, <3>2, <3>3
  <2>7. Formed(a)
    BY <2>2, <2>5, <2>6 DEF Formed
  <2>8. ASSUME NEW x \in Nat PROVE Covers(a, x) <=> Covers(r, x) \/ x = p
    <3>1. ASSUME NEW i \in 1..(n + 1), a[i][1] <= x, x <= a[i][2]
          PROVE  Covers(r, x) \/ x = p
      <4>1. CASE i \in 1..n
        BY <2>3, <3>1, <4>1 DEF Covers, n
      <4>2. CASE i = n + 1
        BY <2>3, <3>1, <4>2
      <4>3. QED
        BY <2>4, <4>1, <4>2
    <3>2. ASSUME NEW i \in 1..n, r[i][1] <= x, x <= r[i][2] PROVE Covers(a, x)
      <4>1. i \in 1..(n + 1) /\ a[i] = r[i]
        BY <2>2, <2>3
      <4>2. QED
        BY <2>2, <3>2, <4>1 DEF Covers
    <3>3. ASSUME x = p PROVE Covers(a, x)
      <4>1. n + 1 \in 1..(n + 1)
        BY <2>2
      <4>2. QED
        BY <2>2, <2>3, <3>3, <4>1 DEF Covers
    <3>4. QED
      BY <2>2, <3>1, <3>2, <3>3 DEF Covers, n
  <2>9. a # <<>> /\ a[Len(a)][2] = p
    BY <2>2, <2>3
  <2>10. QED
    BY <2>7, <2>8, <2>9 DEF a
<1>6. QED
  BY <1>4, <1>5

(* The ranges after k of the ports.                                        *)
MergedUpto(r, s, k) ==
  /\ Formed(r)
  /\ (k = 0) => (r = <<>>)
  /\ (k > 0) => (r # <<>> /\ r[Len(r)][2] = s[k])
  /\ \A x \in Nat : Covers(r, x) <=> \E i \in 1..k : s[i] = x

LEMMA MergedRecursion ==
  ASSUME NEW s \in Seq(Nat)
  PROVE  /\ Merged(s)[0] = <<>>
         /\ \A k \in 1..Len(s) : Merged(s)[k] = AddPort(Merged(s)[k - 1], s[k])
<1> DEFINE V == Seq(Nat \X Nat)
           n == Len(s)
           g == [x \in V \X (1..n) |-> AddPort(x[1], s[x[2]])]
           Body(f) == [k \in 0..n |-> IF k = 0 THEN <<>> ELSE AddPort(f[k - 1], s[k])]
<1>1. n \in Nat /\ \A k \in 1..n : s[k] \in Nat
  OBVIOUS
<1>2. \A r \in V : \A k \in 1..n : g[<<r, k>>] \in V
  <2>1. ASSUME NEW r \in V, NEW k \in 1..n PROVE AddPort(r, s[k]) \in V
    BY <1>1, AddPortType
  <2> HIDE DEF V, n
  <2>2. QED
    BY <2>1
<1>3. <<>> \in V
  OBVIOUS
<1>4. PICK f : Recursive(f, 0, n, V, <<>>, g)
  <2> HIDE DEF V, g, n
  <2>1. 0 \in Nat /\ n \in Nat /\ 0 <= n /\ 0 + 1 = 1
    BY <1>1
  <2>2. Stays(g, 0, n, V)
    BY <1>2, <2>1 DEF Stays
  <2>3. QED
    BY <1>3, <2>1, <2>2, Recursion, Zenon
<1>5. \A k \in 1..n : f[k] = AddPort(f[k - 1], s[k])
  <2>1. SUFFICES ASSUME NEW k \in 1..n PROVE f[k] = AddPort(f[k - 1], s[k])
    OBVIOUS
  <2>2. k - 1 \in 0..n
    BY <1>1
  <2> HIDE DEF V, n
  <2> f[k - 1] \in V /\ f[k] = g[<<f[k - 1], k>>]
    <3> HIDE DEF g
    <3>1. 0 + 1 = 1
      OBVIOUS
    <3>2. QED
      BY <1>4, <2>2, <3>1 DEF Recursive
  <2>3. QED
    BY <1>4, <2>2
<1>6. f = Body(f)
  <2> HIDE DEF V, g
  <2>1. \A k \in 0..n : k # 0 => k \in 1..n
    BY <1>1
  <2>2. QED
    BY <1>4, <1>5, <2>1 DEF Recursive
<1>7. Merged(s) = CHOOSE f1 : f1 = Body(f1)
  BY DEF Merged
<1>8. Merged(s) = Body(Merged(s))
  <2> HIDE DEF Body
  <2>1. QED
    BY <1>6, <1>7
<1>9. \A k \in 1..n : k \in 0..n /\ k # 0
  BY <1>1
<1>10. 0 \in 0..n
  BY <1>1
<1>11. QED
  BY <1>8, <1>9, <1>10

LEMMA MergedRight ==
  ASSUME NEW s \in Seq(Nat), Increasing(s)
  PROVE  MergedUpto(Merged(s)[Len(s)], s, Len(s))
<1> DEFINE n == Len(s)
           m == Merged(s)
           S == {k \in Nat : MergedUpto(m[k], s, k)}
<1>1. n \in Nat /\ DOMAIN s = 1..n /\ \A k \in 1..n : s[k] \in Nat
  OBVIOUS
<1>2. m[0] = <<>> /\ \A k \in 1..n : m[k] = AddPort(m[k - 1], s[k])
  BY MergedRecursion
<1> HIDE DEF m
<1>3. 0 \in S
  <2>1. Formed(m[0])
    BY <1>2 DEF Formed
  <2>2. \A x \in Nat : ~Covers(m[0], x)
    BY <1>2 DEF Covers
  <2>3. QED
    BY <1>2, <2>1, <2>2 DEF MergedUpto
<1>4. ASSUME NEW k \in 0..(n - 1), k \in S PROVE k + 1 \in S
  <2> DEFINE r == m[k]
             p == s[k + 1]
             a == AddPort(r, p)
  <2>1. /\ k \in Nat /\ k + 1 \in 1..n /\ (k + 1) - 1 = k /\ k + 1 \in Nat /\ k + 1 > 0
        /\ k + 1 # 0 /\ MergedUpto(r, s, k)
    BY <1>1, <1>4
  <2>2. m[k + 1] = a /\ p \in Nat
    BY <1>1, <1>2, <2>1
  <2>3. Formed(r) /\ (r # <<>> => r[Len(r)][2] < p)
    <3>1. Formed(r)
      BY <2>1 DEF MergedUpto
    <3>2. ASSUME r # <<>> PROVE r[Len(r)][2] < p
      <4>1. k > 0 /\ r[Len(r)][2] = s[k]
        BY <2>1, <3>2 DEF MergedUpto
      <4>2. k \in 1..n /\ k < k + 1
        BY <1>1, <2>1, <4>1
      <4>3. s[k] < p
        BY <1>1, <2>1, <4>2 DEF Increasing
      <4>4. QED
        BY <4>1, <4>3
    <3>3. QED
      BY <3>1, <3>2
  <2>4. \A x \in Nat : Covers(r, x) <=> \E i \in 1..k : s[i] = x
    BY <2>1 DEF MergedUpto
  <2> HIDE DEF r, p
  <2>5. /\ Formed(a) /\ a # <<>> /\ a[Len(a)][2] = p
        /\ \A x \in Nat : Covers(a, x) <=> Covers(r, x) \/ x = p
    BY <2>2, <2>3, AddPortRight
  <2> HIDE DEF a
  <2>6. \A x \in Nat : Covers(a, x) <=> \E i \in 1..(k + 1) : s[i] = x
    <3>1. \A i \in 1..(k + 1) : i \in 1..k \/ i = k + 1
      BY <2>1
    <3>2. \A i \in 1..k : i \in 1..(k + 1)
      BY <2>1
    <3>3. k + 1 \in 1..(k + 1)
      BY <2>1
    <3>4. QED
      BY <2>4, <2>5, <3>1, <3>2, <3>3 DEF p
  <2>7. MergedUpto(a, s, k + 1)
    BY <2>1, <2>5, <2>6 DEF MergedUpto, p
  <2>8. QED
    BY <2>1, <2>2, <2>7
<1>5. n \in S
  <2>1. 0 \in S /\ \A k \in 0..(n - 1) : k \in S => k + 1 \in S
    BY <1>3, <1>4
  <2> HIDE DEF S
  <2>2. \A k \in 0..n : k \in S
    BY <1>1, <2>1, Induction
  <2>3. QED
    BY <1>1, <2>2
<1>6. QED
  BY <1>5 DEF m

(* The ranges of a set of ports ascend, and cover those ports only.        *)
LEMMA RangesRight ==
  ASSUME NEW P \in SUBSET Nat, IsFiniteSet(P)
  PROVE  /\ Formed(Ranges(P))
         /\ \A x \in Nat : x \in P <=> Covers(Ranges(P), x)
<1> DEFINE n == Cardinality(P)
           s == Sorted(P)
<1>1. s \in [1..n -> P] /\ Increasing(s) /\ n \in Nat
  BY SortedRight
<1> HIDE DEF n, s
<1>2. s \in Seq(Nat) /\ Len(s) = n
  <2>1. s \in [1..n -> Nat]
    BY <1>1
  <2>2. QED
    BY <1>1, <2>1
<1>3. MergedUpto(Ranges(P), s, n)
  BY <1>1, <1>2, MergedRight DEF Ranges, n, s
<1>4. \A x \in P : \E i \in 1..n : s[i] = x
  <2>1. IsFiniteSet(1..n) /\ Cardinality(1..n) = n
    BY <1>1, FS_Interval
  <2>2. s \in Injection(1..n, P)
    <3>1. SUFFICES ASSUME NEW i \in 1..n, NEW j \in 1..n, s[i] = s[j] PROVE i = j
      BY <1>1 DEF Injection, IsInjective
    <3>2. DOMAIN s = 1..n /\ s[i] \in Nat /\ s[j] \in Nat
      BY <1>1
    <3>3. ~(i < j) /\ ~(j < i)
      BY <1>1, <3>1, <3>2 DEF Increasing
    <3>4. QED
      BY <1>1, <3>3
  <2>3. Cardinality(1..n) = Cardinality(P)
    BY <2>1 DEF n
  <2>4. s \in Surjection(1..n, P)
    BY <2>2, <2>3, FS_Injection
  <2>5. QED
    BY <2>4 DEF Surjection
<1>5. \A i \in 1..n : s[i] \in P
  BY <1>1
<1>6. QED
  BY <1>3, <1>4, <1>5 DEF MergedUpto

-----------------------------------------------------------------------------
(* Iteration over the ranges.                                              *)

LEMMA RangeParts ==
  ASSUME NEW r, Formed(r)
  PROVE  /\ Len(r) \in Nat /\ DOMAIN r = 1..Len(r)
         /\ \A i \in 1..Len(r) : /\ r[i][1] \in Nat /\ r[i][2] \in Nat /\ r[i][1] <= r[i][2]
                                 /\ RangeLen(r[i]) \in Nat \ {0}
<1>1. r \in Seq(Nat \X Nat)
  BY DEF Formed
<1>2. \A i \in 1..Len(r) : r[i] \in Nat \X Nat
  BY <1>1
<1>3. \A i \in 1..Len(r) : r[i][1] \in Nat /\ r[i][2] \in Nat
  BY <1>2
<1>4. \A i \in 1..Len(r) : r[i][1] <= r[i][2]
  BY DEF Formed
<1>5. \A x, y \in Nat : x <= y => y - x + 1 \in Nat \ {0}
  OBVIOUS
<1>6. \A i \in 1..Len(r) : RangeLen(r[i]) \in Nat \ {0}
  BY <1>3, <1>4, <1>5 DEF RangeLen
<1>7. QED
  BY <1>1, <1>3, <1>4, <1>6

LEMMA BeforeRight ==
  ASSUME NEW r, Formed(r)
  PROVE  /\ Before(r) \in [0..Len(r) -> Nat] /\ Before(r)[0] = 0
         /\ \A i \in 1..Len(r) : Before(r)[i] = Before(r)[i - 1] + RangeLen(r[i])
<1> DEFINE n == Len(r)
           g == [x \in Nat \X (1..n) |-> x[1] + RangeLen(r[x[2]])]
           Body(f) == [i \in 0..n |-> IF i = 0 THEN 0 ELSE f[i - 1] + RangeLen(r[i])]
<1>1. n \in Nat /\ \A i \in 1..n : RangeLen(r[i]) \in Nat
  BY RangeParts
<1>2. \A v \in Nat : \A i \in 1..n : g[<<v, i>>] \in Nat
  BY <1>1
<1>3. PICK f : Recursive(f, 0, n, Nat, 0, g)
  <2> HIDE DEF g, n
  <2>1. 0 \in Nat /\ n \in Nat /\ 0 <= n /\ 0 + 1 = 1
    BY <1>1
  <2>2. Stays(g, 0, n, Nat)
    BY <1>2, <2>1 DEF Stays
  <2>3. QED
    BY <2>1, <2>2, Recursion, Zenon
<1>4. f \in [0..n -> Nat] /\ f[0] = 0
  BY <1>3 DEF Recursive
<1>5. \A i \in 1..n : f[i] = f[i - 1] + RangeLen(r[i])
  <2>1. SUFFICES ASSUME NEW i \in 1..n PROVE f[i] = f[i - 1] + RangeLen(r[i])
    OBVIOUS
  <2>2. i - 1 \in 0..n
    BY <1>1
  <2>3. f[i - 1] \in Nat /\ f[i] = g[<<f[i - 1], i>>]
    <3> HIDE DEF g, n
    <3>1. 0 + 1 = 1
      OBVIOUS
    <3>2. QED
      BY <1>3, <2>2, <3>1 DEF Recursive
  <2>4. QED
    BY <2>3
<1>6. f = Body(f)
  <2> HIDE DEF g
  <2>1. \A k \in 0..n : k # 0 => k \in 1..n
    BY <1>1
  <2>2. QED
    BY <1>4, <1>5, <2>1
<1>7. Before(r) = CHOOSE f1 : f1 = Body(f1)
  BY DEF Before
<1>8. Before(r) = Body(Before(r))
  <2> HIDE DEF Body
  <2>1. QED
    BY <1>6, <1>7
<1>9. /\ \A k \in 1..n : k \in 0..n /\ k # 0 /\ k - 1 \in 0..n
      /\ 0 \in 0..n
  BY <1>1
<1> DEFINE B == Before(r)
<1>10. /\ DOMAIN B = 0..n /\ B = [i \in 0..n |-> B[i]] /\ B[0] = 0
       /\ \A i \in 1..n : B[i] = B[i - 1] + RangeLen(r[i])
  <2> HIDE DEF n
  <2>1. B = [i \in 0..n |-> IF i = 0 THEN 0 ELSE B[i - 1] + RangeLen(r[i])]
    BY <1>8
  <2> HIDE DEF B
  <2>2. DOMAIN B = 0..n
    BY <2>1
  <2>3. B[0] = 0 /\ \A i \in 1..n : B[i] = B[i - 1] + RangeLen(r[i])
    BY <1>9, <2>1
  <2>4. B = [i \in 0..n |-> B[i]]
    BY <2>1
  <2>5. QED
    BY <2>2, <2>3, <2>4
<1> HIDE DEF B, n
<1> DEFINE S == {i \in Nat : B[i] \in Nat}
<1>11. 0 \in S
  BY <1>10
<1>12. ASSUME NEW i \in 0..(n - 1), i \in S PROVE i + 1 \in S
  <2>1. i + 1 \in 1..n /\ (i + 1) - 1 = i /\ i + 1 \in Nat
    BY <1>1
  <2>2. B[i + 1] = B[i] + RangeLen(r[i + 1])
    BY <1>10, <2>1
  <2>3. B[i] \in Nat /\ RangeLen(r[i + 1]) \in Nat
    BY <1>1, <1>12, <2>1
  <2>4. \A x, y \in Nat : x + y \in Nat
    OBVIOUS
  <2>5. B[i + 1] \in Nat
    BY <2>2, <2>3, <2>4
  <2>6. QED
    BY <2>1, <2>5
<1>13. \A i \in 0..n : B[i] \in Nat
  <2> HIDE DEF S
  <2>1. \A i \in 0..n : i \in S
    BY <1>1, <1>11, <1>12, Induction
  <2>2. QED
    BY <2>1 DEF S
<1>14. B \in [0..n -> Nat]
  BY <1>10, <1>13
<1>15. QED
  BY <1>10, <1>14 DEF B, n

LEMMA BeforeGrows ==
  ASSUME NEW r, Formed(r), NEW i \in 0..Len(r), NEW j \in 0..Len(r), i <= j
  PROVE  Before(r)[i] <= Before(r)[j]
<1> DEFINE B == Before(r)
           n == Len(r)
           S == {k \in Nat : B[i] <= B[k]}
<1>1. /\ n \in Nat /\ B \in [0..n -> Nat]
      /\ \A k \in 1..n : B[k] = B[k - 1] + RangeLen(r[k]) /\ RangeLen(r[k]) \in Nat
  BY BeforeRight, RangeParts
<1> HIDE DEF B, n
<1>2. i \in 0..n /\ j \in 0..n /\ i \in Nat /\ j \in Nat
  BY <1>1 DEF n
<1>3. i \in S
  BY <1>1, <1>2
<1>4. ASSUME NEW k \in i..(j - 1), k \in S PROVE k + 1 \in S
  <2>1. k + 1 \in 1..n /\ (k + 1) - 1 = k /\ k \in 0..n /\ k + 1 \in Nat
    BY <1>1, <1>2
  <2>2. B[k + 1] = B[k] + RangeLen(r[k + 1]) /\ RangeLen(r[k + 1]) \in Nat
    BY <1>1, <2>1
  <2>3. B[k] \in Nat /\ B[i] \in Nat /\ B[i] <= B[k]
    BY <1>1, <1>2, <1>4, <2>1
  <2>4. \A x, y, z \in Nat : x <= y => x <= y + z
    OBVIOUS
  <2>5. B[i] <= B[k + 1]
    BY <2>2, <2>3, <2>4
  <2>6. QED
    BY <2>1, <2>5
<1>5. \A k \in i..j : k \in S
  <2> HIDE DEF S
  <2>1. QED
    BY <1>2, <1>3, <1>4, Induction
<1>6. j \in i..j
  BY <1>2
<1>7. QED
  BY <1>5, <1>6 DEF B

(* The k-th port lies in a range that starts after the ports before it.    *)
At(r, a, k, j) ==
  Before(r)[j - 1] < k /\ k <= Before(r)[j] /\ a[k] = r[j][1] + (k - Before(r)[j - 1]) - 1
Iterated(a, r, i) ==
  /\ a \in Seq(Nat) /\ Len(a) = Before(r)[i]
  /\ \A k \in 1..Len(a) : \E j \in 1..i : At(r, a, k, j)

(* The ports of one range.                                                 *)
Block(x) == [k \in 1..RangeLen(x) |-> x[1] + k - 1]

LEMMA BlockRight ==
  ASSUME NEW r, Formed(r), NEW i \in 1..Len(r)
  PROVE  /\ Block(r[i]) \in Seq(Nat) /\ Len(Block(r[i])) = RangeLen(r[i])
         /\ \A k \in 1..RangeLen(r[i]) : Block(r[i])[k] = r[i][1] + k - 1
<1> DEFINE n == RangeLen(r[i])
           x == r[i][1]
           b == [k \in 1..n |-> x + k - 1]
<1>1. n \in Nat /\ x \in Nat
  BY RangeParts
<1> HIDE DEF n, x
<1>2. \A k \in 1..n : x + k - 1 \in Nat
  BY <1>1
<1>3. b \in [1..n -> Nat]
  BY <1>2
<1>4. b \in Seq(Nat) /\ Len(b) = n /\ \A k \in 1..n : b[k] = x + k - 1
  BY <1>1, <1>3
<1>5. QED
  BY <1>4 DEF Block, n, x

LEMMA Joined ==
  ASSUME NEW a \in Seq(Nat), NEW b \in Seq(Nat)
  PROVE  /\ a \o b \in Seq(Nat) /\ Len(a \o b) = Len(a) + Len(b)
         /\ \A k \in 1..Len(a) : (a \o b)[k] = a[k]
         /\ \A k \in 1..Len(a \o b) : k > Len(a) => (a \o b)[k] = b[k - Len(a)]
<1>1. Len(a) \in Nat /\ Len(b) \in Nat
  OBVIOUS
<1>2. /\ a \o b \in Seq(Nat) /\ Len(a \o b) = Len(a) + Len(b)
      /\ \A k \in 1..(Len(a) + Len(b)) :
            (a \o b)[k] = IF k <= Len(a) THEN a[k] ELSE b[k - Len(a)]
  BY ConcatProperties
<1>3. QED
  BY <1>1, <1>2

LEMMA IteratedStep ==
  ASSUME NEW r, Formed(r), NEW i \in 1..(Len(r) - 1), NEW a, Iterated(a, r, i)
  PROVE  Iterated(a \o Block(r[i + 1]), r, i + 1)
<1> DEFINE b == Block(r[i + 1])
           m == RangeLen(r[i + 1])
           c == a \o b
           B == Before(r)
<1>1. i \in Nat /\ i + 1 \in 1..Len(r) /\ (i + 1) - 1 = i /\ i + 1 \in 1..(i + 1)
  BY RangeParts
<1>2. /\ B[i + 1] = B[i] + m /\ m \in Nat /\ B[i] \in Nat /\ B[i + 1] \in Nat
      /\ r[i + 1][1] \in Nat
  BY SMTT(30), <1>1, RangeParts, BeforeRight
<1>3. b \in Seq(Nat) /\ Len(b) = m /\ \A k \in 1..m : b[k] = r[i + 1][1] + k - 1
  BY <1>1, BlockRight
<1>4. a \in Seq(Nat) /\ Len(a) = B[i]
  BY DEF Iterated
<1>5. /\ c \in Seq(Nat) /\ Len(c) = Len(a) + Len(b)
      /\ \A k \in 1..Len(a) : c[k] = a[k]
      /\ \A k \in 1..Len(c) : k > Len(a) => c[k] = b[k - Len(a)]
  <2> HIDE DEF b
  <2>1. QED
    BY <1>3, <1>4, Joined
<1>6. Len(c) = B[i + 1]
  BY <1>2, <1>3, <1>4, <1>5
<1> HIDE DEF c
<1>7. ASSUME NEW k \in 1..Len(c) PROVE \E j \in 1..(i + 1) : At(r, c, k, j)
  <2>1. CASE k <= B[i]
    <3>1. k \in 1..Len(a)
      BY <1>2, <1>4, <1>6, <2>1
    <3>2. PICK j \in 1..i : At(r, a, k, j)
      BY <3>1 DEF Iterated
    <3>3. j \in 1..(i + 1) /\ c[k] = a[k]
      BY <1>1, <1>5, <3>1
    <3>4. At(r, c, k, j)
      BY <3>2, <3>3 DEF At
    <3>5. QED
      BY <3>3, <3>4
  <2>2. CASE ~(k <= B[i])
    <3>1. k \in Nat /\ B[i] < k /\ k <= B[i + 1] /\ k - B[i] \in 1..m
      <4> DEFINE x == B[i]
                 y == B[i + 1]
      <4>1. x \in Nat /\ y \in Nat /\ m \in Nat /\ y = x + m /\ k \in 1..y /\ ~(k <= x)
        BY <1>2, <1>6, <2>2
      <4> HIDE DEF x, y, m
      <4>2. k \in Nat /\ x < k /\ k <= y /\ k - x \in 1..m
        BY <4>1
      <4>3. QED
        BY <4>2 DEF x, y
    <3>2. c[k] = b[k - B[i]]
      BY <1>4, <1>5, <3>1
    <3>3. c[k] = r[i + 1][1] + (k - B[i]) - 1
      BY <1>3, <3>1, <3>2
    <3>4. At(r, c, k, i + 1)
      BY <1>1, <3>1, <3>3 DEF At
    <3>5. QED
      BY <1>1, <3>4
  <2>3. QED
    BY <2>1, <2>2
<1>8. QED
  BY <1>5, <1>6, <1>7 DEF Iterated, c

LEMMA PortsIterRight ==
  ASSUME NEW r, Formed(r), r # <<>>
  PROVE  Iterated(PortsIter(r), r, Len(r))
<1> DEFINE n == Len(r)
           q == [i \in DOMAIN r |-> Block(r[i])]
           V == Seq(Nat)
           g == [x \in V \X (2..n) |-> x[1] \o q[x[2]]]
           Body(f) == [i \in 1..n |-> IF i = 1 THEN q[i] ELSE f[i - 1] \o q[i]]
<1>1. n \in Nat \ {0} /\ DOMAIN r = 1..n
  <2>1. r \in Seq(Nat \X Nat)
    BY DEF Formed
  <2>2. QED
    BY <2>1
<1>2. \A i \in 1..n : q[i] = Block(r[i]) /\ q[i] \in V
  BY <1>1, BlockRight
<1>3. Len(q) = n
  <2>1. q \in [1..n -> V]
    BY <1>1, <1>2
  <2> HIDE DEF q, V
  <2>2. QED
    BY <1>1, <2>1
<1> HIDE DEF q
<1>4. \A v \in V : \A i \in 2..n : g[<<v, i>>] \in V
  <2>1. \A i \in 2..n : i \in 1..n
    BY <1>1
  <2>2. QED
    BY <1>2, <2>1
<1>5. PICK f : Recursive(f, 1, n, V, q[1], g)
  <2> HIDE DEF g, n, V
  <2>1. 1 \in Nat /\ n \in Nat /\ 1 <= n /\ 1 + 1 = 2 /\ 1 \in 1..n
    BY <1>1
  <2>2. Stays(g, 1, n, V)
    BY <1>4, <2>1 DEF Stays
  <2>3. q[1] \in V
    BY <1>2, <2>1
  <2>4. QED
    BY <2>1, <2>2, <2>3, Recursion, Zenon
<1>6. f \in [1..n -> V] /\ f[1] = q[1]
  BY <1>5 DEF Recursive
<1>7. \A i \in 2..n : f[i] = f[i - 1] \o q[i]
  <2>1. SUFFICES ASSUME NEW i \in 2..n PROVE f[i] = f[i - 1] \o q[i]
    OBVIOUS
  <2>2. i - 1 \in 1..n
    BY <1>1
  <2>3. f[i - 1] \in V /\ f[i] = g[<<f[i - 1], i>>]
    <3> HIDE DEF g, n, V
    <3>1. 1 + 1 = 2
      OBVIOUS
    <3>2. QED
      BY <1>5, <2>2, <3>1 DEF Recursive
  <2>4. QED
    BY <2>3
<1>8. f = Body(f)
  <2> HIDE DEF g, V
  <2>1. \A k \in 1..n : k # 1 => k \in 2..n
    BY <1>1
  <2>2. QED
    BY <1>6, <1>7, <2>1
<1> DEFINE F == CHOOSE f1 : f1 = Body(f1)
<1>9. PortsIter(r) = F[n]
  <2>1. PortsIter(r) = FlattenSeq(q)
    BY DEF PortsIter, q, Block
  <2>2. FlattenSeq(q) = F[n]
    BY <1>1, <1>3 DEF FlattenSeq
  <2>3. QED
    BY <2>1, <2>2
<1>10. F = Body(F)
  <2> HIDE DEF Body
  <2>1. QED
    BY <1>8
<1>11. F[1] = q[1] /\ \A i \in 2..n : F[i] = F[i - 1] \o q[i]
  <2> HIDE DEF F, n
  <2>1. 1 \in 1..n /\ \A i \in 2..n : i \in 1..n /\ i # 1
    BY <1>1
  <2>2. QED
    BY <1>10, <2>1
<1> HIDE DEF F
<1> DEFINE S == {i \in Nat : Iterated(F[i], r, i)}
<1>12. 1 \in S
  <2>1. 1 \in 1..n /\ 1 - 1 = 0
    BY <1>1
  <2> DEFINE m == RangeLen(r[1])
             b == Block(r[1])
             B == Before(r)
  <2>2. m \in Nat /\ B[0] = 0 /\ B[1] = m /\ r[1][1] \in Nat
    <3>1. m \in Nat /\ B[0] = 0 /\ B[1] = B[0] + m /\ r[1][1] \in Nat
      BY <2>1, RangeParts, BeforeRight
    <3> HIDE DEF m, B
    <3>2. QED
      BY <3>1
  <2>3. b \in Seq(Nat) /\ Len(b) = m /\ \A k \in 1..m : b[k] = r[1][1] + k - 1
    BY <2>1, BlockRight
  <2>4. ASSUME NEW k \in 1..m PROVE At(r, b, k, 1)
    <3>1. 0 < k /\ k <= m /\ k - 0 = k
      BY <2>2
    <3> HIDE DEF b
    <3>2. QED
      BY <2>1, <2>2, <2>3, <3>1 DEF At
  <2>5. F[1] = b
    BY <1>2, <1>11, <2>1
  <2>6. Iterated(b, r, 1)
    <3> HIDE DEF b, m
    <3>1. 1 \in 1..1
      OBVIOUS
    <3>2. QED
      BY <2>2, <2>3, <2>4, <3>1 DEF Iterated
  <2>7. QED
    BY <2>5, <2>6
<1>13. ASSUME NEW i \in 1..(n - 1), i \in S PROVE i + 1 \in S
  <2>1. i + 1 \in 2..n /\ i + 1 \in 1..n /\ (i + 1) - 1 = i /\ i + 1 \in Nat
    BY <1>1
  <2>2. F[i + 1] = F[i] \o Block(r[i + 1])
    BY <1>2, <1>11, <2>1
  <2>3. Iterated(F[i] \o Block(r[i + 1]), r, i + 1)
    BY <1>13, IteratedStep
  <2>4. QED
    BY <2>1, <2>2, <2>3
<1>14. n \in S
  <2> HIDE DEF S, n
  <2>1. 1 \in Nat /\ n \in Nat /\ n \in 1..n
    BY <1>1
  <2>2. \A i \in 1..n : i \in S
    BY <1>12, <1>13, <2>1, Induction
  <2>3. QED
    BY <2>1, <2>2
<1>15. QED
  BY <1>9, <1>14

(* A number lies between the sums before and after one range only.         *)
LEMMA OneBlock ==
  ASSUME NEW r, Formed(r), NEW k \in Nat,
         NEW i \in 1..Len(r), Before(r)[i - 1] < k, k <= Before(r)[i],
         NEW j \in 1..Len(r), Before(r)[j - 1] < k, k <= Before(r)[j]
  PROVE  i = j
<1> DEFINE B == Before(r)
           n == Len(r)
<1>1. n \in Nat /\ B \in [0..n -> Nat]
  BY BeforeRight, RangeParts
<1>2. \A x \in 0..n : \A y \in 0..n : x <= y => B[x] <= B[y]
  BY BeforeGrows
<1>3. /\ i \in 1..n /\ B[i - 1] < k /\ k <= B[i]
      /\ j \in 1..n /\ B[j - 1] < k /\ k <= B[j]
  OBVIOUS
<1> HIDE DEF B, n
<1>4. i - 1 \in 0..n /\ i \in 0..n /\ j - 1 \in 0..n /\ j \in 0..n
  BY <1>1, <1>3
<1>5. /\ B[i - 1] \in Nat /\ B[i] \in Nat /\ B[j - 1] \in Nat /\ B[j] \in Nat
  BY <1>1, <1>4
<1>6. ~(i <= j - 1)
  BY <1>2, <1>3, <1>4, <1>5
<1>7. ~(j <= i - 1)
  BY <1>2, <1>3, <1>4, <1>5
<1>8. QED
  BY <1>1, <1>3, <1>6, <1>7

(* The position of a port is the number of ports before its range, and its *)
(* place in the range.                                                     *)
LEMMA Positions ==
  ASSUME NEW r, Formed(r), r # <<>>
  PROVE  LET a == PortsIter(r)
         IN /\ a \in Seq(Nat)
            /\ \A k \in 1..Len(a) : \E j \in 1..Len(r) :
                  /\ r[j][1] <= a[k] /\ a[k] <= r[j][2]
                  /\ k - 1 = Before(r)[j - 1] + a[k] - r[j][1]
            /\ \A j \in 1..Len(r) : \A x \in Nat :
                  r[j][1] <= x /\ x <= r[j][2] =>
                    \E k \in 1..Len(a) : a[k] = x
<1> DEFINE a == PortsIter(r)
           n == Len(r)
           B == Before(r)
<1>1. /\ n \in Nat /\ B \in [0..n -> Nat] /\ B[0] = 0
      /\ \A j \in 1..n : B[j] = B[j - 1] + RangeLen(r[j])
      /\ \A j \in 1..n : /\ r[j][1] \in Nat /\ r[j][2] \in Nat /\ r[j][1] <= r[j][2]
                         /\ RangeLen(r[j]) \in Nat
  BY BeforeRight, RangeParts
<1>2. /\ a \in Seq(Nat) /\ Len(a) = B[n]
      /\ \A k \in 1..Len(a) : \E j \in 1..n : At(r, a, k, j)
  BY PortsIterRight DEF Iterated
<1>3. \A j \in 1..n : j - 1 \in 0..n /\ j \in 0..n /\ n \in 0..n
  BY <1>1
<1>4. \A j \in 1..n : B[j - 1] \in Nat /\ B[j] \in Nat /\ B[j] <= B[n]
  <2>1. SUFFICES ASSUME NEW j \in 1..n
                 PROVE  B[j - 1] \in Nat /\ B[j] \in Nat /\ B[j] <= B[n]
    OBVIOUS
  <2>2. j - 1 \in 0..n /\ j \in 0..n /\ n \in 0..n /\ j <= n
    BY <1>1
  <2>3. B[j] <= B[n]
    BY <2>2, BeforeGrows
  <2> HIDE DEF B, n
  <2>4. QED
    BY <1>1, <2>2, <2>3
<1>5. \A b, k, f, l, v \in Nat :
        b < k /\ k <= b + (l - f + 1) /\ v = f + (k - b) - 1 =>
          f <= v /\ v <= l /\ k - 1 = b + v - f
  OBVIOUS
<1> HIDE DEF a, B, n
<1>6. ASSUME NEW k \in 1..Len(a)
      PROVE  \E j \in 1..n : /\ r[j][1] <= a[k] /\ a[k] <= r[j][2]
                             /\ k - 1 = B[j - 1] + a[k] - r[j][1]
  <2>1. PICK j \in 1..n : At(r, a, k, j)
    BY <1>2
  <2>2. B[j - 1] < k /\ k <= B[j] /\ a[k] = r[j][1] + (k - B[j - 1]) - 1
    BY <2>1 DEF At, B
  <2>3. B[j] = B[j - 1] + (r[j][2] - r[j][1] + 1)
    BY <1>1 DEF RangeLen
  <2>4. k \in Nat /\ a[k] \in Nat
    BY <1>2, ElementOfSeq
  <2>5. B[j - 1] \in Nat /\ r[j][1] \in Nat /\ r[j][2] \in Nat
    BY <1>1, <1>4
  <2>6. r[j][1] <= a[k] /\ a[k] <= r[j][2] /\ k - 1 = B[j - 1] + a[k] - r[j][1]
    <3> DEFINE b == B[j - 1]
               f == r[j][1]
               l == r[j][2]
               v == a[k]
    <3>1. /\ b \in Nat /\ k \in Nat /\ f \in Nat /\ l \in Nat /\ v \in Nat
          /\ b < k /\ k <= b + (l - f + 1) /\ v = f + (k - b) - 1
      BY <2>2, <2>3, <2>4, <2>5
    <3> HIDE DEF b, f, l, v
    <3>2. f <= v /\ v <= l /\ k - 1 = b + v - f
      BY <1>5, <3>1
    <3>3. QED
      BY <3>2 DEF b, f, l, v
  <2>7. QED
    BY <2>6
<1>7. ASSUME NEW j \in 1..n, NEW x \in Nat, r[j][1] <= x, x <= r[j][2]
      PROVE  \E k \in 1..Len(a) : a[k] = x
  <2> DEFINE b == B[j - 1]
             c == B[j]
             d == B[n]
             f == r[j][1]
             l == r[j][2]
             k == b + (x - f) + 1
  <2>1. /\ b \in Nat /\ c \in Nat /\ d \in Nat /\ f \in Nat /\ l \in Nat /\ c <= d
        /\ c = b + (l - f + 1) /\ f <= x /\ x <= l
    BY <1>1, <1>3, <1>4, <1>7 DEF RangeLen
  <2> HIDE DEF b, c, d, f, l
  <2>2. k \in 1..d /\ b < k /\ k <= c /\ k \in Nat /\ x = f + (k - b) - 1
    BY <2>1
  <2> HIDE DEF k
  <2>3. k \in 1..Len(a)
    BY <1>2, <2>2 DEF d
  <2>4. PICK i \in 1..n : At(r, a, k, i)
    BY <1>2, <2>3
  <2>5. i = j
    <3>1. Before(r)[i - 1] < k /\ k <= Before(r)[i]
      BY <2>4 DEF At
    <3>2. Before(r)[j - 1] < k /\ k <= Before(r)[j]
      BY <2>2 DEF b, c, B
    <3>3. i \in 1..Len(r) /\ j \in 1..Len(r)
      BY DEF n
    <3>4. QED
      BY <2>2, <3>1, <3>2, <3>3, OneBlock
  <2>6. a[k] = f + (k - b) - 1
    BY <2>4, <2>5 DEF At, f, b, B
  <2>7. QED
    BY <2>2, <2>3, <2>6
<1>8. QED
  BY <1>2, <1>6, <1>7 DEF a, B, n

LEMMA OneRange ==
  ASSUME NEW r, Formed(r), NEW x \in Nat,
         NEW i \in 1..Len(r), r[i][1] <= x, x <= r[i][2],
         NEW j \in 1..Len(r), r[j][1] <= x, x <= r[j][2]
  PROVE  i = j
<1>1. /\ Len(r) \in Nat
      /\ r[i][1] \in Nat /\ r[i][2] \in Nat /\ r[j][1] \in Nat /\ r[j][2] \in Nat
  BY RangeParts
<1>2. ~(i < j) /\ ~(j < i)
  <2>1. /\ i < j => r[i][2] < r[j][1]
        /\ j < i => r[j][2] < r[i][1]
    BY DEF Formed
  <2>2. QED
    BY <1>1, <2>1
<1>3. QED
  BY <1>1, <1>2

(* Iteration yields the ports of the set, each of them once, in ascending  *)
(* order (PortSet::iter of the ranges that PortSet::from_str makes).       *)
THEOREM PortsIterExact ==
  ASSUME NEW P \in SUBSET Nat, IsFiniteSet(P), P # {}
  PROVE  LET all == PortsIter(Ranges(P))
         IN /\ all \in Seq(Nat) /\ ToSet(all) = P
            /\ Increasing(all)
<1> DEFINE r == Ranges(P)
           a == PortsIter(r)
<1>1. Formed(r) /\ \A x \in Nat : x \in P <=> Covers(r, x)
  BY RangesRight
<1>2. r # <<>>
  <2>1. PICK x \in P : Covers(r, x)
    BY <1>1
  <2> HIDE DEF r
  <2>2. QED
    BY <2>1 DEF Covers
<1> HIDE DEF r
<1> DEFINE B == Before(r)
<1>3. /\ a \in Seq(Nat)
      /\ \A k \in 1..Len(a) : \E j \in 1..Len(r) :
            /\ r[j][1] <= a[k] /\ a[k] <= r[j][2]
            /\ k - 1 = B[j - 1] + a[k] - r[j][1]
      /\ \A j \in 1..Len(r) : \A x \in Nat :
            r[j][1] <= x /\ x <= r[j][2] => \E k \in 1..Len(a) : a[k] = x
  BY <1>1, <1>2, Positions
<1>4. DOMAIN a = 1..Len(a) /\ \A k \in 1..Len(a) : a[k] \in Nat
  BY <1>3
<1>5. /\ Len(r) \in Nat /\ B \in [0..Len(r) -> Nat]
      /\ \A j \in 1..Len(r) : r[j][1] \in Nat /\ r[j][2] \in Nat
      /\ \A j \in 1..Len(r) : B[j] = B[j - 1] + RangeLen(r[j])
  BY <1>1, BeforeRight, RangeParts
<1> HIDE DEF a, B
<1>6. ToSet(a) = P
  <2>1. ASSUME NEW k \in 1..Len(a) PROVE a[k] \in P
    BY <1>1, <1>3, <1>4 DEF Covers
  <2>2. ASSUME NEW x \in P PROVE \E k \in 1..Len(a) : a[k] = x
    BY <1>1, <1>3 DEF Covers
  <2>3. QED
    BY <1>4, <2>1, <2>2 DEF ToSet
<1>7. ASSUME NEW k \in 1..Len(a), NEW l \in 1..Len(a), k < l PROVE a[k] < a[l]
  <2>1. PICK i \in 1..Len(r) :
              /\ r[i][1] <= a[k] /\ a[k] <= r[i][2] /\ k - 1 = B[i - 1] + a[k] - r[i][1]
    BY <1>3
  <2>2. PICK j \in 1..Len(r) :
              /\ r[j][1] <= a[l] /\ a[l] <= r[j][2] /\ l - 1 = B[j - 1] + a[l] - r[j][1]
    BY <1>3
  <2>3. i - 1 \in 0..Len(r) /\ j - 1 \in 0..Len(r) /\ j \in 0..Len(r)
    BY <1>5
  <2>4. /\ B[i - 1] \in Nat /\ B[j - 1] \in Nat /\ B[j] \in Nat
        /\ r[i][1] \in Nat /\ r[i][2] \in Nat /\ r[j][1] \in Nat /\ r[j][2] \in Nat
        /\ a[k] \in Nat /\ a[l] \in Nat /\ k \in Nat /\ l \in Nat
    <3>1. k \in Nat /\ l \in Nat /\ a[k] \in Nat /\ a[l] \in Nat
      BY SMTT(30), <1>3, ElementOfSeq
    <3>2. QED
      BY <1>5, <2>3, <3>1
  <2>5. CASE i < j
    <3>1. r[i][2] < r[j][1]
      BY <1>1, <2>5 DEF Formed
    <3>2. \A x, y, z, v \in Nat : x <= y /\ y < z /\ z <= v => x < v
      OBVIOUS
    <3>3. QED
      BY <2>1, <2>2, <2>4, <3>1, <3>2
  <2>6. CASE i = j
    <3>1. \A b, x, y, f \in Nat :
            k - 1 = b + x - f /\ l - 1 = b + y - f => x < y
      BY <1>7, <2>4
    <3>2. QED
      BY ZenonT(30), <2>1, <2>2, <2>4, <2>6, <3>1
  <2>7. CASE j < i
    <3>1. B[j] <= B[i - 1]
      <4>1. j <= i - 1
        BY <2>7
      <4>2. QED
        BY <1>1, <2>3, <4>1, BeforeGrows DEF B
    <3>2. B[j] = B[j - 1] + (r[j][2] - r[j][1] + 1)
      BY <1>5 DEF RangeLen
    <3>3. \A b, c, d, x, y, f1, f2, l2 \in Nat :
            /\ k - 1 = b + x - f1 /\ f1 <= x
            /\ l - 1 = c + y - f2 /\ y <= l2
            /\ d = c + (l2 - f2 + 1) /\ d <= b
            => FALSE
      BY <1>7, <2>4
    <3>4. QED
      BY ZenonT(30), <2>1, <2>2, <2>4, <3>1, <3>2, <3>3
  <2>8. QED
    BY <1>5, <2>5, <2>6, <2>7
<1>8. Increasing(a)
  BY <1>4, <1>7 DEF Increasing
<1>9. QED
  BY <1>3, <1>6, <1>8 DEF a, r

-----------------------------------------------------------------------------
(* The shard of a port.                                                    *)

LEMMA ShardInRange ==
  ASSUME NEW r, Formed(r), NEW x \in Nat, NEW p \in Nat \ {0},
         NEW j \in 1..Len(r), r[j][1] <= x, x <= r[j][2]
  PROVE  /\ Before(r)[j - 1] + x - r[j][1] \in Nat
         /\ ShardForPort(r, x, p) = (Before(r)[j - 1] + x - r[j][1]) % p
<1> DEFINE at == {i \in DOMAIN r : x \in r[i][1]..r[i][2]}
<1>1. /\ DOMAIN r = 1..Len(r) /\ Len(r) \in Nat
      /\ \A i \in 1..Len(r) : r[i][1] \in Nat /\ r[i][2] \in Nat
      /\ Before(r) \in [0..Len(r) -> Nat]
  BY BeforeRight, RangeParts
<1>2. at = {j}
  <2>1. ASSUME NEW i \in at PROVE i = j
    <3>1. i \in 1..Len(r) /\ r[i][1] <= x /\ x <= r[i][2]
      BY <1>1
    <3>2. QED
      BY <3>1, OneRange
  <2>2. j \in at
    BY <1>1
  <2>3. QED
    BY <2>1, <2>2
<1>3. Min(at) = j
  <2>1. j \in Nat /\ j <= j
    OBVIOUS
  <2>2. QED
    BY <1>2, <2>1 DEF Min
<1>4. ShardForPort(r, x, p) =
        IF at = {} THEN x % p
        ELSE (Before(r)[Min(at) - 1] + x - r[Min(at)][1]) % p
  BY DEF ShardForPort
<1>5. at # {}
  BY <1>2
<1> HIDE DEF at
<1>6. Before(r)[j - 1] + x - r[j][1] \in Nat
  <2>1. j - 1 \in 0..Len(r) /\ r[j][1] \in Nat
    BY <1>1
  <2>2. Before(r)[j - 1] \in Nat
    BY <1>1, <2>1
  <2>3. \A b, f \in Nat : f <= x => b + x - f \in Nat
    OBVIOUS
  <2>4. QED
    BY <2>1, <2>2, <2>3
<1>7. QED
  BY <1>3, <1>4, <1>5, <1>6, Zenon

LEMMA ShardType ==
  ASSUME NEW r, Formed(r), NEW x \in Nat, NEW p \in Nat \ {0}
  PROVE  ShardForPort(r, x, p) \in 0..(p - 1)
<1>1. \A y \in Nat : y % p \in 0..(p - 1)
  OBVIOUS
<1>2. CASE \E j \in 1..Len(r) : r[j][1] <= x /\ x <= r[j][2]
  <2>1. PICK j \in 1..Len(r) : r[j][1] <= x /\ x <= r[j][2]
    BY <1>2
  <2> DEFINE y == Before(r)[j - 1] + x - r[j][1]
  <2>2. y \in Nat /\ ShardForPort(r, x, p) = y % p
    BY <2>1, ShardInRange
  <2> HIDE DEF y
  <2>3. QED
    BY <1>1, <2>2
<1>3. CASE ~ \E j \in 1..Len(r) : r[j][1] <= x /\ x <= r[j][2]
  <2>1. {i \in DOMAIN r : x \in r[i][1]..r[i][2]} = {}
    BY <1>3, RangeParts
  <2>2. ShardForPort(r, x, p) = x % p
    BY <2>1 DEF ShardForPort
  <2>3. QED
    BY <1>1, <2>2
<1>4. QED
  BY <1>2, <1>3

(* Worker w steps over the ports whose shard is w, and no others: the      *)
(* stride of iteration (skip, step_by) and the ordinal of shard_for_port   *)
(* name the same worker.                                                   *)
THEOREM StrideIsShard ==
  ASSUME NEW r, Formed(r), r # <<>>, NEW x \in Nat,
         NEW p \in Nat \ {0}, NEW w \in 0..(p - 1)
  PROVE  x \in Stride(r, w, p) <=>
           x \in ToSet(PortsIter(r)) /\ ShardForPort(r, x, p) = w
<1> DEFINE a == PortsIter(r)
<1>1. /\ a \in Seq(Nat) /\ DOMAIN a = 1..Len(a)
      /\ \A k \in 1..Len(a) : \E j \in 1..Len(r) :
            /\ r[j][1] <= a[k] /\ a[k] <= r[j][2]
            /\ k - 1 = Before(r)[j - 1] + a[k] - r[j][1]
  BY Positions
<1> HIDE DEF a
<1>2. ASSUME NEW k \in 1..Len(a)
      PROVE  (k > w /\ (k - 1 - w) % p = 0) <=> ShardForPort(r, a[k], p) = w
  <2>1. PICK j \in 1..Len(r) : /\ r[j][1] <= a[k] /\ a[k] <= r[j][2]
                               /\ k - 1 = Before(r)[j - 1] + a[k] - r[j][1]
    BY <1>1
  <2>2. a[k] \in Nat
    BY <1>1, ElementOfSeq
  <2>3. ShardForPort(r, a[k], p) = (k - 1) % p
    <3>1. ShardForPort(r, a[k], p) = (Before(r)[j - 1] + a[k] - r[j][1]) % p
      BY <2>1, <2>2, ShardInRange
    <3>2. QED
      BY <2>1, <3>1, Zenon
  <2> DEFINE b == k - 1
  <2>4. b \in Nat /\ (k > w <=> b >= w)
    OBVIOUS
  <2> HIDE DEF b
  <2>5. (b >= w /\ (b - w) % p = 0) <=> b % p = w
    BY <2>4, StrideRemainder
  <2>6. QED
    BY <2>3, <2>4, <2>5, Zenon DEF b
<1>3. Stride(r, w, p) = {a[k] : k \in {k \in DOMAIN a : k > w /\ (k - 1 - w) % p = 0}}
  BY DEF Stride, a
<1>4. ToSet(a) = {a[k] : k \in DOMAIN a}
  BY DEF ToSet
<1>5. ASSUME x \in Stride(r, w, p) PROVE x \in ToSet(a) /\ ShardForPort(r, x, p) = w
  <2>1. PICK k \in DOMAIN a : k > w /\ (k - 1 - w) % p = 0 /\ x = a[k]
    BY <1>3, <1>5
  <2>2. QED
    BY <1>1, <1>2, <1>4, <2>1
<1>6. ASSUME x \in ToSet(a), ShardForPort(r, x, p) = w PROVE x \in Stride(r, w, p)
  <2>1. PICK k \in DOMAIN a : x = a[k]
    BY <1>4, <1>6
  <2>2. k > w /\ (k - 1 - w) % p = 0
    BY <1>1, <1>2, <1>6, <2>1
  <2>3. QED
    BY <1>3, <2>1, <2>2
<1>7. QED
  BY <1>5, <1>6 DEF a

-----------------------------------------------------------------------------
(* The workers.                                                            *)

PortOk == Formed(ports) /\ ports # <<>>
InputType ==
  /\ processes \in Nat \ {0} /\ limit \in Nat /\ limit >= processes
  /\ started \in 0..processes
  /\ IsFiniteSet(DOMAIN targets.nets) /\ IsFiniteSet(DOMAIN targets.sockets)

Owner(j) == ShardForPort(ports, j[2], processes)
All(j)   == JobTimes(targets, ports, j[1], j[2])

(* A job belongs to the worker of its port, whatever kind of target it     *)
(* comes from: so far it was generated by that worker only.                *)
Assigned ==
  /\ given = [j \in Jobs |-> IF Owner(j) < started THEN All(j) ELSE 0]
  /\ owners \in [Jobs -> SUBSET Nat]
  /\ \A j \in Jobs : owners[j] \subseteq {Owner(j)}

(* The workers with a remainder come first.                                *)
SharedSoFar ==
  shared = started * (limit \div processes)
           + (IF started < limit % processes THEN started ELSE limit % processes)

ShardInv == PortOk /\ InputType /\ Assigned /\ SharedSoFar

LEMMA LineKinds ==
  ASSUME NEW l \in Lines
  PROVE  /\ IsNet(l) => l \in Nets
         /\ ~IsNet(l) => l \in [ip : Space, port : Port]
<1>1. l \in Nets \/ l \in [ip : Space, port : Port]
  BY ShardingAssumption
<1>2. l \in Nets => IsNet(l)
  BY DEF Nets, IsNet
<1>3. l \in [ip : Space, port : Port] => ~IsNet(l)
  BY DEF IsNet
<1>4. QED
  BY <1>1, <1>2, <1>3

LEMMA PortsFinite == IsFiniteSet(Port) /\ Port \subseteq Nat
<1>1. LastPort \in Int
  BY DEF LastPort
<1>2. QED
  BY <1>1, FS_Interval DEF Port

LEMMA JobPort ==
  ASSUME NEW j \in Jobs
  PROVE  j[2] \in Nat
<1>1. j[2] \in AllPorts
  BY DEF Jobs
<1>2. AllPorts \subseteq Port
  BY ShardingAssumption, LineKinds DEF AllPorts
<1>3. QED
  BY <1>1, <1>2, PortsFinite

LEMMA TimesType ==
  ASSUME InputType, NEW ip, NEW port
  PROVE  IpTimes(targets, ip) \in Nat /\ SocketTimes(targets, ip, port) \in Nat
<1> DEFINE N == {i \in DOMAIN targets.nets : ip \in Hosts(targets.nets[i])}
           S == {i \in DOMAIN targets.sockets :
                    targets.sockets[i] = [ip |-> ip, port |-> port]}
<1>1. IsFiniteSet(DOMAIN targets.nets) /\ IsFiniteSet(DOMAIN targets.sockets)
  BY DEF InputType
<1>2. Cardinality(N) \in Nat
  <2>1. N \in SUBSET (DOMAIN targets.nets)
    OBVIOUS
  <2> HIDE DEF N
  <2>2. QED
    BY <1>1, <2>1, FS_Subset, FS_CardinalityType
<1>3. Cardinality(S) \in Nat
  <2>1. S \in SUBSET (DOMAIN targets.sockets)
    OBVIOUS
  <2> HIDE DEF S
  <2>2. QED
    BY <1>1, <2>1, FS_Subset, FS_CardinalityType
<1>4. QED
  BY <1>2, <1>3 DEF IpTimes, SocketTimes

(* A worker generates a job as often as a single process would, or not.    *)
LEMMA ShardTimesRight ==
  ASSUME PortOk, InputType, NEW j \in Jobs, NEW w \in 0..(processes - 1)
  PROVE  /\ All(j) \in Nat
         /\ ShardTimes(targets, ports, j[1], j[2], w, processes) =
              IF Owner(j) = w THEN All(j) ELSE 0
<1> DEFINE i == IpTimes(targets, j[1])
           s == SocketTimes(targets, j[1], j[2])
           in == j[2] \in ToSet(PortsIter(ports))
<1>1. i \in Nat /\ s \in Nat
  BY TimesType
<1>2. j[2] \in Stride(ports, w, processes) <=> in /\ Owner(j) = w
  <2>1. j[2] \in Nat /\ processes \in Nat \ {0}
    BY JobPort DEF InputType
  <2>2. QED
    BY <2>1, StrideIsShard DEF PortOk, Owner
<1>3. All(j) = s + (IF in THEN i ELSE 0)
  BY DEF All, JobTimes
<1>4. ShardTimes(targets, ports, j[1], j[2], w, processes) =
        (IF Owner(j) = w THEN s ELSE 0) + (IF in /\ Owner(j) = w THEN i ELSE 0)
  BY <1>2 DEF ShardTimes, Owner
<1> HIDE DEF i, s, in
<1>5. CASE Owner(j) = w
  BY <1>1, <1>3, <1>4, <1>5
<1>6. CASE Owner(j) # w
  BY <1>1, <1>3, <1>4, <1>6
<1>7. QED
  BY <1>5, <1>6

LEMMA PortSetRight ==
  ASSUME NEW P \in PortSets
  PROVE  P \in SUBSET Nat /\ P # {} /\ IsFiniteSet(P)
<1>1. P \subseteq Port /\ P # {}
  BY ShardingAssumption
<1>2. QED
  BY <1>1, PortsFinite, FS_Subset

LEMMA ShardInit == Init => ShardInv
<1> SUFFICES ASSUME Init PROVE ShardInv
  OBVIOUS
<1>1. PortOk
  <2>1. PICK P \in PortSets : ports = Ranges(P)
    BY DEF Init
  <2>2. P \in SUBSET Nat /\ P # {} /\ IsFiniteSet(P)
    BY <2>1, PortSetRight
  <2>3. Formed(Ranges(P)) /\ \A x \in Nat : x \in P <=> Covers(Ranges(P), x)
    BY <2>2, RangesRight
  <2>4. PICK x \in P : Covers(Ranges(P), x)
    BY <2>2, <2>3
  <2>5. Ranges(P) # <<>>
    BY <2>4 DEF Covers
  <2>6. QED
    BY <2>1, <2>3, <2>5 DEF PortOk
<1>2. InputType
  <2>1. processes \in Nat \ {0} /\ limit \in Nat /\ limit >= processes /\ started = 0
    BY ShardingAssumption DEF Init, ValidLimit
  <2>2. PICK lines \in SeqOf(Lines, MaxLines) : \E x : targets = Parse(lines, x)
    BY DEF Init
  <2>3. PICK m \in 0..MaxLines : lines \in [1..m -> Lines]
    BY <2>2 DEF SeqOf
  <2>4. IsFiniteSet(1..m)
    BY <2>3, ShardingAssumption, FS_Interval
  <2>5. /\ DOMAIN targets.nets \in SUBSET (1..m)
        /\ DOMAIN targets.sockets \in SUBSET (1..m)
    BY <2>2, <2>3 DEF Parse, Restrict
  <2>6. IsFiniteSet(DOMAIN targets.nets) /\ IsFiniteSet(DOMAIN targets.sockets)
    BY <2>4, <2>5, FS_Subset
  <2>7. started \in 0..processes
    BY <2>1
  <2>8. QED
    BY <2>1, <2>6, <2>7 DEF InputType
<1>3. Assigned
  <2>1. started = 0 /\ given = [j \in Jobs |-> 0] /\ owners = [j \in Jobs |-> {}]
    BY DEF Init
  <2>2. ASSUME NEW j \in Jobs PROVE ~(Owner(j) < started)
    <3>1. Owner(j) \in 0..(processes - 1) /\ processes \in Nat
      BY <1>1, <1>2, JobPort, ShardType DEF Owner, PortOk, InputType
    <3> HIDE DEF Owner
    <3>2. QED
      BY <2>1, <3>1
  <2>3. QED
    BY <2>1, <2>2 DEF Assigned
<1>4. SharedSoFar
  <2> DEFINE q == limit \div processes
             m == limit % processes
  <2>1. q \in Int /\ m \in Nat
    BY <1>2 DEF InputType
  <2>2. started = 0 /\ shared = 0
    BY DEF Init
  <2> HIDE DEF q, m
  <2>3. shared = started * q + (IF started < m THEN started ELSE m)
    BY <2>1, <2>2
  <2>4. QED
    BY <2>3 DEF SharedSoFar, q, m
<1>5. QED
  BY <1>1, <1>2, <1>3, <1>4 DEF ShardInv

LEMMA AssignedStep ==
  ASSUME PortOk, InputType, Assigned, StartWorker
  PROVE  Assigned'
<1> DEFINE w == started
           times(j) == ShardTimes(targets, ports, j[1], j[2], w, processes)
<1>1. w \in 0..(processes - 1) /\ w \in Nat
  BY DEF StartWorker, InputType
<1>2. \A j \in Jobs : All(j) \in Nat /\ times(j) = IF Owner(j) = w THEN All(j) ELSE 0
  BY <1>1, ShardTimesRight
<1>3. \A j \in Jobs : Owner(j) \in Nat
  <2>1. ASSUME NEW j \in Jobs PROVE Owner(j) \in Nat
    <3>1. Owner(j) \in 0..(processes - 1)
      BY JobPort, ShardType DEF Owner, PortOk, InputType
    <3> HIDE DEF Owner
    <3>2. QED
      BY <3>1
  <2>2. QED
    BY <2>1
<1>4. /\ started' = w + 1
      /\ given' = [j \in Jobs |-> given[j] + times(j)]
      /\ owners' = [j \in Jobs |-> owners[j] \cup {v \in {w} : times(j) > 0}]
  BY DEF StartWorker
<1>5. \A j : Owner(j)' = Owner(j) /\ All(j)' = All(j)
  BY DEF StartWorker, input, Owner, All
<1>6. Jobs' = Jobs
  OBVIOUS
<1> HIDE DEF times, w
<1>7. ASSUME NEW j \in Jobs
      PROVE  given[j] + times(j) = IF Owner(j) < w + 1 THEN All(j) ELSE 0
  <2>1. given[j] = IF Owner(j) < w THEN All(j) ELSE 0
    BY DEF Assigned, w
  <2>2. \A a, o \in Nat :
          (IF o < w THEN a ELSE 0) + (IF o = w THEN a ELSE 0) = IF o < w + 1 THEN a ELSE 0
    BY <1>1
  <2>3. QED
    BY <1>2, <1>3, <2>1, <2>2
<1>8. ASSUME NEW j \in Jobs
      PROVE  /\ owners[j] \cup {v \in {w} : times(j) > 0} \subseteq {Owner(j)}
             /\ owners[j] \cup {v \in {w} : times(j) > 0} \in SUBSET Nat
  <2>1. owners[j] \subseteq {Owner(j)} /\ owners[j] \in SUBSET Nat
    BY DEF Assigned
  <2>2. times(j) > 0 => Owner(j) = w
    BY <1>2
  <2>3. QED
    BY <1>1, <2>1, <2>2
<1>9. given' = [j \in Jobs |-> IF Owner(j)' < started' THEN All(j)' ELSE 0]
  BY <1>4, <1>5, <1>7
<1>10. owners' \in [Jobs -> SUBSET Nat] /\ \A j \in Jobs : owners'[j] \subseteq {Owner(j)'}
  BY <1>4, <1>5, <1>8
<1>11. QED
  BY <1>6, <1>9, <1>10 DEF Assigned

LEMMA SharedStep ==
  ASSUME InputType, SharedSoFar, StartWorker
  PROVE  SharedSoFar'
<1> DEFINE q == limit \div processes
           m == limit % processes
<1>1. q \in Int /\ m \in Nat /\ started \in Nat
  BY DEF InputType
<1>2. /\ shared' = shared + q + (IF started < m THEN 1 ELSE 0)
      /\ started' = started + 1
  <2>1. shared' = shared + (q + (IF started < m THEN 1 ELSE 0)) /\ started' = started + 1
    BY DEF StartWorker, Share
  <2> HIDE DEF q, m
  <2>2. shared \in Int
    <3>1. shared = started * q + (IF started < m THEN started ELSE m)
      BY DEF SharedSoFar, q, m
    <3>2. QED
      BY <1>1, <3>1
  <2>3. QED
    BY <1>1, <2>1, <2>2
<1>3. shared = started * q + (IF started < m THEN started ELSE m)
  BY DEF SharedSoFar
<1>4. q' = q /\ m' = m
  BY DEF StartWorker, input
<1>5. (started + 1) * q = started * q + q
  <2> HIDE DEF q
  <2>1. QED
    BY <1>1
<1> DEFINE u == started * q
           v == (started + 1) * q
<1>6. u \in Int /\ v = u + q /\ shared = u + (IF started < m THEN started ELSE m)
  <2> HIDE DEF q, m
  <2>1. QED
    BY <1>1, <1>3, <1>5
<1> HIDE DEF u, v, q, m
<1>7. shared' = v + (IF started + 1 < m THEN started + 1 ELSE m)
  BY <1>1, <1>2, <1>6
<1>8. shared' = started' * q' + (IF started' < m' THEN started' ELSE m')
  BY <1>2, <1>4, <1>7 DEF v
<1>9. QED
  BY <1>8 DEF SharedSoFar, q, m

LEMMA ShardStep == ShardInv /\ [Next]_vars => ShardInv'
<1> SUFFICES ASSUME ShardInv, [Next]_vars PROVE ShardInv'
  OBVIOUS
<1>1. CASE StartWorker
  <2>1. PortOk' /\ InputType'
    BY <1>1 DEF StartWorker, input, ShardInv, PortOk, InputType
  <2>2. Assigned'
    BY <1>1, AssignedStep DEF ShardInv
  <2>3. SharedSoFar'
    BY <1>1, SharedStep DEF ShardInv
  <2>4. QED
    BY <2>1, <2>2, <2>3 DEF ShardInv
<1>2. CASE UNCHANGED vars
  BY <1>2 DEF vars, input, ShardInv, PortOk, InputType, Assigned, SharedSoFar, Owner, All, Jobs,
     AllPorts
<1>3. QED
  BY <1>1, <1>2 DEF Next

LEMMA ShardInvariant == Spec => []ShardInv
<1>1. ShardInv /\ [Next]_vars => ShardInv'
  BY ShardStep
<1>2. QED
  BY ShardInit, <1>1, PTL DEF Spec

(* No two of the workers generate the same job (socket_targets_shard).     *)
THEOREM ShardsApart == Spec => []OneOwner
<1>1. ShardInv => OneOwner
  <2>1. SUFFICES ASSUME ShardInv, NEW j \in Jobs PROVE Cardinality(owners[j]) <= 1
    BY DEF OneOwner
  <2>2. owners[j] \in SUBSET {Owner(j)}
    BY <2>1 DEF ShardInv, Assigned
  <2>3. IsFiniteSet({Owner(j)}) /\ Cardinality({Owner(j)}) = 1
    BY FS_Singleton
  <2>4. QED
    BY <2>2, <2>3, FS_Subset
<1>2. QED
  BY <1>1, ShardInvariant, PTL

(* Together the workers generate what one process would, as often as it    *)
(* would; the shares of a limit add up to it, and none of them is zero.    *)
THEOREM ShardsComplete == Spec => []NothingLostInShards
<1>1. ShardInv => NothingLostInShards
  <2>1. SUFFICES ASSUME ShardInv PROVE NothingLostInShards
    OBVIOUS
  <2> DEFINE q == limit \div processes
             m == limit % processes
  <2>2. /\ started \in Nat /\ started <= processes /\ processes \in Nat \ {0}
        /\ limit \in Nat /\ limit >= processes
    BY <2>1 DEF ShardInv, InputType
  <2>3. q \in Int /\ m \in 0..(processes - 1) /\ limit = processes * q + m
    BY <2>2
  <2>4. shared = started * q + (IF started < m THEN started ELSE m)
    BY <2>1 DEF ShardInv, SharedSoFar
  <2> HIDE DEF q, m
  <2>5. q >= 1
    <3>1. ASSUME q <= 0 PROVE processes * q <= 0
      BY <2>2, <2>3, <3>1
    <3>2. QED
      BY <2>2, <2>3, <3>1
  <2>6. shared >= started
    <3>1. started * q >= started
      BY <2>2, <2>3, <2>5
    <3> DEFINE u == started * q
    <3>2. u \in Int /\ u >= started /\ shared = u + (IF started < m THEN started ELSE m)
      BY <2>2, <2>3, <2>4, <3>1
    <3> HIDE DEF u
    <3>3. QED
      BY <2>2, <2>3, <3>2
  <2>7. ASSUME started = processes PROVE shared = limit
    BY <2>2, <2>3, <2>4, <2>7
  <2>8. ASSUME started = processes, NEW j \in Jobs
        PROVE  given[j] = JobTimes(targets, ports, j[1], j[2])
    <3>1. Owner(j) \in 0..(processes - 1)
      BY <2>1, JobPort, ShardType DEF Owner, ShardInv, PortOk, InputType
    <3>2. given[j] = IF Owner(j) < started THEN All(j) ELSE 0
      BY <2>1 DEF ShardInv, Assigned
    <3> HIDE DEF Owner
    <3>3. Owner(j) < started
      BY <2>2, <2>8, <3>1
    <3>4. QED
      BY <3>2, <3>3 DEF All
  <2>9. QED
    BY <2>6, <2>7, <2>8 DEF NothingLostInShards
<1>2. QED
  BY <1>1, ShardInvariant, PTL
-----------------------------------------------------------------------------
(* Sums over finite sets.                                                  *)

(* The sums of a function over the subsets of its domain.                  *)
IsSum(g, f, S) ==
  /\ g \in [SUBSET S -> Nat] /\ g[{}] = 0
  /\ \A s \in SUBSET S : \A x \in s : g[s] = f[x] + g[s \ {x}]

LEMMA Smaller ==
  ASSUME NEW s, IsFiniteSet(s), NEW x \in s
  PROVE  /\ IsFiniteSet(s \ {x}) /\ Cardinality(s) \in Nat \ {0}
         /\ Cardinality(s \ {x}) = Cardinality(s) - 1
<1>1. Cardinality(s) \in Nat /\ s # {}
  BY FS_CardinalityType
<1>2. Cardinality(s) # 0
  BY <1>1, FS_EmptySet
<1>3. QED
  BY <1>1, <1>2, FS_RemoveElement

(* Where the order of a sum is chosen, the sum exists.                     *)
First(s) == CHOOSE x \in s : TRUE
Step(g, f, S) ==
  [s \in SUBSET S |-> IF s = {} THEN 0 ELSE f[First(s)] + g[s \ {First(s)}]]

LEMMA ChosenSum ==
  ASSUME NEW S, IsFiniteSet(S), NEW f \in [S -> Nat]
  PROVE  \E g \in [SUBSET S -> Nat] : g = Step(g, f, S)
<1> DEFINE Upto(k) == \E g \in [SUBSET S -> Nat] :
                        \A s \in SUBSET S : Cardinality(s) <= k => g[s] = Step(g, f, S)[s]
           K == {k \in Nat : Upto(k)}
           n == Cardinality(S)
<1>1. n \in Nat /\ \A s \in SUBSET S : IsFiniteSet(s) /\ Cardinality(s) \in Nat /\ Cardinality(s) <= n
  BY FS_CardinalityType, FS_Subset
<1>2. ASSUME NEW g \in [SUBSET S -> Nat] PROVE Step(g, f, S) \in [SUBSET S -> Nat]
  <2>1. SUFFICES ASSUME NEW s \in SUBSET S, s # {}
                 PROVE  f[First(s)] + g[s \ {First(s)}] \in Nat
    BY DEF Step
  <2>2. First(s) \in s
    BY <2>1 DEF First
  <2>3. f[First(s)] \in Nat /\ g[s \ {First(s)}] \in Nat
    BY <2>2
  <2>4. QED
    BY <2>3
<1>3. Upto(0)
  <2> DEFINE g == [s \in SUBSET S |-> 0]
             h == Step(g, f, S)
  <2>1. h \in [SUBSET S -> Nat]
    BY <1>2
  <2>2. ASSUME NEW s \in SUBSET S, Cardinality(s) <= 0 PROVE h[s] = Step(h, f, S)[s]
    <3>1. s = {}
      BY <1>1, <2>2, FS_EmptySet
    <3>2. QED
      BY <3>1 DEF Step
  <2> HIDE DEF h
  <2>3. QED
    BY <2>1, <2>2
<1>4. ASSUME NEW k \in 0..(n - 1), Upto(k) PROVE Upto(k + 1)
  <2>1. PICK g \in [SUBSET S -> Nat] :
              \A s \in SUBSET S : Cardinality(s) <= k => g[s] = Step(g, f, S)[s]
    BY <1>4
  <2> DEFINE h == Step(g, f, S)
  <2>2. h \in [SUBSET S -> Nat]
    BY <1>2
  <2>3. \A s \in SUBSET S : Cardinality(s) <= k => g[s] = h[s]
    BY <2>1
  <2>4. ASSUME NEW s \in SUBSET S, Cardinality(s) <= k + 1 PROVE h[s] = Step(h, f, S)[s]
    <3>1. CASE s = {}
      BY <3>1 DEF Step
    <3>2. CASE s # {}
      <4>1. First(s) \in s
        BY <3>2 DEF First
      <4>2. Cardinality(s \ {First(s)}) <= k /\ s \ {First(s)} \in SUBSET S
        <5>1. Cardinality(s \ {First(s)}) = Cardinality(s) - 1 /\ Cardinality(s) \in Nat
          BY <1>1, <4>1, Smaller
        <5>2. QED
          BY <2>4, <5>1
      <4>3. g[s \ {First(s)}] = h[s \ {First(s)}]
        BY <2>3, <4>2
      <4>4. h[s] = f[First(s)] + g[s \ {First(s)}]
        BY <3>2 DEF Step
      <4> HIDE DEF h
      <4>5. Step(h, f, S)[s] = f[First(s)] + h[s \ {First(s)}]
        BY <3>2 DEF Step
      <4>6. QED
        BY <4>3, <4>4, <4>5
    <3>3. QED
      BY <3>1, <3>2
  <2> HIDE DEF h
  <2>5. QED
    BY <2>2, <2>4
<1>5. n \in K
  <2>1. 0 \in K /\ \A k \in 0..(n - 1) : k \in K => k + 1 \in K
    <3> HIDE DEF Upto
    <3>1. QED
      BY <1>1, <1>3, <1>4
  <2> HIDE DEF K, n
  <2>2. \A k \in 0..n : k \in K
    BY <1>1, <2>1, Induction
  <2>3. QED
    BY <1>1, <2>2
<1>6. PICK g \in [SUBSET S -> Nat] :
            \A s \in SUBSET S : Cardinality(s) <= n => g[s] = Step(g, f, S)[s]
  BY <1>5
<1>7. \A s \in SUBSET S : g[s] = Step(g, f, S)[s]
  BY <1>1, <1>6
<1>8. g = Step(g, f, S)
  BY <1>7 DEF Step
<1>9. QED
  BY <1>8

(* The order does not matter.                                              *)
LEMMA AnyOrder ==
  ASSUME NEW S, IsFiniteSet(S), NEW f \in [S -> Nat], NEW g \in [SUBSET S -> Nat],
         g = Step(g, f, S)
  PROVE  IsSum(g, f, S)
<1> DEFINE Holds(s) == \A x \in s : g[s] = f[x] + g[s \ {x}]
           K == {k \in Nat : \A s \in SUBSET S : Cardinality(s) = k => Holds(s)}
           n == Cardinality(S)
<1>1. n \in Nat /\ \A s \in SUBSET S : IsFiniteSet(s) /\ Cardinality(s) \in Nat /\ Cardinality(s) <= n
  BY FS_CardinalityType, FS_Subset
<1>2. g[{}] = 0 /\ \A s \in SUBSET S : s # {} => g[s] = f[First(s)] + g[s \ {First(s)}]
  BY DEF Step
<1>3. 0 \in K
  <2>1. \A s \in SUBSET S : Cardinality(s) = 0 => s = {}
    BY <1>1, FS_EmptySet
  <2>2. QED
    BY <2>1
<1>4. ASSUME NEW k \in 0..(n - 1), k \in K PROVE k + 1 \in K
  <2>1. SUFFICES ASSUME NEW s \in SUBSET S, Cardinality(s) = k + 1, NEW x \in s
                 PROVE  g[s] = f[x] + g[s \ {x}]
    OBVIOUS
  <2> DEFINE c == First(s)
             a == s \ {c}
             b == s \ {x}
             d == s \ {c, x}
  <2>2. c \in s
    BY <2>1 DEF First
  <2>3. g[s] = f[c] + g[a]
    BY <1>2, <2>2
  <2>4. CASE x = c
    BY <2>3, <2>4
  <2>5. CASE x # c
    <3>1. Cardinality(a) = k /\ Cardinality(b) = k /\ a \in SUBSET S /\ b \in SUBSET S
      <4>1. Cardinality(a) = Cardinality(s) - 1 /\ Cardinality(b) = Cardinality(s) - 1
        BY <1>1, <2>2, Smaller
      <4>2. k \in Nat
        OBVIOUS
      <4> HIDE DEF a, b
      <4>3. Cardinality(a) = k /\ Cardinality(b) = k
        BY <2>1, <4>1, <4>2
      <4>4. a \in SUBSET S /\ b \in SUBSET S
        BY DEF a, b
      <4>5. QED
        BY <4>3, <4>4
    <3>2. Holds(a) /\ Holds(b)
      <4> HIDE DEF Holds, a, b
      <4>1. QED
        BY <1>4, <3>1
    <3>3. x \in a /\ c \in b /\ a \ {x} = d /\ b \ {c} = d /\ d \in SUBSET S
      BY <2>2, <2>5
    <3>4. g[a] = f[x] + g[d] /\ g[b] = f[c] + g[d]
      BY <3>2, <3>3
    <3>5. f[x] \in Nat /\ f[c] \in Nat /\ g[d] \in Nat
      BY <2>2, <3>3
    <3>6. \A u, v, w \in Nat : u + (v + w) = v + (u + w)
      OBVIOUS
    <3> HIDE DEF a, b, c, d
    <3>7. g[s] = f[c] + (f[x] + g[d])
      BY <2>3, <3>4
    <3>8. g[s] = f[x] + (f[c] + g[d])
      BY <3>5, <3>6, <3>7
    <3>9. g[s] = f[x] + g[b]
      BY <3>4, <3>8
    <3>10. QED
      BY <3>9 DEF b
  <2>6. QED
    BY <2>4, <2>5
<1>5. \A k \in 0..n : k \in K
  <2> HIDE DEF K, n
  <2>1. QED
    BY <1>1, <1>3, <1>4, Induction
<1>6. \A s \in SUBSET S : Holds(s)
  <2>1. SUFFICES ASSUME NEW s \in SUBSET S PROVE Holds(s)
    OBVIOUS
  <2>2. Cardinality(s) \in 0..n /\ Cardinality(s) \in K
    BY <1>1, <1>5
  <2> HIDE DEF Holds
  <2>3. QED
    BY <2>2
<1>7. QED
  BY <1>2, <1>6 DEF IsSum

(* What has the differences of a sum is the sum.                           *)
LEMMA SameSum ==
  ASSUME NEW S, IsFiniteSet(S), NEW f \in [S -> Nat],
         NEW g, IsSum(g, f, S), NEW h, IsSum(h, f, S)
  PROVE  g[S] = h[S]
<1> DEFINE K == {k \in Nat : \A s \in SUBSET S : Cardinality(s) = k => g[s] = h[s]}
           n == Cardinality(S)
<1>1. n \in Nat /\ \A s \in SUBSET S : IsFiniteSet(s)
  BY FS_CardinalityType, FS_Subset
<1>2. 0 \in K
  <2>1. \A s \in SUBSET S : Cardinality(s) = 0 => s = {}
    BY <1>1, FS_EmptySet
  <2>2. QED
    BY <2>1 DEF IsSum
<1>3. ASSUME NEW k \in 0..(n - 1), k \in K PROVE k + 1 \in K
  <2>1. SUFFICES ASSUME NEW s \in SUBSET S, Cardinality(s) = k + 1 PROVE g[s] = h[s]
    OBVIOUS
  <2>2. s # {}
    <3>1. Cardinality(s) # 0
      BY <2>1
    <3>2. QED
      BY <3>1, FS_EmptySet
  <2>3. PICK x \in s : TRUE
    BY <2>2
  <2>4. Cardinality(s \ {x}) = k
    <3>1. Cardinality(s \ {x}) = Cardinality(s) - 1
      BY <1>1, <2>3, Smaller
    <3>2. QED
      BY <2>1, <3>1
  <2>5. g[s \ {x}] = h[s \ {x}]
    BY <1>3, <2>4
  <2>6. QED
    BY <2>3, <2>5 DEF IsSum
<1>4. n \in K
  <2> HIDE DEF K, n
  <2>1. \A k \in 0..n : k \in K
    BY <1>1, <1>2, <1>3, Induction
  <2>2. QED
    BY <1>1, <2>1
<1>5. QED
  BY <1>4

LEMMA OneChoice ==
  ASSUME NEW S, IsFiniteSet(S), NEW f, NEW g, g = Step(g, f, S), NEW h, h = Step(h, f, S)
  PROVE  g = h
<1> DEFINE K == {k \in Nat : \A s \in SUBSET S : Cardinality(s) = k => g[s] = h[s]}
           n == Cardinality(S)
<1>1. n \in Nat /\ \A s \in SUBSET S : IsFiniteSet(s) /\ Cardinality(s) \in Nat /\ Cardinality(s) <= n
  BY FS_CardinalityType, FS_Subset
<1>2. /\ g[{}] = 0 /\ \A s \in SUBSET S : s # {} => g[s] = f[First(s)] + g[s \ {First(s)}]
      /\ h[{}] = 0 /\ \A s \in SUBSET S : s # {} => h[s] = f[First(s)] + h[s \ {First(s)}]
  <2>1. {} \in SUBSET S
    OBVIOUS
  <2>2. QED
    BY <2>1 DEF Step
<1>3. 0 \in K
  <2>1. \A s \in SUBSET S : Cardinality(s) = 0 => s = {}
    BY <1>1, FS_EmptySet
  <2>2. QED
    BY <1>2, <2>1
<1>4. ASSUME NEW k \in 0..(n - 1), k \in K PROVE k + 1 \in K
  <2>1. SUFFICES ASSUME NEW s \in SUBSET S, Cardinality(s) = k + 1 PROVE g[s] = h[s]
    OBVIOUS
  <2>2. s # {}
    <3>1. Cardinality(s) # 0
      BY <2>1
    <3>2. QED
      BY <3>1, FS_EmptySet
  <2>3. First(s) \in s
    BY <2>2 DEF First
  <2>4. Cardinality(s \ {First(s)}) = k
    <3>1. Cardinality(s \ {First(s)}) = Cardinality(s) - 1
      BY <1>1, <2>3, Smaller
    <3>2. QED
      BY <2>1, <3>1
  <2>5. g[s \ {First(s)}] = h[s \ {First(s)}]
    BY <1>4, <2>4
  <2>6. QED
    BY <1>2, <2>2, <2>5
<1>5. \A k \in 0..n : k \in K
  <2> HIDE DEF K, n
  <2>1. QED
    BY <1>1, <1>3, <1>4, Induction
<1>6. \A s \in SUBSET S : g[s] = h[s]
  <2>1. SUFFICES ASSUME NEW s \in SUBSET S PROVE g[s] = h[s]
    OBVIOUS
  <2>2. Cardinality(s) \in 0..n /\ Cardinality(s) \in K
    BY <1>1, <1>5
  <2>3. QED
    BY <2>2
<1>7. g = [s \in SUBSET S |-> g[s]] /\ h = [s \in SUBSET S |-> h[s]]
  BY DEF Step
<1> QED
  BY <1>6, <1>7

LEMMA SumRight ==
  ASSUME NEW S, IsFiniteSet(S), NEW f \in [S -> Nat]
  PROVE  \E g : IsSum(g, f, S) /\ SumFunction(f) = g[S]
<1>1. PICK g \in [SUBSET S -> Nat] : g = Step(g, f, S)
  BY ChosenSum
<1> DEFINE F == CHOOSE g1 : g1 = Step(g1, f, S)
<1>2. F = Step(F, f, S)
  BY <1>1
<1>3. IsSum(g, f, S)
  BY <1>1, AnyOrder
<1>4. SumFunction(f) = F[S]
  BY DEF SumFunction, SumFunctionOnSet, FoldFunctionOnSet, MapThenFoldSet, Step, First
<1> HIDE DEF F
<1>5. F = g
  BY <1>1, <1>2, OneChoice
<1>6. QED
  BY <1>3, <1>4, <1>5

(* To know a sum is to find a function of the subsets that adds up.        *)
LEMMA SumIs ==
  ASSUME NEW S, IsFiniteSet(S), NEW f \in [S -> Nat], NEW h, IsSum(h, f, S)
  PROVE  SumFunction(f) = h[S]
BY SumRight, SameSum

LEMMA SumType ==
  ASSUME NEW S, IsFiniteSet(S), NEW f \in [S -> Nat]
  PROVE  SumFunction(f) \in Nat
<1>1. PICK g : IsSum(g, f, S) /\ SumFunction(f) = g[S]
  BY SumRight
<1>2. QED
  BY <1>1 DEF IsSum

(* Sums add up.                                                            *)
LEMMA SumAdds ==
  ASSUME NEW S, IsFiniteSet(S), NEW f \in [S -> Nat], NEW f1 \in [S -> Nat],
         NEW f2 \in [S -> Nat], \A x \in S : f[x] = f1[x] + f2[x]
  PROVE  SumFunction(f) = SumFunction(f1) + SumFunction(f2)
<1>1. PICK g1 : IsSum(g1, f1, S) /\ SumFunction(f1) = g1[S]
  BY SumRight
<1>2. PICK g2 : IsSum(g2, f2, S) /\ SumFunction(f2) = g2[S]
  BY SumRight
<1> DEFINE h == [s \in SUBSET S |-> g1[s] + g2[s]]
<1>3. \A s \in SUBSET S : g1[s] \in Nat /\ g2[s] \in Nat
  BY <1>1, <1>2 DEF IsSum
<1>4. h \in [SUBSET S -> Nat] /\ h[{}] = 0
  BY <1>1, <1>2, <1>3 DEF IsSum
<1>5. ASSUME NEW s \in SUBSET S, NEW x \in s PROVE h[s] = f[x] + h[s \ {x}]
  <2> DEFINE t == s \ {x}
  <2>1. g1[s] = f1[x] + g1[t] /\ g2[s] = f2[x] + g2[t]
    BY <1>1, <1>2 DEF IsSum
  <2>2. /\ f1[x] \in Nat /\ f2[x] \in Nat /\ g1[t] \in Nat /\ g2[t] \in Nat
        /\ f[x] = f1[x] + f2[x] /\ h[s] = g1[s] + g2[s] /\ h[t] = g1[t] + g2[t]
    BY <1>3
  <2>3. \A p, q, u, v \in Nat : (p + u) + (q + v) = (p + q) + (u + v)
    OBVIOUS
  <2> HIDE DEF t, h
  <2>4. h[s] = f[x] + h[t]
    BY <2>1, <2>2, <2>3
  <2>5. QED
    BY <2>4 DEF t
<1>6. IsSum(h, f, S)
  BY <1>4, <1>5 DEF IsSum
<1>7. SumFunction(f) = h[S]
  BY <1>6, SumIs
<1>8. QED
  BY <1>1, <1>2, <1>7

(* Counting a set by the parts that a function divides it into.            *)
LEMMA SumOfParts ==
  ASSUME NEW S, IsFiniteSet(S), NEW R, IsFiniteSet(R), NEW k, \A p \in R : k[p] \in S,
         NEW f \in [S -> Nat], \A x \in S : f[x] = Cardinality({p \in R : k[p] = x})
  PROVE  SumFunction(f) = Cardinality(R)
<1> DEFINE Over(s) == {p \in R : k[p] \in s}
           h == [s \in SUBSET S |-> Cardinality(Over(s))]
<1>1. \A s : IsFiniteSet(Over(s)) /\ Cardinality(Over(s)) \in Nat
  <2>1. SUFFICES ASSUME NEW s PROVE IsFiniteSet(Over(s)) /\ Cardinality(Over(s)) \in Nat
    OBVIOUS
  <2>2. Over(s) \in SUBSET R
    OBVIOUS
  <2> HIDE DEF Over
  <2>3. QED
    BY <2>2, FS_Subset, FS_CardinalityType
<1>2. h \in [SUBSET S -> Nat] /\ h[{}] = 0
  <2>1. Over({}) = {}
    OBVIOUS
  <2>2. Cardinality(Over({})) = 0
    BY <2>1, FS_EmptySet
  <2> HIDE DEF Over
  <2>3. QED
    BY <1>1, <2>2
<1>3. ASSUME NEW s \in SUBSET S, NEW x \in s PROVE h[s] = f[x] + h[s \ {x}]
  <2> DEFINE A == {p \in R : k[p] = x}
             B == Over(s \ {x})
  <2>1. Over(s) = A \cup B /\ A \cap B = {} /\ A = Over({x})
    OBVIOUS
  <2>2. IsFiniteSet(A) /\ IsFiniteSet(B) /\ Cardinality(A) \in Nat /\ Cardinality(B) \in Nat
    <3> HIDE DEF Over, A, B
    <3>1. QED
      BY <1>1, <2>1 DEF B
  <2> HIDE DEF A, B
  <2>3. /\ Cardinality(A \cup B) = Cardinality(A) + Cardinality(B) - Cardinality(A \cap B)
        /\ Cardinality(A \cap B) = 0
    BY <2>1, <2>2, FS_Union, FS_EmptySet
  <2>4. Cardinality(A \cup B) = Cardinality(A) + Cardinality(B)
    BY <2>2, <2>3
  <2>5. f[x] = Cardinality(A)
    BY DEF A
  <2>6. h[s] = Cardinality(A \cup B) /\ h[s \ {x}] = Cardinality(B)
    <3> HIDE DEF Over
    <3>1. s \ {x} \in SUBSET S
      OBVIOUS
    <3>2. QED
      BY <2>1, <3>1 DEF B
  <2>7. QED
    BY <2>4, <2>5, <2>6, Zenon
<1>4. IsSum(h, f, S)
  BY <1>2, <1>3 DEF IsSum
<1>5. Over(S) = R
  OBVIOUS
<1>6. SumFunction(f) = h[S]
  BY <1>4, SumIs
<1>7. QED
  BY <1>5, <1>6

-----------------------------------------------------------------------------
(* Powers of two.                                                          *)

LEMMA PowersRight ==
  /\ Powers \in [0..Bits -> Nat \ {0}] /\ Powers[0] = 1
  /\ \A k \in 1..Bits : Powers[k] = 2 * Powers[k - 1]
<1> DEFINE V == Nat \ {0}
           g == [x \in V \X (1..Bits) |-> 2 * x[1]]
           Body(f) == [k \in 0..Bits |-> IF k = 0 THEN 1 ELSE 2 * f[k - 1]]
<1>1. Bits \in Nat
  BY ShardingAssumption
<1>2. PICK f : Recursive(f, 0, Bits, V, 1, g)
  <2>1. 0 \in Nat /\ 0 <= Bits /\ 0 + 1 = 1 /\ 1 \in V
    BY <1>1
  <2>2. \A v \in V : \A i \in 1..Bits : g[<<v, i>>] \in V
    OBVIOUS
  <2> HIDE DEF g, V
  <2>3. Stays(g, 0, Bits, V)
    BY <2>1, <2>2 DEF Stays
  <2>4. QED
    BY <1>1, <2>1, <2>3, Recursion, Zenon
<1>3. f \in [0..Bits -> V] /\ f[0] = 1
  BY <1>2 DEF Recursive
<1>4. \A k \in 1..Bits : f[k] = 2 * f[k - 1]
  <2>1. SUFFICES ASSUME NEW k \in 1..Bits PROVE f[k] = 2 * f[k - 1]
    OBVIOUS
  <2>2. k - 1 \in 0..Bits
    BY <1>1
  <2>3. f[k - 1] \in V /\ f[k] = g[<<f[k - 1], k>>]
    <3> HIDE DEF g, V
    <3>1. 0 + 1 = 1
      OBVIOUS
    <3>2. QED
      BY <1>2, <2>2, <3>1 DEF Recursive
  <2>4. QED
    BY <2>3
<1>5. f = Body(f)
  <2> HIDE DEF g, V
  <2>1. \A k \in 0..Bits : k # 0 => k \in 1..Bits
    BY <1>1
  <2>2. QED
    BY <1>3, <1>4, <2>1
<1>6. Powers = CHOOSE f1 : f1 = Body(f1)
  BY DEF Powers
<1>7. Powers = Body(Powers)
  <2> HIDE DEF Body
  <2>1. QED
    BY <1>5, <1>6
<1> DEFINE P == Powers
<1>8. /\ DOMAIN P = 0..Bits /\ P = [k \in 0..Bits |-> P[k]] /\ P[0] = 1
      /\ \A k \in 1..Bits : P[k] = 2 * P[k - 1]
  <2>1. 0 \in 0..Bits /\ \A k \in 1..Bits : k \in 0..Bits /\ k # 0
    BY <1>1
  <2>2. P = [k \in 0..Bits |-> IF k = 0 THEN 1 ELSE 2 * P[k - 1]]
    BY <1>7
  <2> HIDE DEF P
  <2>3. DOMAIN P = 0..Bits
    BY <2>2
  <2>4. P[0] = 1 /\ \A k \in 1..Bits : P[k] = 2 * P[k - 1]
    BY <2>1, <2>2
  <2>5. P = [k \in 0..Bits |-> P[k]]
    BY <2>2
  <2>6. QED
    BY <2>3, <2>4, <2>5
<1> HIDE DEF P
<1> DEFINE S == {k \in Nat : P[k] \in V}
<1>9. 0 \in S
  BY <1>8
<1>10. ASSUME NEW k \in 0..(Bits - 1), k \in S PROVE k + 1 \in S
  <2>1. k + 1 \in 1..Bits /\ (k + 1) - 1 = k /\ k + 1 \in Nat
    BY <1>1
  <2>2. P[k + 1] = 2 * P[k] /\ P[k] \in V
    BY <1>8, <1>10, <2>1
  <2>3. \A x \in V : 2 * x \in V
    OBVIOUS
  <2>4. P[k + 1] \in V
    BY <2>2, <2>3
  <2>5. QED
    BY <2>1, <2>4
<1>11. \A k \in 0..Bits : P[k] \in V
  <2> HIDE DEF S
  <2>1. \A k \in 0..Bits : k \in S
    BY <1>1, <1>9, <1>10, Induction
  <2>2. QED
    BY <2>1 DEF S
<1>12. P \in [0..Bits -> V]
  BY <1>8, <1>11
<1>13. QED
  BY <1>8, <1>12 DEF P

LEMMA PowersDivide ==
  ASSUME NEW a \in 0..Bits, NEW b \in 0..Bits, a <= b
  PROVE  \E m \in Nat \ {0} : Powers[b] = Powers[a] * m
<1> DEFINE P == Powers
           S == {k \in Nat : \E m \in Nat \ {0} : P[k] = P[a] * m}
<1>1. /\ Bits \in Nat /\ P \in [0..Bits -> Nat \ {0}]
      /\ \A k \in 1..Bits : P[k] = 2 * P[k - 1]
  BY PowersRight, ShardingAssumption
<1> HIDE DEF P
<1>2. P[a] \in Nat /\ a \in Nat /\ b \in Nat
  BY <1>1
<1>3. a \in S
  <2>1. P[a] = P[a] * 1 /\ 1 \in Nat \ {0}
    BY <1>2
  <2>2. QED
    BY <1>2, <2>1
<1>4. ASSUME NEW k \in a..(b - 1), k \in S PROVE k + 1 \in S
  <2>1. PICK m \in Nat \ {0} : P[k] = P[a] * m
    BY <1>4
  <2>2. k + 1 \in 1..Bits /\ (k + 1) - 1 = k /\ k + 1 \in Nat
    BY <1>1, <1>2
  <2>3. P[k + 1] = 2 * P[k]
    BY <1>1, <2>2
  <2>4. \A x \in Nat : 2 * (x * m) = x * (2 * m)
    OBVIOUS
  <2>5. P[k + 1] = P[a] * (2 * m) /\ 2 * m \in Nat \ {0}
    BY <1>2, <2>1, <2>3, <2>4
  <2>6. QED
    BY <2>2, <2>5
<1>5. \A k \in a..b : k \in S
  <2> HIDE DEF S
  <2>1. QED
    BY <1>2, <1>3, <1>4, Induction
<1>6. b \in a..b
  BY <1>2
<1>7. QED
  BY <1>5, <1>6 DEF P

LEMMA TimesOrder ==
  ASSUME NEW a \in Nat \ {0}, NEW u \in Int, NEW v \in Int
  PROVE  /\ u <= v => a * u <= a * v
         /\ a * u < a * v => u < v
<1>1. ASSUME NEW x \in Int, NEW y \in Int, x <= y PROVE a * x <= a * y
  <2>1. a * (y - x) = a * y - a * x
    OBVIOUS
  <2>2. a * (y - x) >= 0
    BY <1>1
  <2> DEFINE p == a * x
             q == a * y
  <2>3. p \in Int /\ q \in Int /\ q - p >= 0
    BY <2>1, <2>2
  <2> HIDE DEF p, q
  <2>4. p <= q
    BY <2>3
  <2>5. QED
    BY <2>4 DEF p, q
<1>2. a * u \in Int /\ a * v \in Int
  OBVIOUS
<1>3. v <= u => a * v <= a * u
  BY <1>1
<1>4. u <= v => a * u <= a * v
  BY <1>1
<1> DEFINE p == a * u
           q == a * v
<1> HIDE DEF p, q
<1>5. p < q => u < v
  BY <1>2, <1>3 DEF p, q
<1>6. QED
  BY <1>4, <1>5 DEF p, q

-----------------------------------------------------------------------------
(* Nets: blocks of a power of two, at a multiple of their size.            *)

LEMMA NetParts ==
  ASSUME NEW n \in Nets
  PROVE  /\ n.v6 \in BOOLEAN /\ n.len \in 0..Bits /\ n.base \in Nat
         /\ n.base <= Powers[Bits] - 1 /\ AddressCount(n) \in Nat \ {0}
         /\ \E q \in Nat : n.base = AddressCount(n) * q
<1>1. /\ n.v6 \in BOOLEAN /\ n.len \in 0..Bits /\ n.base \in 0..(Powers[Bits] - 1)
      /\ n.base % AddressCount(n) = 0
  BY DEF Nets
<1>2. Bits \in Nat /\ Powers \in [0..Bits -> Nat \ {0}]
  BY PowersRight, ShardingAssumption
<1>3. Bits - n.len \in 0..Bits
  BY <1>1, <1>2
<1>4. AddressCount(n) \in Nat \ {0}
  BY <1>2, <1>3 DEF AddressCount
<1>5. \A b \in Nat : \A c \in Nat \ {0} : b % c = 0 => b = c * (b \div c) /\ b \div c \in Nat
  OBVIOUS
<1>6. n.base \in Nat /\ n.base <= Powers[Bits] - 1
  BY <1>1
<1>7. n.base = AddressCount(n) * (n.base \div AddressCount(n))
      /\ n.base \div AddressCount(n) \in Nat
  BY <1>1, <1>4, <1>5, <1>6
<1>8. QED
  BY <1>1, <1>4, <1>6, <1>7

LEMMA NetEnd ==
  ASSUME NEW n \in Nets
  PROVE  n.base + AddressCount(n) <= Powers[Bits]
<1> DEFINE c == AddressCount(n)
           P == Powers[Bits]
           b == n.base
<1>1. Bits \in Nat /\ n.len \in 0..Bits /\ Bits - n.len \in 0..Bits /\ Bits \in 0..Bits
      /\ Bits - n.len <= Bits
  BY NetParts, ShardingAssumption
<1>2. PICK m \in Nat \ {0} : P = c * m
  BY <1>1, PowersDivide DEF AddressCount
<1>3. PICK q \in Nat : b = c * q
  BY NetParts
<1>4. c \in Nat \ {0} /\ b \in Nat /\ b <= P - 1
  BY NetParts
<1>5. P \in Nat
  BY <1>1, PowersRight
<1> HIDE DEF b, P, c
<1>6. c * q < c * m
  BY <1>2, <1>3, <1>4, <1>5
<1>7. q < m
  BY <1>4, <1>6, TimesOrder
<1>8. c * (q + 1) <= c * m
  <2>1. q + 1 <= m /\ q + 1 \in Int /\ m \in Int
    BY <1>7
  <2>2. QED
    BY <1>4, <2>1, TimesOrder
<1>9. c * (q + 1) = c * q + c
  BY <1>4
<1>10. b + c <= P
  <2> DEFINE u == c * q
             v == c * m
  <2>1. u \in Int /\ v \in Int /\ u + c <= v /\ b = u /\ P = v
    BY <1>2, <1>3, <1>4, <1>8, <1>9
  <2> HIDE DEF u, v
  <2>2. QED
    BY <1>4, <2>1
<1>11. QED
  BY <1>10 DEF b, P, c

(* Two nets are disjoint, or the longer prefix is inside the other.        *)
LEMMA NestedIn ==
  ASSUME NEW n \in Nets, NEW m \in Nets, m.len <= n.len
  PROVE  Addresses(n) \subseteq Addresses(m) \/ Addresses(n) \cap Addresses(m) = {}
<1> DEFINE a == AddressCount(n)
           b == AddressCount(m)
<1>1. /\ Bits \in Nat /\ Bits - n.len \in 0..Bits /\ Bits - m.len \in 0..Bits
      /\ Bits - n.len <= Bits - m.len
  <2>1. Bits \in Nat /\ n.len \in 0..Bits /\ m.len \in 0..Bits
    BY NetParts, ShardingAssumption
  <2>2. QED
    BY <2>1
<1>2. PICK k \in Nat \ {0} : b = a * k
  BY <1>1, PowersDivide DEF AddressCount
<1>3. PICK x \in Nat : n.base = a * x
  BY NetParts
<1>4. PICK y \in Nat : m.base = b * y
  BY NetParts
<1>5. a \in Nat \ {0}
  BY NetParts
<1> HIDE DEF a, b
<1> DEFINE z == k * y
<1>6. z \in Nat /\ m.base = a * z
  <2>1. z \in Nat
    BY <1>2
  <2>2. (a * k) * y = a * (k * y)
    BY <1>2, <1>4, <1>5
  <2>3. QED
    BY <1>2, <1>4, <2>1, <2>2
<1> HIDE DEF z
<1> DEFINE c == a * x
           d == a * z
<1>7. a * (x + 1) = c + a /\ a * (z + k) = d + b
  BY <1>2, <1>5, <1>6
<1>8. c \in Int /\ d \in Int /\ b \in Int /\ a \in Int
  BY <1>2, <1>5, <1>6
<1>9. /\ Addresses(n) = {n.v6} \X (c .. (c + a - 1))
      /\ Addresses(m) = {m.v6} \X (d .. (d + b - 1))
  BY <1>3, <1>6 DEF Addresses, a, b
<1> SUFFICES ASSUME Addresses(n) \cap Addresses(m) # {} PROVE Addresses(n) \subseteq Addresses(m)
  OBVIOUS
<1>10. PICK v, p : v = n.v6 /\ v = m.v6 /\ p \in c .. (c + a - 1) /\ p \in d .. (d + b - 1)
  BY <1>9
<1>11. z <= x /\ x + 1 <= z + k
  <2>1. a * z < a * (x + 1)
    <3>1. d < c + a
      BY <1>8, <1>10
    <3>2. QED
      BY <1>7, <3>1
  <2>2. a * x < a * (z + k)
    <3>1. c < d + b
      BY <1>8, <1>10
    <3>2. QED
      BY <1>7, <3>1
  <2>3. z < x + 1 /\ x < z + k
    <3>1. z \in Int /\ x \in Int /\ x + 1 \in Int /\ z + k \in Int
      BY <1>6
    <3>2. QED
      BY <1>5, <2>1, <2>2, <3>1, TimesOrder
  <2>4. QED
    BY <1>6, <2>3
<1>12. d <= c /\ c + a <= d + b
  <2>1. z \in Int /\ x \in Int /\ x + 1 \in Int /\ z + k \in Int
    BY <1>6
  <2>2. a * z <= a * x /\ a * (x + 1) <= a * (z + k)
    BY <1>5, <1>11, <2>1, TimesOrder
  <2>3. QED
    BY <1>7, <2>2
<1> HIDE DEF c, d
<1>13. c .. (c + a - 1) \subseteq d .. (d + b - 1)
  BY <1>8, <1>12
<1>14. QED
  BY <1>9, <1>10, <1>13

LEMMA Nested ==
  ASSUME NEW n \in Nets, NEW m \in Nets
  PROVE  \/ Addresses(n) \subseteq Addresses(m)
         \/ Addresses(m) \subseteq Addresses(n)
         \/ Addresses(n) \cap Addresses(m) = {}
<1>1. n.len \in Int /\ m.len \in Int
  BY NetParts, ShardingAssumption
<1>2. m.len <= n.len \/ n.len <= m.len
  BY <1>1
<1>3. QED
  BY <1>2, NestedIn

(* The excluded nets do not overlap.                                       *)
LEMMA AggregateApart ==
  ASSUME NEW E, NEW n \in Aggregate(E), NEW m \in Aggregate(E), n # m
  PROVE  n \in Nets /\ m \in Nets /\ Addresses(n) \cap Addresses(m) = {}
<1>1. n \in Nets /\ m \in Nets
  BY DEF Aggregate
<1>2. ~(Addresses(n) \subseteq Addresses(m)) /\ ~(Addresses(m) \subseteq Addresses(n))
  BY DEF Aggregate
<1>3. QED
  BY <1>1, <1>2, Nested

-----------------------------------------------------------------------------
(* Addresses and hosts of a net.                                           *)

LEMMA SpaceFinite == IsFiniteSet(Space)
<1>1. Powers[Bits] - 1 \in Int
  BY PowersRight, ShardingAssumption
<1>2. IsFiniteSet(0..(Powers[Bits] - 1))
  BY <1>1, FS_Interval
<1>3. IsFiniteSet(BOOLEAN)
  <2>1. IsFiniteSet({TRUE} \cup {FALSE})
    BY FS_Singleton, FS_Union
  <2>2. BOOLEAN = {TRUE} \cup {FALSE}
    OBVIOUS
  <2>3. QED
    BY <2>1, <2>2
<1>4. QED
  BY <1>2, <1>3, FS_Product DEF Space

LEMMA AddressesRight ==
  ASSUME NEW n \in Nets
  PROVE  /\ Addresses(n) \in SUBSET Space /\ IsFiniteSet(Addresses(n))
         /\ Cardinality(Addresses(n)) = AddressCount(n)
<1> DEFINE b == n.base
           c == AddressCount(n)
           P == Powers[Bits]
           I == b .. (b + c - 1)
<1>1. b \in Nat /\ c \in Nat \ {0} /\ P \in Nat /\ b + c <= P /\ n.v6 \in BOOLEAN
  BY NetParts, NetEnd, PowersRight, ShardingAssumption
<1>2. Addresses(n) = {n.v6} \X I /\ Space = BOOLEAN \X (0..(P - 1))
  BY DEF Addresses, Space
<1> HIDE DEF b, c, P
<1>3. I \subseteq 0..(P - 1)
  BY <1>1
<1>4. b \in Int /\ b + c - 1 \in Int
  BY <1>1
<1>5. IsFiniteSet(I) /\ Cardinality(I) = IF b > b + c - 1 THEN 0 ELSE (b + c - 1) - b + 1
  BY <1>4, FS_Interval
<1>6. Cardinality(I) = c
  <2>1. ~(b > b + c - 1) /\ (b + c - 1) - b + 1 = c
    BY <1>1
  <2>2. QED
    BY <1>5, <2>1
<1> HIDE DEF I
<1>7. IsFiniteSet({n.v6}) /\ Cardinality({n.v6}) = 1
  BY FS_Singleton
<1>8. IsFiniteSet({n.v6} \X I) /\ Cardinality({n.v6} \X I) = 1 * c
  BY <1>5, <1>6, <1>7, FS_Product
<1>9. 1 * c = c
  BY <1>1
<1>10. {n.v6} \X I \in SUBSET Space
  BY <1>1, <1>2, <1>3
<1>11. QED
  BY <1>2, <1>8, <1>9, <1>10 DEF c

LEMMA EdgesInside ==
  ASSUME NEW n \in Nets
  PROVE  Edges(n) \subseteq Addresses(n)
<1> DEFINE b == n.base
           c == AddressCount(n)
<1>1. b \in Nat /\ c \in Nat \ {0} /\ n.v6 \in BOOLEAN
  BY NetParts
<1>2. Addresses(n) = {n.v6} \X (b .. (b + c - 1))
  BY DEF Addresses
<1>3. Edges(n) = {} \/ (~n.v6 /\ Edges(n) = {<<FALSE, b>>, <<FALSE, b + c - 1>>})
  BY DEF Edges
<1> HIDE DEF b, c
<1>4. b \in b .. (b + c - 1) /\ b + c - 1 \in b .. (b + c - 1)
  BY <1>1
<1>5. CASE Edges(n) = {}
  BY <1>5
<1>6. CASE ~n.v6 /\ Edges(n) = {<<FALSE, b>>, <<FALSE, b + c - 1>>}
  <2>1. n.v6 = FALSE
    BY <1>1, <1>6
  <2>2. QED
    BY <1>2, <1>4, <1>6, <2>1
<1>7. QED
  BY <1>3, <1>5, <1>6

(* The addresses of x that are no edge of n.                               *)
LEMMA WithoutEdges ==
  ASSUME NEW n \in Nets, NEW x \in Nets
  PROVE  /\ IsFiniteSet(Addresses(x) \ Edges(n))
         /\ Cardinality(Addresses(x) \ Edges(n)) \in Nat
         /\ Cardinality(Addresses(x) \ Edges(n))
              = AddressCount(x) - Cardinality(Edges(n) \cap Addresses(x))
<1>1. IsFiniteSet(Addresses(x)) /\ Cardinality(Addresses(x)) = AddressCount(x)
  BY AddressesRight
<1>2. /\ IsFiniteSet(Addresses(x) \ Edges(n))
      /\ Cardinality(Addresses(x) \ Edges(n))
           = Cardinality(Addresses(x)) - Cardinality(Addresses(x) \cap Edges(n))
  BY <1>1, FS_Difference
<1>3. Addresses(x) \cap Edges(n) = Edges(n) \cap Addresses(x)
  OBVIOUS
<1>4. Cardinality(Addresses(x) \ Edges(n)) \in Nat
  BY <1>2, FS_CardinalityType
<1>5. QED
  BY <1>1, <1>2, <1>3, <1>4, Zenon

LEMMA NetSizeRight ==
  ASSUME NEW n \in Nets
  PROVE  /\ Hosts(n) \in SUBSET Space /\ IsFiniteSet(Hosts(n))
         /\ NetSize(n) = Cardinality(Hosts(n)) /\ NetSize(n) \in Nat
<1>1. Edges(n) \cap Addresses(n) = Edges(n)
  BY EdgesInside
<1>2. Addresses(n) \in SUBSET Space
  BY AddressesRight
<1>3. QED
  BY <1>1, <1>2, WithoutEdges DEF NetSize, Hosts

LEMMA OverlapRight ==
  ASSUME NEW n \in Nets, NEW x \in Nets
  PROVE  /\ OverlapHosts(n, x) = Cardinality(Hosts(n) \cap Addresses(x))
         /\ OverlapHosts(n, x) \in Nat
<1> DEFINE Common(m) == AddressCount(m) - Cardinality(Edges(n) \cap Addresses(m))
<1>1. /\ Common(x) = Cardinality(Addresses(x) \ Edges(n)) /\ Common(x) \in Nat
      /\ Common(n) = Cardinality(Addresses(n) \ Edges(n)) /\ Common(n) \in Nat
  BY WithoutEdges
<1>2. OverlapHosts(n, x) =
        IF Addresses(x) \subseteq Addresses(n) THEN Common(x)
        ELSE IF Addresses(n) \subseteq Addresses(x) THEN Common(n) ELSE 0
  BY DEF OverlapHosts
<1> HIDE DEF Common
<1>3. CASE Addresses(x) \subseteq Addresses(n)
  <2>1. Hosts(n) \cap Addresses(x) = Addresses(x) \ Edges(n)
    BY <1>3 DEF Hosts
  <2>2. QED
    BY <1>1, <1>2, <1>3, <2>1, Zenon
<1>4. CASE ~(Addresses(x) \subseteq Addresses(n)) /\ Addresses(n) \subseteq Addresses(x)
  <2>1. Hosts(n) \cap Addresses(x) = Addresses(n) \ Edges(n)
    BY <1>4 DEF Hosts
  <2>2. QED
    BY <1>1, <1>2, <1>4, <2>1, Zenon
<1>5. CASE ~(Addresses(x) \subseteq Addresses(n)) /\ ~(Addresses(n) \subseteq Addresses(x))
  <2>1. Addresses(n) \cap Addresses(x) = {}
    BY <1>5, Nested
  <2>2. Hosts(n) \cap Addresses(x) = {}
    BY <2>1 DEF Hosts
  <2>3. OverlapHosts(n, x) = 0 /\ Cardinality({}) = 0 /\ 0 \in Nat
    BY <1>2, <1>5, FS_EmptySet
  <2>4. QED
    BY <2>2, <2>3
<1>6. QED
  BY <1>3, <1>4, <1>5

-----------------------------------------------------------------------------
(* What a list of targets means.                                           *)

TargetsOk(t) ==
  /\ IsFiniteSet(DOMAIN t.nets) /\ \A i \in DOMAIN t.nets : t.nets[i] \in Nets
  /\ IsFiniteSet(DOMAIN t.sockets)
  /\ \A i \in DOMAIN t.sockets : t.sockets[i] \in [ip : Space, port : AllPorts]
  /\ IsFiniteSet(t.excludes) /\ t.excludes \subseteq Nets
  /\ \A n \in t.excludes : \A m \in t.excludes :
        n # m => Addresses(n) \cap Addresses(m) = {}

(* The hosts of one net that are not excluded.                             *)
Kept(t, n) == {ip \in Hosts(n) : ~IsExcluded(t, ip)}

LEMMA ExcludedRight ==
  ASSUME NEW t, TargetsOk(t), NEW n \in Nets
  PROVE  /\ ExcludedHosts(t, n) \in Nat /\ Cardinality(Kept(t, n)) \in Nat
         /\ IsFiniteSet(Kept(t, n))
         /\ NetSize(n) = ExcludedHosts(t, n) + Cardinality(Kept(t, n))
<1> DEFINE X == t.excludes
           f == [x \in X |-> OverlapHosts(n, x)]
           R == {ip \in Hosts(n) : IsExcluded(t, ip)}
           k == [ip \in R |-> CHOOSE x \in X : ip \in Addresses(x)]
           Q == Kept(t, n)
<1>1. IsFiniteSet(X) /\ X \subseteq Nets
  BY DEF TargetsOk
<1>2. IsFiniteSet(Hosts(n)) /\ NetSize(n) = Cardinality(Hosts(n))
  BY NetSizeRight
<1>3. R \in SUBSET Hosts(n) /\ Q \in SUBSET Hosts(n)
  BY DEF Kept
<1>4. IsFiniteSet(R) /\ IsFiniteSet(Q) /\ Cardinality(R) \in Nat /\ Cardinality(Q) \in Nat
  <2> HIDE DEF R, Q
  <2>1. QED
    BY <1>2, <1>3, FS_Subset, FS_CardinalityType
<1>5. f \in [X -> Nat]
  BY <1>1, OverlapRight
<1>6. \A ip \in R : k[ip] \in X /\ ip \in Addresses(k[ip])
  BY DEF IsExcluded
<1>7. ASSUME NEW x \in X PROVE f[x] = Cardinality({ip \in R : k[ip] = x})
  <2>1. {ip \in R : k[ip] = x} = Hosts(n) \cap Addresses(x)
    <3>1. ASSUME NEW ip \in R, k[ip] = x PROVE ip \in Hosts(n) \cap Addresses(x)
      BY <1>6, <3>1
    <3>2. ASSUME NEW ip \in Hosts(n), ip \in Addresses(x) PROVE ip \in R /\ k[ip] = x
      <4>1. ip \in R
        BY <3>2 DEF IsExcluded
      <4>2. k[ip] \in X /\ ip \in Addresses(k[ip])
        BY <1>6, <4>1
      <4> HIDE DEF k, R
      <4>3. k[ip] = x
        BY <3>2, <4>2 DEF TargetsOk
      <4>4. QED
        BY <4>1, <4>3
    <3> HIDE DEF k, R
    <3>3. QED
      BY <3>1, <3>2 DEF R
  <2>2. f[x] = Cardinality(Hosts(n) \cap Addresses(x))
    BY <1>1, OverlapRight
  <2>3. QED
    BY <2>1, <2>2, Zenon
<1>8. SumFunction(f) = Cardinality(R)
  <2> HIDE DEF f, R, k, X
  <2>1. QED
    BY <1>1, <1>4, <1>5, <1>6, <1>7, SumOfParts
<1>9. ExcludedHosts(t, n) = Cardinality(R)
  BY <1>8 DEF ExcludedHosts
<1>10. Cardinality(Hosts(n)) = Cardinality(R) + Cardinality(Q)
  <2>1. Hosts(n) = R \cup Q /\ R \cap Q = {}
    BY DEF Kept
  <2> HIDE DEF R, Q
  <2>2. /\ Cardinality(R \cup Q) = Cardinality(R) + Cardinality(Q) - Cardinality(R \cap Q)
        /\ Cardinality(R \cap Q) = 0
    BY <1>4, <2>1, FS_Union, FS_EmptySet
  <2>3. QED
    BY <1>4, <2>1, <2>2
<1>11. QED
  BY <1>2, <1>4, <1>9, <1>10, Zenon

(* Counting the pairs of a relation by their first, by their second parts. *)
LEMMA ByFirst ==
  ASSUME NEW S, IsFiniteSet(S), NEW T, IsFiniteSet(T), NEW R \in SUBSET (S \X T),
         NEW f \in [S -> Nat], \A x \in S : f[x] = Cardinality({y \in T : <<x, y>> \in R})
  PROVE  SumFunction(f) = Cardinality(R) /\ IsFiniteSet(R)
<1> DEFINE k == [q \in R |-> q[1]]
<1>1. IsFiniteSet(R)
  BY FS_Product, FS_Subset
<1>2. \A q \in R : k[q] \in S
  OBVIOUS
<1>3. ASSUME NEW x \in S PROVE f[x] = Cardinality({q \in R : k[q] = x})
  <2> DEFINE A == {y \in T : <<x, y>> \in R}
             B == {q \in R : k[q] = x}
             g == [y \in A |-> <<x, y>>]
  <2>1. IsFiniteSet(A)
    <3>1. A \in SUBSET T
      OBVIOUS
    <3> HIDE DEF A
    <3>2. QED
      BY <3>1, FS_Subset
  <2>2. g \in Bijection(A, B)
    <3>1. \A y \in A : g[y] \in B
      OBVIOUS
    <3>2. \A y1, y2 \in A : g[y1] = g[y2] => y1 = y2
      OBVIOUS
    <3>3. ASSUME NEW q \in B PROVE \E y \in A : g[y] = q
      <4>1. q = <<x, q[2]>> /\ q[2] \in A
        OBVIOUS
      <4>2. QED
        BY <4>1
    <3>4. g \in [A -> B]
      BY <3>1
    <3> HIDE DEF A, B, g
    <3>5. QED
      BY <3>2, <3>3, <3>4 DEF Bijection, Injection, Surjection, IsInjective
  <2>3. Cardinality(B) = Cardinality(A)
    <3> HIDE DEF A, B, g
    <3>1. ExistsBijection(A, B)
      BY <2>2 DEF ExistsBijection
    <3>2. QED
      BY <2>1, <3>1, FS_Bijection
  <2>4. f[x] = Cardinality(A)
    OBVIOUS
  <2>5. QED
    BY <2>3, <2>4, Zenon
<1> HIDE DEF k
<1>4. QED
  BY <1>1, <1>2, <1>3, SumOfParts

LEMMA BySecond ==
  ASSUME NEW S, IsFiniteSet(S), NEW T, IsFiniteSet(T), NEW R \in SUBSET (S \X T),
         NEW f \in [T -> Nat], \A y \in T : f[y] = Cardinality({x \in S : <<x, y>> \in R})
  PROVE  SumFunction(f) = Cardinality(R)
<1> DEFINE Q == {q \in T \X S : <<q[2], q[1]>> \in R}
           g == [q \in Q |-> <<q[2], q[1]>>]
<1>1. Q \in SUBSET (T \X S)
  OBVIOUS
<1>2. \A y \in T : {x \in S : <<y, x>> \in Q} = {x \in S : <<x, y>> \in R}
  OBVIOUS
<1>3. g \in Bijection(Q, R)
  <2>1. g \in [Q -> R]
    OBVIOUS
  <2>2. ASSUME NEW p \in Q, NEW q \in Q, g[p] = g[q] PROVE p = q
    <3>1. p = <<p[1], p[2]>> /\ q = <<q[1], q[2]>>
      OBVIOUS
    <3>2. <<p[2], p[1]>> = <<q[2], q[1]>>
      BY <2>2
    <3>3. p[1] = q[1] /\ p[2] = q[2]
      BY <3>2
    <3>4. QED
      BY <3>1, <3>3, Zenon
  <2>3. ASSUME NEW r \in R PROVE \E q \in Q : g[q] = r
    <3>1. r = <<r[1], r[2]>> /\ <<r[2], r[1]>> \in Q
      OBVIOUS
    <3>2. g[<<r[2], r[1]>>] = r
      BY <3>1
    <3>3. QED
      BY <3>1, <3>2
  <2> HIDE DEF g, Q
  <2>4. QED
    BY <2>1, <2>2, <2>3 DEF Bijection, Injection, Surjection, IsInjective
<1> HIDE DEF Q, g
<1>4. SumFunction(f) = Cardinality(Q) /\ IsFiniteSet(Q)
  <2>1. \A y \in T : f[y] = Cardinality({x \in S : <<y, x>> \in Q})
    BY <1>2
  <2>2. QED
    BY <1>1, <2>1, ByFirst
<1>5. ExistsBijection(Q, R)
  BY <1>3 DEF ExistsBijection
<1>6. QED
  BY <1>4, <1>5, FS_Bijection

(* The addresses of the nets that iteration yields, with the net of each.  *)
Yielded(t) == {q \in Space \X (DOMAIN t.nets) : q[1] \in Kept(t, t.nets[q[2]])}

LEMMA HostsByNet ==
  ASSUME NEW t, TargetsOk(t)
  PROVE  /\ IsFiniteSet(Yielded(t)) /\ Cardinality(Yielded(t)) \in Nat
         /\ SumFunction([i \in DOMAIN t.nets |-> Cardinality(Kept(t, t.nets[i]))])
              = Cardinality(Yielded(t))
<1> DEFINE T == DOMAIN t.nets
           f == [i \in T |-> Cardinality(Kept(t, t.nets[i]))]
           R == Yielded(t)
<1>1. IsFiniteSet(T) /\ \A i \in T : t.nets[i] \in Nets
  BY DEF TargetsOk
<1>2. f \in [T -> Nat]
  BY <1>1, ExcludedRight
<1>3. R \in SUBSET (Space \X T)
  BY DEF Yielded
<1>4. ASSUME NEW i \in T PROVE {ip \in Space : <<ip, i>> \in R} = Kept(t, t.nets[i])
  <2>1. Kept(t, t.nets[i]) \subseteq Space
    BY <1>1, NetSizeRight DEF Kept
  <2>2. QED
    BY <2>1 DEF Yielded
<1>5. \A i \in T : f[i] = Cardinality({ip \in Space : <<ip, i>> \in R})
  BY <1>4
<1> HIDE DEF f, R, T
<1>6. IsFiniteSet(R) /\ Cardinality(R) \in Nat
  BY <1>1, <1>3, SpaceFinite, FS_Product, FS_Subset, FS_CardinalityType
<1>7. SumFunction(f) = Cardinality(R)
  BY <1>1, <1>2, <1>3, <1>5, SpaceFinite, BySecond
<1>8. QED
  BY <1>6, <1>7 DEF f, R, T

LEMMA IpTimesRight ==
  ASSUME NEW t, TargetsOk(t), NEW ip \in Space
  PROVE  /\ IpTimes(t, ip) \in Nat
         /\ IpTimes(t, ip) = Cardinality({i \in DOMAIN t.nets : <<ip, i>> \in Yielded(t)})
<1> DEFINE A == {i \in DOMAIN t.nets : <<ip, i>> \in Yielded(t)}
<1>1. Cardinality(A) \in Nat
  <2>1. A \in SUBSET (DOMAIN t.nets) /\ IsFiniteSet(DOMAIN t.nets)
    BY DEF TargetsOk
  <2> HIDE DEF A
  <2>2. QED
    BY <2>1, FS_Subset, FS_CardinalityType
<1>2. A = {i \in DOMAIN t.nets : ip \in Kept(t, t.nets[i])}
  BY DEF Yielded
<1>3. CASE IsExcluded(t, ip)
  <2>1. A = {}
    BY <1>2, <1>3 DEF Kept
  <2>2. IpTimes(t, ip) = 0 /\ Cardinality({}) = 0
    BY <1>3, FS_EmptySet DEF IpTimes
  <2> HIDE DEF A
  <2>3. Cardinality(A) = 0
    BY <2>1, <2>2
  <2>4. QED
    BY <2>2, <2>3 DEF A
<1>4. CASE ~IsExcluded(t, ip)
  <2>1. A = {i \in DOMAIN t.nets : ip \in Hosts(t.nets[i])}
    BY <1>2, <1>4 DEF Kept
  <2>2. IpTimes(t, ip) = Cardinality({i \in DOMAIN t.nets : ip \in Hosts(t.nets[i])})
    BY <1>4 DEF IpTimes
  <2>3. IpTimes(t, ip) = Cardinality(A)
    BY <2>1, <2>2, Zenon
  <2> HIDE DEF A
  <2>4. QED
    BY <1>1, <2>3 DEF A
<1>5. QED
  BY <1>3, <1>4

LEMMA HostsByAddress ==
  ASSUME NEW t, TargetsOk(t)
  PROVE  SumFunction([ip \in Space |-> IpTimes(t, ip)]) = Cardinality(Yielded(t))
<1> DEFINE f == [ip \in Space |-> IpTimes(t, ip)]
           T == DOMAIN t.nets
           R == Yielded(t)
<1>1. f \in [Space -> Nat]
  BY IpTimesRight
<1>2. IsFiniteSet(T) /\ R \in SUBSET (Space \X T)
  BY DEF TargetsOk, Yielded
<1>3. \A ip \in Space : f[ip] = Cardinality({i \in T : <<ip, i>> \in R})
  BY IpTimesRight
<1> HIDE DEF f, R, T
<1>4. SumFunction(f) = Cardinality(R)
  BY <1>1, <1>2, <1>3, SpaceFinite, ByFirst
<1>5. QED
  BY <1>4 DEF f, R

(* host_count is the number of addresses that iter_ips yields.             *)
LEMMA HostCountRight ==
  ASSUME NEW t, TargetsOk(t)
  PROVE  HostCount(t) = Cardinality(Yielded(t))
<1> DEFINE T == DOMAIN t.nets
           f == [i \in T |-> NetSize(t.nets[i])]
           f1 == [i \in T |-> ExcludedHosts(t, t.nets[i])]
           f2 == [i \in T |-> Cardinality(Kept(t, t.nets[i]))]
           total == SumFunction(f)
           excluded == SumFunction(f1)
           c == Cardinality(Yielded(t))
<1>1. IsFiniteSet(T) /\ \A i \in T : t.nets[i] \in Nets
  BY DEF TargetsOk
<1>2. f \in [T -> Nat] /\ f1 \in [T -> Nat] /\ f2 \in [T -> Nat]
  BY <1>1, ExcludedRight, NetSizeRight
<1>3. \A i \in T : f[i] = f1[i] + f2[i]
  BY <1>1, ExcludedRight
<1>4. HostCount(t) = Max({0, total - excluded})
  BY DEF HostCount
<1>5. SumFunction(f2) = c /\ c \in Nat
  BY HostsByNet
<1> HIDE DEF f, f1, f2, T, c
<1>6. total = excluded + SumFunction(f2)
  BY <1>1, <1>2, <1>3, SumAdds
<1>7. total \in Nat /\ excluded \in Nat
  BY <1>1, <1>2, SumType
<1> HIDE DEF total, excluded
<1>8. total - excluded = c
  BY <1>5, <1>6, <1>7
<1>9. Max({0, c}) = c
  <2>1. c \in {0, c} /\ \A y \in {0, c} : c >= y
    BY <1>5
  <2>2. \A x \in {0, c} : (\A y \in {0, c} : x >= y) => x = c
    BY <1>5
  <2>3. QED
    BY <2>1, <2>2 DEF Max
<1>10. QED
  BY <1>4, <1>8, <1>9 DEF c

(* The ports of the ranges that a set of ports makes are counted exactly.  *)
LEMMA PortsLenRight ==
  ASSUME NEW P \in SUBSET Nat, IsFiniteSet(P), P # {}
  PROVE  PortsLen(Ranges(P)) = Cardinality(P) /\ ToSet(PortsIter(Ranges(P))) = P
<1> DEFINE r == Ranges(P)
           a == PortsIter(r)
           n == Len(a)
<1>1. Formed(r) /\ r # <<>>
  <2>1. Formed(r) /\ \A x \in Nat : x \in P <=> Covers(r, x)
    BY RangesRight
  <2>2. PICK x \in P : Covers(r, x)
    BY <2>1
  <2> HIDE DEF r
  <2>3. r # <<>>
    BY <2>2 DEF Covers
  <2>4. QED
    BY <2>1, <2>3
<1>2. a \in Seq(Nat) /\ ToSet(a) = P /\ Increasing(a)
  BY PortsIterExact
<1>3. n = PortsLen(r)
  <2> HIDE DEF r
  <2>1. Iterated(a, r, Len(r))
    BY <1>1, PortsIterRight
  <2>2. QED
    BY <2>1 DEF Iterated, PortsLen
<1> HIDE DEF a, r
<1>4. n \in Nat /\ DOMAIN a = 1..n /\ a \in [1..n -> Nat]
  BY <1>2
<1>5. ToSet(a) = {a[i] : i \in 1..n}
  BY <1>4 DEF ToSet
<1>6. a \in Bijection(1..n, P)
  <2>1. a \in [1..n -> P] /\ \A x \in P : \E i \in 1..n : a[i] = x
    BY <1>2, <1>4, <1>5
  <2>2. ASSUME NEW i \in 1..n, NEW j \in 1..n, a[i] = a[j] PROVE i = j
    <3>1. i \in Nat /\ j \in Nat /\ a[i] \in Nat /\ a[j] \in Nat
      BY <1>4
    <3>2. ~(i < j) /\ ~(j < i)
      BY <1>2, <1>4, <2>2, <3>1 DEF Increasing
    <3>3. QED
      BY <3>1, <3>2
  <2>3. QED
    BY <2>1, <2>2 DEF Bijection, Injection, Surjection, IsInjective
<1>7. Cardinality(P) = n
  <2>1. IsFiniteSet(1..n) /\ Cardinality(1..n) = n
    <3> HIDE DEF n
    <3>1. QED
      BY <1>4, FS_Interval
  <2>2. ExistsBijection(1..n, P)
    BY <1>6 DEF ExistsBijection
  <2>3. QED
    BY <2>1, <2>2, FS_Bijection
<1>8. QED
  BY <1>2, <1>3, <1>7 DEF r, a

LEMMA JobsFinite == IsFiniteSet(Jobs) /\ AllPorts \subseteq Port
<1>1. AllPorts \subseteq Port
  BY ShardingAssumption, LineKinds DEF AllPorts
<1>2. IsFiniteSet(AllPorts)
  BY <1>1, PortsFinite, FS_Subset
<1>3. QED
  BY <1>1, <1>2, SpaceFinite, FS_Product DEF Jobs

(* The jobs of the nets: each address with each of the ports.              *)
NetJob(P, t, j) == IF j[2] \in P THEN IpTimes(t, j[1]) ELSE 0

LEMMA NetJobsRight ==
  ASSUME NEW t, TargetsOk(t), NEW P \in SUBSET AllPorts, IsFiniteSet(P)
  PROVE  /\ [j \in Jobs |-> NetJob(P, t, j)] \in [Jobs -> Nat]
         /\ SumFunction([j \in Jobs |-> NetJob(P, t, j)])
              = Cardinality(Yielded(t)) * Cardinality(P)
<1> DEFINE f == [j \in Jobs |-> NetJob(P, t, j)]
           T == DOMAIN t.nets
           Y == Yielded(t)
           R == {q \in Jobs \X T : q[1][2] \in P /\ <<q[1][1], q[2]>> \in Y}
           g == [y \in Y \X P |-> <<<<y[1][1], y[2]>>, y[1][2]>>]
<1>1. IsFiniteSet(T) /\ Y \in SUBSET (Space \X T)
  BY DEF TargetsOk, Yielded
<1>2. \A j \in Jobs : j[1] \in Space /\ j = <<j[1], j[2]>>
  BY DEF Jobs
<1>3. f \in [Jobs -> Nat]
  BY <1>2, IpTimesRight DEF NetJob
<1>4. R \in SUBSET (Jobs \X T)
  OBVIOUS
<1>5. ASSUME NEW j \in Jobs PROVE f[j] = Cardinality({i \in T : <<j, i>> \in R})
  <2>1. CASE j[2] \in P
    <3>1. {i \in T : <<j, i>> \in R} = {i \in T : <<j[1], i>> \in Y}
      BY <2>1
    <3>2. f[j] = Cardinality({i \in T : <<j[1], i>> \in Y})
      BY <1>2, <2>1, IpTimesRight DEF NetJob
    <3>3. QED
      BY <3>1, <3>2
  <2>2. CASE j[2] \notin P
    <3>1. {i \in T : <<j, i>> \in R} = {}
      BY <2>2
    <3>2. f[j] = 0 /\ Cardinality({}) = 0
      BY <2>2, FS_EmptySet DEF NetJob
    <3>3. QED
      BY <3>1, <3>2
  <2>3. QED
    BY <2>1, <2>2
<1>6. g \in Bijection(Y \X P, R)
  <2>1. ASSUME NEW y \in Y \X P PROVE g[y] \in R
    <3>1. y[1] \in Space \X T /\ y[2] \in P /\ y[1] = <<y[1][1], y[1][2]>>
      BY <1>1
    <3>2. <<y[1][1], y[2]>> \in Jobs
      BY <3>1 DEF Jobs
    <3>3. QED
      BY <3>1, <3>2
  <2>2. ASSUME NEW y \in Y \X P, NEW z \in Y \X P, g[y] = g[z] PROVE y = z
    <3>1. /\ y = <<y[1], y[2]>> /\ y[1] = <<y[1][1], y[1][2]>>
          /\ z = <<z[1], z[2]>> /\ z[1] = <<z[1][1], z[1][2]>>
      BY <1>1
    <3>2. <<<<y[1][1], y[2]>>, y[1][2]>> = <<<<z[1][1], z[2]>>, z[1][2]>>
      BY <2>2
    <3>3. y[1][1] = z[1][1] /\ y[2] = z[2] /\ y[1][2] = z[1][2]
      BY <3>2
    <3>4. QED
      BY <3>1, <3>3, Zenon
  <2>3. ASSUME NEW q \in R PROVE \E y \in Y \X P : g[y] = q
    <3> DEFINE y == <<<<q[1][1], q[2]>>, q[1][2]>>
    <3>1. q = <<q[1], q[2]>> /\ q[1] = <<q[1][1], q[1][2]>>
      BY <1>2
    <3>2. y \in Y \X P
      OBVIOUS
    <3>3. g[y] = <<<<q[1][1], q[1][2]>>, q[2]>>
      BY <3>2
    <3>4. QED
      BY <3>1, <3>2, <3>3
  <2>4. g \in [Y \X P -> R]
    BY <2>1
  <2> HIDE DEF g, R, Y
  <2>5. QED
    BY <2>2, <2>3, <2>4 DEF Bijection, Injection, Surjection, IsInjective
<1>7. IsFiniteSet(Y \X P) /\ Cardinality(Y \X P) = Cardinality(Y) * Cardinality(P)
  BY HostsByNet, FS_Product
<1> HIDE DEF f, R, T, Y, g
<1>8. SumFunction(f) = Cardinality(R)
  BY <1>1, <1>3, <1>4, <1>5, JobsFinite, ByFirst
<1>9. ExistsBijection(Y \X P, R)
  BY <1>6 DEF ExistsBijection
<1>10. Cardinality(R) = Cardinality(Y \X P)
  BY <1>7, <1>9, FS_Bijection
<1>11. QED
  BY <1>3, <1>7, <1>8, <1>10 DEF f, Y

(* The jobs of the sockets: those whose address is not excluded.           *)
LEMMA SocketJobsRight ==
  ASSUME NEW t, TargetsOk(t)
  PROVE  /\ [j \in Jobs |-> SocketTimes(t, j[1], j[2])] \in [Jobs -> Nat]
         /\ SumFunction([j \in Jobs |-> SocketTimes(t, j[1], j[2])])
              = Cardinality(Sockets(t))
         /\ Cardinality(Sockets(t)) \in Nat
<1> DEFINE f == [j \in Jobs |-> SocketTimes(t, j[1], j[2])]
           R == Sockets(t)
           k == [i \in R |-> <<t.sockets[i].ip, t.sockets[i].port>>]
<1>1. IsFiniteSet(R) /\ R \in SUBSET (DOMAIN t.sockets)
  <2>1. R \in SUBSET (DOMAIN t.sockets) /\ IsFiniteSet(DOMAIN t.sockets)
    BY DEF Sockets, TargetsOk
  <2> HIDE DEF R
  <2>2. QED
    BY <2>1, FS_Subset
<1>2. \A i \in R : k[i] \in Jobs
  BY <1>1 DEF TargetsOk, Jobs
<1>3. ASSUME NEW j \in Jobs PROVE f[j] = Cardinality({i \in R : k[i] = j})
  <2>1. j = <<j[1], j[2]>>
    BY DEF Jobs
  <2>2. \A i \in DOMAIN t.sockets :
          t.sockets[i] = [ip |-> j[1], port |-> j[2]]
            <=> t.sockets[i].ip = j[1] /\ t.sockets[i].port = j[2]
    BY DEF TargetsOk
  <2>3. \A i \in R : k[i] = j <=> t.sockets[i].ip = j[1] /\ t.sockets[i].port = j[2]
    BY <2>1
  <2>4. CASE IsExcluded(t, j[1])
    <3>1. {i \in R : k[i] = j} = {}
      BY <2>3, <2>4 DEF Sockets
    <3>2. f[j] = 0 /\ Cardinality({}) = 0
      BY <2>4, FS_EmptySet DEF SocketTimes
    <3> HIDE DEF k
    <3>3. QED
      BY <3>1, <3>2
  <2>5. CASE ~IsExcluded(t, j[1])
    <3>1. {i \in R : k[i] = j} =
            {i \in DOMAIN t.sockets : t.sockets[i].ip = j[1] /\ t.sockets[i].port = j[2]}
      <4> HIDE DEF k
      <4>1. QED
        BY <2>3, <2>5 DEF Sockets
    <3>2. f[j] = Cardinality({i \in DOMAIN t.sockets :
                                t.sockets[i] = [ip |-> j[1], port |-> j[2]]})
      BY <2>5 DEF SocketTimes
    <3>3. {i \in DOMAIN t.sockets : t.sockets[i] = [ip |-> j[1], port |-> j[2]]} =
            {i \in DOMAIN t.sockets : t.sockets[i].ip = j[1] /\ t.sockets[i].port = j[2]}
      BY <2>2
    <3>4. QED
      BY <3>1, <3>2, <3>3, Zenon
  <2>6. QED
    BY <2>4, <2>5
<1>4. f \in [Jobs -> Nat]
  <2>1. SUFFICES ASSUME NEW j \in Jobs PROVE f[j] \in Nat
    OBVIOUS
  <2> DEFINE A == {i \in R : k[i] = j}
  <2>2. A \in SUBSET R /\ f[j] = Cardinality(A)
    BY <1>3
  <2> HIDE DEF A, f
  <2>3. QED
    BY <1>1, <2>2, FS_Subset, FS_CardinalityType
<1> HIDE DEF f, R, k
<1>5. SumFunction(f) = Cardinality(R)
  BY <1>1, <1>2, <1>3, <1>4, JobsFinite, SumOfParts
<1>6. QED
  BY <1>1, <1>4, <1>5, FS_CardinalityType DEF f, R

(* job_count is the number of jobs that socket_targets yields.             *)
LEMMA JobCountRight ==
  ASSUME NEW t, TargetsOk(t), NEW P \in PortSets
  PROVE  JobCount(t, Ranges(P)) = SumFunction([j \in Jobs |-> JobTimes(t, Ranges(P), j[1], j[2])])
<1> DEFINE f == [j \in Jobs |-> JobTimes(t, Ranges(P), j[1], j[2])]
           f1 == [j \in Jobs |-> SocketTimes(t, j[1], j[2])]
           f2 == [j \in Jobs |-> NetJob(P, t, j)]
           y == Cardinality(Yielded(t))
           c == Cardinality(P)
           s == Cardinality(Sockets(t))
<1>1. P \in SUBSET Nat /\ P # {} /\ IsFiniteSet(P) /\ P \in SUBSET AllPorts
  BY PortSetRight DEF AllPorts
<1>2. ToSet(PortsIter(Ranges(P))) = P /\ PortsLen(Ranges(P)) = c
  BY <1>1, PortsLenRight
<1>3. f1 \in [Jobs -> Nat] /\ SumFunction(f1) = s /\ s \in Nat
  BY SocketJobsRight
<1>4. f2 \in [Jobs -> Nat] /\ SumFunction(f2) = y * c
  BY <1>1, NetJobsRight
<1>5. \A j \in Jobs : f[j] = f1[j] + f2[j]
  BY <1>2 DEF JobTimes, NetJob
<1>6. f \in [Jobs -> Nat]
  <2>1. \A j \in Jobs : f1[j] \in Nat /\ f2[j] \in Nat
    BY <1>3, <1>4
  <2>2. f = [j \in Jobs |-> f[j]]
    OBVIOUS
  <2> HIDE DEF f, f1, f2
  <2>3. \A j \in Jobs : f[j] \in Nat
    BY <1>5, <2>1
  <2>4. QED
    BY <2>2, <2>3
<1>7. JobCount(t, Ranges(P)) = y * c + s
  BY <1>2, HostCountRight DEF JobCount
<1>8. y * c \in Nat
  <2>1. y \in Nat /\ c \in Nat
    BY <1>1, HostsByNet, FS_CardinalityType
  <2> HIDE DEF y, c
  <2>2. QED
    BY <2>1
<1> HIDE DEF f, f1, f2, y, c, s
<1>9. SumFunction(f) = SumFunction(f1) + SumFunction(f2)
  BY <1>3, <1>4, <1>5, <1>6, JobsFinite, SumAdds
<1>10. JobCount(t, Ranges(P)) = SumFunction(f)
  <2> DEFINE u == y * c
  <2>1. u \in Nat /\ SumFunction(f) = s + u /\ JobCount(t, Ranges(P)) = u + s
    BY <1>3, <1>4, <1>7, <1>8, <1>9
  <2> HIDE DEF u
  <2>2. QED
    BY <1>3, <2>1
<1>11. QED
  BY <1>10 DEF f

LEMMA NetsFinite == IsFiniteSet(Nets)
<1> DEFINE B == 0..(Powers[Bits] - 1)
           L == 0..Bits
           Q == Space \X L
           A == [v6 : BOOLEAN, base : B, len : L]
           g == [q \in Q |-> [v6 |-> q[1][1], base |-> q[1][2], len |-> q[2]]]
<1>1. IsFiniteSet(Q)
  <2>1. Bits \in Int /\ 0 \in Int
    BY ShardingAssumption
  <2>2. IsFiniteSet(L)
    BY <2>1, FS_Interval
  <2> HIDE DEF L
  <2>3. QED
    BY <2>2, SpaceFinite, FS_Product
<1>2. g \in Surjection(Q, A)
  <2>1. g \in [Q -> A]
    <3>1. SUFFICES ASSUME NEW q \in Q PROVE g[q] \in A
      OBVIOUS
    <3>2. q[1] \in BOOLEAN \X B /\ q[2] \in L
      BY DEF Space
    <3>3. q[1][1] \in BOOLEAN /\ q[1][2] \in B
      BY <3>2
    <3> HIDE DEF B, L
    <3>4. QED
      BY <3>2, <3>3
  <2>2. ASSUME NEW n \in A PROVE \E q \in Q : g[q] = n
    <3>1. <<<<n.v6, n.base>>, n.len>> \in Q
      BY DEF Space
    <3>2. g[<<<<n.v6, n.base>>, n.len>>] = [v6 |-> n.v6, base |-> n.base, len |-> n.len]
      BY <3>1
    <3>3. QED
      BY <3>1, <3>2
  <2> HIDE DEF Q, A, g
  <2>3. QED
    BY <2>1, <2>2 DEF Surjection
<1>3. IsFiniteSet(A)
  <2> HIDE DEF Q, A, g
  <2>1. QED
    BY <1>1, <1>2, FS_Surjection
<1>4. Nets \in SUBSET A
  BY DEF Nets
<1> HIDE DEF A
<1>5. QED
  BY <1>3, <1>4, FS_Subset

(* Targets that were parsed are what the counts rely on.                   *)
LEMMA ParsedRight ==
  ASSUME NEW m \in 0..MaxLines, NEW lines \in [1..m -> Lines], NEW x
  PROVE  TargetsOk(Parse(lines, x))
<1> DEFINE t == Parse(lines, x)
<1>1. IsFiniteSet(1..m)
  BY ShardingAssumption, FS_Interval
<1>2. /\ DOMAIN t.nets = {i \in 1..m : IsNet(lines[i])}
      /\ \A i \in DOMAIN t.nets : t.nets[i] = lines[i] /\ lines[i] \in Lines /\ IsNet(lines[i])
  BY DEF Parse, Restrict
<1>3. /\ DOMAIN t.sockets = {i \in 1..m : ~IsNet(lines[i])}
      /\ \A i \in DOMAIN t.sockets :
            t.sockets[i] = lines[i] /\ lines[i] \in Lines /\ ~IsNet(lines[i])
  BY DEF Parse, Restrict
<1>4. t.excludes = Aggregate(x)
  BY DEF Parse
<1> HIDE DEF t
<1>5. IsFiniteSet(DOMAIN t.nets) /\ IsFiniteSet(DOMAIN t.sockets)
  <2>1. DOMAIN t.nets \in SUBSET (1..m) /\ DOMAIN t.sockets \in SUBSET (1..m)
    BY <1>2, <1>3
  <2>2. QED
    BY <1>1, <2>1, FS_Subset
<1>6. \A i \in DOMAIN t.nets : t.nets[i] \in Nets
  BY <1>2, LineKinds
<1>7. ASSUME NEW i \in DOMAIN t.sockets PROVE t.sockets[i] \in [ip : Space, port : AllPorts]
  <2>1. PICK l \in Lines : l = t.sockets[i] /\ ~IsNet(l)
    BY <1>3
  <2>2. l \in [ip : Space, port : Port] /\ l.port \in AllPorts
    BY <2>1, LineKinds DEF AllPorts
  <2>3. QED
    BY <2>1, <2>2
<1>8. /\ IsFiniteSet(t.excludes) /\ t.excludes \subseteq Nets
      /\ \A n \in t.excludes : \A k \in t.excludes :
            n # k => Addresses(n) \cap Addresses(k) = {}
  <2>1. t.excludes \in SUBSET Nets
    BY <1>4 DEF Aggregate
  <2>2. QED
    BY <1>4, <2>1, NetsFinite, FS_Subset, AggregateApart
<1>9. TargetsOk(t)
  BY <1>5, <1>6, <1>7, <1>8 DEF TargetsOk
<1>10. QED
  BY <1>9 DEF t

(* host_count and job_count are the numbers of addresses and jobs that     *)
(* iteration yields, for all nets, exclusions and ports: what is counted   *)
(* from prefixes is what iter_ips and socket_targets produce.              *)
THEOREM CountsCorrect == Spec => []CountsExact
<1> DEFINE InputRight == TargetsOk(targets) /\ \E P \in PortSets : ports = Ranges(P)
<1>1. Init => InputRight
  <2>1. SUFFICES ASSUME Init PROVE InputRight
    OBVIOUS
  <2>2. PICK lines \in SeqOf(Lines, MaxLines) : \E x : targets = Parse(lines, x)
    BY <2>1 DEF Init
  <2>3. PICK m \in 0..MaxLines : lines \in [1..m -> Lines]
    BY <2>2 DEF SeqOf
  <2>4. TargetsOk(targets)
    BY <2>2, <2>3, ParsedRight
  <2>5. QED
    BY <2>1, <2>4 DEF Init
<1>2. InputRight /\ [Next]_vars => InputRight'
  <2>1. SUFFICES ASSUME InputRight, [Next]_vars PROVE InputRight'
    OBVIOUS
  <2>2. targets' = targets /\ ports' = ports
    BY <2>1 DEF Next, StartWorker, vars, input
  <2>3. TargetsOk(targets)' = TargetsOk(targets)
    BY <2>2 DEF TargetsOk, IsExcluded
  <2>4. QED
    BY <2>1, <2>2, <2>3
<1>3. InputRight => CountsExact
  <2>1. SUFFICES ASSUME InputRight PROVE CountsExact
    OBVIOUS
  <2>2. HostCount(targets) = SumFunction([ip \in Space |-> IpTimes(targets, ip)])
    BY <2>1, HostCountRight, HostsByAddress
  <2>3. JobCount(targets, ports)
          = SumFunction([j \in Jobs |-> JobTimes(targets, ports, j[1], j[2])])
    BY <2>1, JobCountRight
  <2>4. QED
    BY <2>2, <2>3 DEF CountsExact
<1>4. QED
  BY <1>1, <1>2, <1>3, PTL DEF Spec
=============================================================================
