------------------------------ MODULE SumsProofs ------------------------------
(***************************************************************************)
(* What sums are: the laws by which they change when a list or a set does. *)
(* Induction is on sets of numbers: a set of counterexamples has a least   *)
(* member, and that member is not one, because of the one before it.        *)
(***************************************************************************)
EXTENDS Sums, FiniteSetTheorems, WellFoundedInduction, TLAPS

\* A set of natural numbers that is not empty has a least member.
LEMMA Least ==
  ASSUME NEW T, T \subseteq Nat, T # {}
  PROVE  \E m \in T : \A n \in T : m <= n
<1> DEFINE R == OpToRel(<, Nat)
<1>1. IsWellFoundedOn(R, Nat)
  BY NatLessThanWellFounded
<1>2. \A x, y \in Nat : x < y => <<x, y>> \in R
  BY DEF OpToRel
<1> HIDE DEF R
<1>3. PICK m \in T : \A n \in T : <<n, m>> \notin R
  BY <1>1, WFMin
<1>4. \A n \in T : m <= n
  <2> SUFFICES ASSUME NEW n \in T PROVE m <= n
    OBVIOUS
  <2>1. m \in Nat /\ n \in Nat /\ ~(n < m)
    BY <1>2, <1>3
  <2> QED BY <2>1
<1> QED BY <1>4

------------------------------------------------------------------------------
(* Sums of sequences.                                                      *)

\* f adds the first n numbers of s one by one, and lists the partial sums.
Adds(f, s, n) == f[0] = 0 /\ \A i \in 1..n : f[i] = f[i - 1] + s[i]
IsSum(f, s, n) == f \in [0..n -> Nat] /\ Adds(f, s, n)

\* Every sequence of numbers has partial sums.
LEMMA SumExists ==
  ASSUME NEW s \in Seq(Nat), NEW n \in 0..Len(s)
  PROVE  \E f : IsSum(f, s, n)
<1> DEFINE T == {m \in Nat : m <= Len(s) /\ ~ \E f : IsSum(f, s, m)}
<1>1. Len(s) \in Nat /\ \A i \in 1..Len(s) : s[i] \in Nat
  OBVIOUS
<1>2. SUFFICES ASSUME T # {} PROVE FALSE
  BY <1>1
<1>3. PICK m \in T : \A k \in T : m <= k
  BY <1>2, Least
<1>4. CASE m = 0
  <2>1. IsSum([i \in 0..0 |-> 0], s, 0)
    BY DEF IsSum, Adds
  <2> QED BY <1>3, <1>4, <2>1
<1>5. CASE m # 0
  <2>1. m \in Nat /\ m - 1 \in Nat /\ m <= Len(s) /\ m - 1 <= Len(s) /\ m - 1 < m
    BY <1>1, <1>3, <1>5
  <2>2. m - 1 \notin T
    BY <2>1, <1>3, SMTT(20)
  <2>3. PICK f : IsSum(f, s, m - 1)
    BY <2>1, <2>2
  <2> DEFINE g == [i \in 0..m |-> IF i = m THEN f[m - 1] + s[m] ELSE f[i]]
  <2>4. m \in 1..Len(s) /\ s[m] \in Nat
    BY <1>1, <1>5, <2>1
  <2>5. f[m - 1] + s[m] \in Nat /\ \A i \in 0..m : i # m => f[i] \in Nat
    BY <2>1, <2>3, <2>4 DEF IsSum, Adds
  <2>6. g \in [0..m -> Nat]
    BY <2>5
  <2>7. g[0] = 0 /\ \A i \in 1..m : g[i] = g[i - 1] + s[i]
    BY <2>1, <2>3, <1>5, SMTT(20) DEF IsSum, Adds
  <2>8. IsSum(g, s, m)
    BY <2>6, <2>7 DEF IsSum, Adds
  <2> QED BY <2>8, <1>3
<1> QED BY <1>4, <1>5

\* SumTo lists them, and any other list of them ends in the sum.
LEMMA SumIs ==
  ASSUME NEW s \in Seq(Nat)
  PROVE  /\ IsSum(SumTo(s), s, Len(s))
         /\ Sum(s) \in Nat
         /\ \A f : Adds(f, s, Len(s)) => Sum(s) = f[Len(s)]
<1>1. PICK f : IsSum(f, s, Len(s))
  BY SumExists
<1>2. f = [i \in 0..Len(s) |-> IF i = 0 THEN 0 ELSE f[i - 1] + s[i]]
  BY <1>1 DEF IsSum, Adds
<1>3. SumTo(s) = [i \in 0..Len(s) |-> IF i = 0 THEN 0 ELSE SumTo(s)[i - 1] + s[i]]
  BY <1>2 DEF SumTo
<1>4. \A g : Adds(g, s, Len(s)) => \A i \in 0..Len(s) : SumTo(s)[i] = g[i]
  <2> SUFFICES ASSUME NEW g, Adds(g, s, Len(s)) PROVE \A i \in 0..Len(s) : SumTo(s)[i] = g[i]
    OBVIOUS
  <2>1. SumTo(s)[0] = g[0]
    BY <1>3 DEF Adds
  <2>2. ASSUME NEW i \in 1..Len(s) PROVE SumTo(s)[i] = SumTo(s)[i - 1] + s[i]
    <3> DEFINE T == SumTo(s)
    <3>1. T = [k \in 0..Len(s) |-> IF k = 0 THEN 0 ELSE T[k - 1] + s[k]]
      BY <1>3
    <3>2. i \in 0..Len(s) /\ i # 0
      OBVIOUS
    <3> HIDE DEF T
    <3>3. T[i] = T[i - 1] + s[i]
      BY <3>1, <3>2
    <3> QED BY <3>3 DEF T
  <2>3. \A i \in 1..Len(s) : g[i] = g[i - 1] + s[i]
    BY DEF Adds
  <2> DEFINE T == {i \in Nat : i \in 0..Len(s) /\ SumTo(s)[i] # g[i]}
  <2>4. SUFFICES ASSUME T # {} PROVE FALSE
    OBVIOUS
  <2>5. PICK m \in T : \A k \in T : m <= k
    BY <2>4, Least
  <2>6. m \in 1..Len(s) /\ m - 1 \in Nat /\ m - 1 \in 0..Len(s) /\ ~(m <= m - 1)
    BY <2>1, <2>5
  <2>7. SumTo(s)[m - 1] = g[m - 1]
    BY <2>5, <2>6
  <2> QED BY <2>2, <2>3, <2>5, <2>6, <2>7
<1>5. SumTo(s) = f
  <2>1. \A i \in 0..Len(s) : SumTo(s)[i] = f[i]
    BY <1>1, <1>4 DEF IsSum
  <2>2. f = [i \in 0..Len(s) |-> f[i]]
    BY <1>1 DEF IsSum, Adds
  <2>3. SumTo(s) = [i \in 0..Len(s) |-> SumTo(s)[i]]
    BY <1>3
  <2> QED BY <2>1, <2>2, <2>3
<1>6. IsSum(SumTo(s), s, Len(s))
  BY <1>1, <1>5
<1>7. SumTo(s)[Len(s)] \in Nat
  BY <1>6 DEF IsSum, Adds
<1>8. Len(s) \in Nat
  OBVIOUS
<1> QED BY <1>4, <1>6, <1>7, <1>8 DEF Sum

\* Sums of numbers are numbers ...
LEMMA SumType ==
  ASSUME NEW s \in Seq(Nat)
  PROVE  Sum(s) \in Nat
BY SumIs

\* ... of no numbers.
LEMMA SumEmpty == Sum(<<>>) = 0
<1>1. <<>> \in Seq(Nat) /\ Len(<<>>) = 0
  OBVIOUS
<1> QED BY <1>1, SumIs DEF IsSum, Adds, Sum

\* The sum of two lists one after the other.
LEMMA SumConcat ==
  ASSUME NEW s \in Seq(Nat), NEW t \in Seq(Nat)
  PROVE  Sum(s \o t) = Sum(s) + Sum(t)
<1> DEFINE u == s \o t
           m == Len(s)
           n == Len(t)
           f == [i \in 0..(m + n) |-> IF i <= m THEN SumTo(s)[i] ELSE Sum(s) + SumTo(t)[i - m]]
<1>1. /\ m \in Nat /\ n \in Nat /\ u \in Seq(Nat) /\ Len(u) = m + n
      /\ \A i \in 1..m : u[i] = s[i]
      /\ \A i \in (m + 1)..(m + n) : u[i] = t[i - m]
  OBVIOUS
<1>2. IsSum(SumTo(s), s, m) /\ IsSum(SumTo(t), t, n) /\ Sum(s) \in Nat /\ Sum(t) \in Nat
  BY SumIs
<1>3. Sum(s) = SumTo(s)[m] /\ Sum(t) = SumTo(t)[n]
  BY DEF Sum
<1> HIDE DEF u, m, n
<1>5. f[0] = 0 /\ f[m + n] = Sum(s) + Sum(t)
  <2>1. f[0] = 0
    BY <1>1, <1>2 DEF IsSum, Adds
  <2>2. CASE n = 0
    BY <2>1, <2>2, <1>1, <1>2, <1>3 DEF IsSum, Adds
  <2>3. CASE n # 0
    <3>1. m + n \in 0..(m + n) /\ ~(m + n <= m) /\ (m + n) - m = n
      BY <2>3, <1>1
    <3>2. f[m + n] = Sum(s) + SumTo(t)[(m + n) - m]
      BY <3>1
    <3>3. SumTo(t)[(m + n) - m] = SumTo(t)[n]
      BY <3>1
    <3> HIDE DEF f
    <3> QED BY <2>1, <3>2, <3>3, <1>3
  <2> QED BY <2>1, <2>2, <2>3
<1>6. \A i \in 1..(m + n) : f[i] = f[i - 1] + u[i]
  <2> SUFFICES ASSUME NEW i \in 1..(m + n) PROVE f[i] = f[i - 1] + u[i]
    OBVIOUS
  <2>1. CASE i <= m
    <3>1. i \in 1..m /\ i - 1 \in 0..m /\ i - 1 <= m
      BY <2>1, <1>1
    <3>2. SumTo(s)[i] = SumTo(s)[i - 1] + s[i]
      BY <3>1, <1>2 DEF IsSum, Adds
    <3> QED BY <2>1, <3>1, <3>2, <1>1
  <2>2. CASE i > m
    <3> DEFINE j == i - m
    <3>1. j \in 1..n /\ u[i] = t[j]
      BY <2>2, <1>1
    <3>2. SumTo(t)[j] = SumTo(t)[j - 1] + t[j] /\ SumTo(t)[j - 1] \in Nat /\ t[j] \in Nat
      <4>1. j - 1 \in 0..n
        BY <3>1, <1>1, SMTT(20)
      <4>2. SumTo(t)[j - 1] \in Nat /\ SumTo(t)[j] = SumTo(t)[j - 1] + t[j]
        BY <3>1, <4>1, <1>2 DEF IsSum, Adds
      <4>3. t[j] \in Nat
        BY <3>1 DEF n
      <4> QED BY <4>2, <4>3
    <3>3. f[i] = Sum(s) + SumTo(t)[j]
      BY <2>2, <1>1
    <3>4. f[i - 1] = Sum(s) + SumTo(t)[j - 1]
      <4>1. CASE i - 1 > m
        BY <4>1, <2>2, <1>1, SMTT(20)
      <4>2. CASE i - 1 = m
        <5>1. SumTo(t)[j - 1] = 0
          BY <4>2, <1>1, <1>2 DEF IsSum, Adds
        <5>2. f[i - 1] = SumTo(s)[m]
          BY <4>2, <1>1
        <5> QED BY <5>1, <5>2, <1>2, <1>3
      <4> QED BY <4>1, <4>2, <2>2, <1>1
    <3> HIDE DEF j, f
    <3> QED BY <3>1, <3>2, <3>3, <3>4, <1>2
  <2> QED BY <2>1, <2>2, <1>1
<1>7. Adds(f, u, Len(u))
  BY <1>1, <1>5, <1>6 DEF Adds
<1> HIDE DEF f
<1> QED BY <1>1, <1>5, <1>7, SumIs DEF u

\* ... of one number.
LEMMA SumOne == ASSUME NEW x \in Nat PROVE Sum(<<x>>) = x
<1> DEFINE f == [i \in 0..1 |-> IF i = 0 THEN 0 ELSE x]
<1>1. Len(<<x>>) = 1 /\ <<x>>[1] = x /\ <<x>> \in Seq(Nat)
  OBVIOUS
<1>2. Adds(f, <<x>>, 1) /\ f[1] = x
  BY <1>1 DEF Adds
<1> HIDE DEF f
<1> QED BY <1>1, <1>2, SumIs

\* One number more at the end.
LEMMA SumAppend ==
  ASSUME NEW s \in Seq(Nat), NEW x \in Nat
  PROVE  Sum(Append(s, x)) = Sum(s) + x
<1>1. <<x>> \in Seq(Nat) /\ Append(s, x) = s \o <<x>>
  OBVIOUS
<1> QED BY <1>1, SumOne, SumConcat

\* One number less at the beginning.
LEMMA SumTail ==
  ASSUME NEW s \in Seq(Nat), s # <<>>
  PROVE  Sum(s) = Head(s) + Sum(Tail(s)) /\ Sum(Tail(s)) \in Nat
<1>1. /\ Head(s) \in Nat /\ Tail(s) \in Seq(Nat) /\ <<Head(s)>> \in Seq(Nat)
      /\ s = <<Head(s)>> \o Tail(s) 
  OBVIOUS
<1>2. Sum(<<Head(s)>>) = Head(s)
  BY <1>1, SumOne
<1>3. Sum(s) = Sum(<<Head(s)>>) + Sum(Tail(s))
  BY <1>1, SumConcat
<1>4. Sum(Tail(s)) \in Nat
  BY <1>1, SumType
<1> QED BY <1>2, <1>3, <1>4

\* One number changed.
LEMMA SumExcept ==
  ASSUME NEW s \in Seq(Nat), NEW t \in Seq(Nat), NEW j \in 1..Len(s), Len(t) = Len(s),
         \A i \in 1..Len(s) : i # j => t[i] = s[i]
  PROVE  Sum(t) + s[j] = Sum(s) + t[j] /\ s[j] <= Sum(s)
<1> DEFINE n == Len(s)
           g == SumTo(s)
           f == [i \in 0..n |-> IF i < j THEN g[i] ELSE (g[i] + t[j]) - s[j]]
<1>1. n \in Nat /\ \A i \in 1..n : s[i] \in Nat /\ t[i] \in Nat
  OBVIOUS
<1>2. g \in [0..n -> Nat] /\ g[0] = 0 /\ \A i \in 1..n : g[i] = g[i - 1] + s[i]
  BY SumIs DEF IsSum, Adds
<1>3. j \in 1..n /\ Len(t) = n /\ Sum(s) = g[n]
  BY DEF Sum
<1> HIDE DEF n, g
<1>4. f[0] = 0
  BY <1>2, <1>3
<1>5. \A i \in 1..n : f[i] = f[i - 1] + t[i]
  <2> SUFFICES ASSUME NEW i \in 1..n PROVE f[i] = f[i - 1] + t[i]
    OBVIOUS
  <2>1. /\ i - 1 \in 0..n /\ i \in 0..n /\ g[i - 1] \in Nat /\ g[i] = g[i - 1] + s[i]
        /\ s[i] \in Nat /\ t[i] \in Nat /\ s[j] \in Nat /\ t[j] \in Nat
    BY <1>1, <1>2, <1>3
  <2>2. CASE i < j
    <3>1. t[i] = s[i] /\ f[i] = g[i] /\ f[i - 1] = g[i - 1]
      BY <2>1, <2>2, <1>3 DEF n
    <3> QED BY <2>1, <3>1
  <2>3. CASE i = j
    <3>1. f[i] = (g[i] + t[j]) - s[j] /\ f[i - 1] = g[i - 1]
      BY <2>1, <2>3, <1>3, SMTT(20)
    <3> HIDE DEF f
    <3> QED BY <2>1, <2>3, <3>1
  <2>4. CASE i > j
    <3>1. t[i] = s[i]
      BY <2>4 DEF n
    <3>2. f[i] = (g[i] + t[j]) - s[j] /\ f[i - 1] = (g[i - 1] + t[j]) - s[j]
      BY <2>1, <2>4, <1>3, SMTT(20)
    <3> HIDE DEF f
    <3> QED BY <2>1, <3>1, <3>2, SMTT(20)
  <2> QED BY <2>2, <2>3, <2>4, <1>3
<1>6. Sum(t) = f[n] /\ f[n] = (g[n] + t[j]) - s[j]
  <2>1. f[n] = (g[n] + t[j]) - s[j]
    BY <1>1, <1>3
  <2> HIDE DEF f
  <2>2. Adds(f, t, Len(t))
    BY <1>3, <1>4, <1>5 DEF Adds
  <2> QED BY <1>3, <2>1, <2>2, SumIs
<1>7. g[n] \in Nat /\ s[j] \in Nat /\ t[j] \in Nat
  BY <1>1, <1>2, <1>3
<1>8. \A i \in 0..n : i >= j => s[j] <= g[i]
  <2> DEFINE T == {i \in Nat : i \in 0..n /\ i >= j /\ ~(s[j] <= g[i])}
  <2>1. SUFFICES ASSUME T # {} PROVE FALSE
    BY SMTT(20)
  <2>2. PICK m \in T : \A k \in T : m <= k
    BY <2>1, Least
  <2>3. m \in 1..n /\ m - 1 \in 0..n /\ m - 1 \in Nat /\ ~(m <= m - 1) /\ m >= j
    BY <2>2, <1>3
  <2>4. g[m - 1] \in Nat /\ s[m] \in Nat /\ g[m] = g[m - 1] + s[m]
    BY <2>3, <1>1, <1>2
  <2>5. ~(s[j] <= g[m])
    BY <2>2
  <2>6. CASE m = j
    BY <2>4, <2>5, <2>6, <1>7
  <2>7. CASE m # j
    <3>1. s[j] <= g[m - 1]
      BY <2>2, <2>3, <2>7, <1>3
    <3> QED BY <3>1, <2>4, <2>5, <1>7
  <2> QED BY <2>6, <2>7
<1>9. s[j] <= g[n]
  BY <1>1, <1>3, <1>8
<1> HIDE DEF f
<1> QED BY <1>3, <1>6, <1>7, <1>9

\* Every number multiplied by the same number.
LEMMA SumScaled ==
  ASSUME NEW s \in Seq(Nat), NEW t \in Seq(Nat), NEW k \in Nat, Len(t) = Len(s),
         \A i \in 1..Len(s) : t[i] = s[i] * k
  PROVE  Sum(t) = Sum(s) * k
<1> DEFINE n == Len(s)
           g == SumTo(s)
           f == [i \in 0..n |-> g[i] * k]
<1>1. n \in Nat /\ \A i \in 1..n : s[i] \in Nat
  OBVIOUS
<1>2. g \in [0..n -> Nat] /\ g[0] = 0 /\ \A i \in 1..n : g[i] = g[i - 1] + s[i]
  BY SumIs DEF IsSum, Adds
<1>3. Sum(s) = g[n] /\ Len(t) = n /\ \A i \in 1..n : t[i] = s[i] * k
  BY DEF Sum
<1> HIDE DEF n, g
<1>4. f[0] = 0 /\ f[n] = g[n] * k
  BY <1>1, <1>2
<1>5. \A i \in 1..n : f[i] = f[i - 1] + t[i]
  <2> SUFFICES ASSUME NEW i \in 1..n PROVE f[i] = f[i - 1] + t[i]
    OBVIOUS
  <2>1. i - 1 \in 0..n /\ g[i - 1] \in Nat /\ s[i] \in Nat /\ g[i] = g[i - 1] + s[i]
    BY <1>1, <1>2
  <2>2. (g[i - 1] + s[i]) * k = g[i - 1] * k + s[i] * k
    BY <2>1
  <2> QED BY <2>1, <2>2, <1>3, SMTT(20)
<1> HIDE DEF f
<1>6. Adds(f, t, Len(t))
  BY <1>3, <1>4, <1>5 DEF Adds
<1> QED BY <1>3, <1>4, <1>6, SumIs

\* A slice of a list.
LEMMA SumSlice ==
  ASSUME NEW s \in Seq(Nat), NEW a \in 0..Len(s), NEW b \in 0..Len(s), a <= b
  PROVE  Sum(SubSeq(s, a + 1, b)) = SumTo(s)[b] - SumTo(s)[a]
<1> DEFINE n == Len(s)
           g == SumTo(s)
           t == SubSeq(s, a + 1, b)
           f == [i \in 0..(b - a) |-> g[a + i] - g[a]]
<1>1. n \in Nat /\ a \in 0..n /\ b \in 0..n /\ \A i \in 1..n : s[i] \in Nat
  OBVIOUS
<1>2. g \in [0..n -> Nat] /\ \A i \in 1..n : g[i] = g[i - 1] + s[i]
  BY SumIs DEF IsSum, Adds
<1>3. t \in Seq(Nat) /\ Len(t) = b - a /\ \A i \in 1..(b - a) : t[i] = s[a + i]
  <2>1. t = [i \in 1..(b - a) |-> s[a + i]]
    BY <1>1 DEF SubSeq
  <2> QED BY <2>1, <1>1
<1> HIDE DEF n, g, t
<1>4. f[0] = 0 /\ f[b - a] = g[b] - g[a]
  BY <1>1, <1>2
<1>5. \A i \in 1..(b - a) : f[i] = f[i - 1] + t[i]
  <2> SUFFICES ASSUME NEW i \in 1..(b - a) PROVE f[i] = f[i - 1] + t[i]
    OBVIOUS
  <2>1. a + i \in 1..n /\ (a + i) - 1 = a + (i - 1) /\ a + (i - 1) \in 0..n
    BY <1>1
  <2>2. g[a + i] = g[a + (i - 1)] + s[a + i] /\ g[a + (i - 1)] \in Nat /\ g[a] \in Nat /\ s[a + i] \in Nat
    BY <2>1, <1>1, <1>2
  <2>3. f[i] = g[a + i] - g[a] /\ f[i - 1] = g[a + (i - 1)] - g[a]
    BY <1>1
  <2>4. t[i] = s[a + i]
    BY <1>3
  <2> DEFINE x == g[a + (i - 1)]
             y == s[a + i]
             z == g[a]
  <2>5. x \in Nat /\ y \in Nat /\ z \in Nat /\ f[i] = (x + y) - z /\ f[i - 1] = x - z /\ t[i] = y
    BY <2>2, <2>3, <2>4
  <2> HIDE DEF f, x, y, z
  <2> QED BY <2>5
<1> HIDE DEF f
<1>6. Adds(f, t, Len(t))
  BY <1>3, <1>4, <1>5 DEF Adds
<1> QED BY <1>3, <1>4, <1>6, SumIs DEF t, g

\* A list cut into pieces: the sums of the pieces add up.
LEMMA SumPieces ==
  ASSUME NEW s \in Seq(Nat), NEW t \in Seq(Nat), NEW c \in [0..Len(t) -> 0..Len(s)],
         c[0] = 0, c[Len(t)] = Len(s),
         \A p \in 1..Len(t) : c[p - 1] <= c[p] /\ t[p] = Sum(SubSeq(s, c[p - 1] + 1, c[p]))
  PROVE  Sum(t) = Sum(s)
<1> DEFINE f == [p \in 0..Len(t) |-> SumTo(s)[c[p]]]
<1>1. Len(t) \in Nat /\ SumTo(s) \in [0..Len(s) -> Nat] /\ SumTo(s)[0] = 0
  BY SumIs DEF IsSum, Adds
<1>2. f[0] = 0 /\ f[Len(t)] = Sum(s)
  BY <1>1 DEF Sum
<1>3. \A p \in 1..Len(t) : f[p] = f[p - 1] + t[p]
  <2> SUFFICES ASSUME NEW p \in 1..Len(t) PROVE f[p] = f[p - 1] + t[p]
    OBVIOUS
  <2>1. p - 1 \in 0..Len(t) /\ p \in 0..Len(t)
    BY <1>1
  <2>2. c[p - 1] \in 0..Len(s) /\ c[p] \in 0..Len(s) /\ c[p - 1] <= c[p]
    BY <2>1
  <2>3. t[p] = SumTo(s)[c[p]] - SumTo(s)[c[p - 1]]
    BY <2>2, SumSlice
  <2>4. SumTo(s)[c[p]] \in Nat /\ SumTo(s)[c[p - 1]] \in Nat
    BY <2>2, <1>1
  <2> QED BY <2>1, <2>3, <2>4
<1> HIDE DEF f
<1>4. Adds(f, t, Len(t))
  BY <1>2, <1>3 DEF Adds
<1> QED BY <1>2, <1>4, SumIs

\* The number of pieces of at most m that a list of n is cut into.
LEMMA Ceiling ==
  ASSUME NEW n \in Nat \ {0}, NEW m \in Nat \ {0}
  PROVE  LET k == (n + m - 1) \div m
         IN  k \in Nat \ {0} /\ (k - 1) * m < n /\ n <= k * m
<1> DEFINE k == (n + m - 1) \div m
           r == (n + m - 1) % m
<1>1. n + m - 1 \in Nat
  OBVIOUS
<1>2. k \in Nat /\ r \in Nat /\ r < m
  BY <1>1
<1>3. n + m - 1 = m * k + r
  BY <1>1
<1> HIDE DEF k, r
<1>4. m * k >= n
  BY <1>2, <1>3
<1>5. m * k = k * m /\ (k - 1) * m = m * k - m
  BY <1>2
<1>6. k # 0
  BY <1>4
<1> QED BY <1>2, <1>3, <1>4, <1>5, <1>6 DEF k

------------------------------------------------------------------------------
(* Sums over sets.                                                         *)

\* The element that a sum over a set takes first.
Chosen(T) == CHOOSE x \in T : TRUE

\* g gives the sum of f over every subset of S with at most n members.
IsSumOver(g, f, S, n) ==
  /\ g \in [{T \in SUBSET S : Cardinality(T) <= n} -> Nat]
  /\ \A T \in SUBSET S : Cardinality(T) <= n =>
       g[T] = IF T = {} THEN 0 ELSE f[Chosen(T)] + g[T \ {Chosen(T)}]

\* One member less.
LEMMA Smaller ==
  ASSUME NEW S, IsFiniteSet(S), NEW T \in SUBSET S, T # {}, NEW x \in T
  PROVE  /\ IsFiniteSet(T) /\ IsFiniteSet(T \ {x}) /\ T \ {x} \in SUBSET S
         /\ Cardinality(T) \in Nat /\ Cardinality(T \ {x}) \in Nat
         /\ Cardinality(T) = Cardinality(T \ {x}) + 1
         /\ Cardinality(T) <= Cardinality(S)
<1>1. IsFiniteSet(T) /\ Cardinality(T) <= Cardinality(S)
  BY FS_Subset
<1>2. IsFiniteSet(T \ {x}) /\ Cardinality(T \ {x}) = Cardinality(T) - 1
  BY <1>1, FS_RemoveElement
<1>3. Cardinality(T) \in Nat /\ Cardinality(T \ {x}) \in Nat
  BY <1>1, <1>2, FS_CardinalityType
<1> QED BY <1>1, <1>2, <1>3

\* Every set but the empty one has a chosen member.
LEMMA ChosenIn == \A T : T # {} => Chosen(T) \in T
BY DEF Chosen

\* There is such a function, for every finite set.
LEMMA SumOverExists ==
  ASSUME NEW S, IsFiniteSet(S), NEW f, \A x \in S : f[x] \in Nat, NEW n \in Nat
  PROVE  \E g : IsSumOver(g, f, S, n)
<1> DEFINE B == {m \in Nat : ~ \E g : IsSumOver(g, f, S, m)}
<1>1. SUFFICES ASSUME B # {} PROVE FALSE
  OBVIOUS
<1>2. PICK m \in B : \A k \in B : m <= k
  BY <1>1, Least
<1> DEFINE D(k) == {T \in SUBSET S : Cardinality(T) <= k}
<1>3. \A T \in SUBSET S : IsFiniteSet(T) /\ Cardinality(T) \in Nat
  BY FS_Subset, FS_CardinalityType
<1>4. \A T \in SUBSET S : T = {} <=> Cardinality(T) = 0
  BY <1>3, FS_EmptySet
<1>5. CASE m = 0
  <2> DEFINE g == [T \in D(0) |-> 0]
  <2>1. \A T \in D(0) : T = {}
    BY <1>3, <1>4
  <2>2. g \in [D(0) -> Nat]
    OBVIOUS
  <2>3. \A T \in SUBSET S : Cardinality(T) <= 0 => g[T] = 0 /\ T = {}
    BY <2>1
  <2>4. IsSumOver(g, f, S, 0)
    BY <2>2, <2>3 DEF IsSumOver
  <2> QED BY <2>4, <1>2, <1>5
<1>6. CASE m # 0
  <2>1. m \in Nat /\ m - 1 \in Nat /\ ~(m <= m - 1)
    BY <1>2, <1>6
  <2>2. PICK h : IsSumOver(h, f, S, m - 1)
    BY <2>1, <1>2
  <2> DEFINE val(T) == IF T = {} THEN 0 ELSE f[Chosen(T)] + h[T \ {Chosen(T)}]
             g == [T \in D(m) |-> val(T)]
  <2>3. ASSUME NEW T \in D(m), T # {} PROVE T \ {Chosen(T)} \in D(m - 1) /\ Chosen(T) \in S
    <3>1. Chosen(T) \in T /\ T \in SUBSET S /\ Cardinality(T) <= m
      BY <2>3, ChosenIn
    <3>2. /\ T \ {Chosen(T)} \in SUBSET S /\ Cardinality(T \ {Chosen(T)}) \in Nat
          /\ Cardinality(T) = Cardinality(T \ {Chosen(T)}) + 1
      BY <2>3, <3>1, Smaller
    <3>3. Cardinality(T \ {Chosen(T)}) <= m - 1
      BY <2>1, <3>1, <3>2
    <3> QED BY <3>1, <3>2, <3>3
  <2>4. \A T \in D(m - 1) : h[T] \in Nat
    BY <2>2 DEF IsSumOver
  <2>5. \A T \in D(m) : val(T) \in Nat
    <3> SUFFICES ASSUME NEW T \in D(m) PROVE val(T) \in Nat
      OBVIOUS
    <3>1. CASE T = {}
      BY <3>1
    <3>2. CASE T # {}
      <4>1. h[T \ {Chosen(T)}] \in Nat /\ f[Chosen(T)] \in Nat
        BY <3>2, <2>3, <2>4
      <4> QED BY <4>1, <3>2
    <3> QED BY <3>1, <3>2
  <2>6. g \in [D(m) -> Nat]
    BY <2>5
  <2>7. \A T \in D(m - 1) : T \in D(m) /\ g[T] = h[T]
    <3> SUFFICES ASSUME NEW T \in D(m - 1) PROVE T \in D(m) /\ g[T] = h[T]
      OBVIOUS
    <3>1. T \in SUBSET S /\ Cardinality(T) <= m - 1 /\ Cardinality(T) \in Nat
      BY <1>3
    <3>2. Cardinality(T) <= m
      BY <2>1, <3>1
    <3>3. g[T] = val(T)
      BY <3>1, <3>2
    <3>4. h[T] = val(T)
      BY <2>2, <3>1 DEF IsSumOver
    <3> QED BY <3>1, <3>2, <3>3, <3>4
  <2>8. \A T \in SUBSET S : Cardinality(T) <= m =>
          g[T] = IF T = {} THEN 0 ELSE f[Chosen(T)] + g[T \ {Chosen(T)}]
    <3> SUFFICES ASSUME NEW T \in SUBSET S, Cardinality(T) <= m
                 PROVE  g[T] = IF T = {} THEN 0 ELSE f[Chosen(T)] + g[T \ {Chosen(T)}]
      OBVIOUS
    <3>1. T \in D(m) /\ g[T] = val(T)
      OBVIOUS
    <3>2. T # {} => g[T \ {Chosen(T)}] = h[T \ {Chosen(T)}]
      BY <3>1, <2>3, <2>7
    <3> HIDE DEF g
    <3> QED BY <3>1, <3>2
  <2> HIDE DEF g
  <2>9. IsSumOver(g, f, S, m)
    BY <2>6, <2>8 DEF IsSumOver
  <2> QED BY <2>9, <1>2
<1> QED BY <1>5, <1>6

\* SumsOver is one: a number for every subset, by the recursion of its definition.
LEMMA SumsOverIs ==
  ASSUME NEW S, IsFiniteSet(S), NEW f, \A x \in S : f[x] \in Nat
  PROVE  /\ SumsOver(f, S) \in [SUBSET S -> Nat]
         /\ \A T \in SUBSET S : SumsOver(f, S)[T] =
              IF T = {} THEN 0 ELSE f[Chosen(T)] + SumsOver(f, S)[T \ {Chosen(T)}]
<1>1. Cardinality(S) \in Nat /\ \A T \in SUBSET S : Cardinality(T) <= Cardinality(S)
  BY FS_Subset, FS_CardinalityType
<1>2. PICK g : IsSumOver(g, f, S, Cardinality(S))
  BY <1>1, SumOverExists
<1>3. g \in [SUBSET S -> Nat]
  <2>1. {T \in SUBSET S : Cardinality(T) <= Cardinality(S)} = SUBSET S
    BY <1>1
  <2> QED BY <2>1, <1>2 DEF IsSumOver
<1>4. \A T \in SUBSET S : g[T] = IF T = {} THEN 0 ELSE f[Chosen(T)] + g[T \ {Chosen(T)}]
  BY <1>1, <1>2 DEF IsSumOver
<1>5. g = [T \in SUBSET S |-> IF T = {} THEN 0 ELSE f[CHOOSE x \in T : TRUE] + g[T \ {CHOOSE x \in T : TRUE}]]
  BY <1>3, <1>4 DEF Chosen
<1> DEFINE h == SumsOver(f, S)
<1>6. h = [T \in SUBSET S |-> IF T = {} THEN 0 ELSE f[CHOOSE x \in T : TRUE] + h[T \ {CHOOSE x \in T : TRUE}]]
  BY <1>5 DEF SumsOver
<1> HIDE DEF h
<1>7. \A T \in SUBSET S : h[T] = IF T = {} THEN 0 ELSE f[Chosen(T)] + h[T \ {Chosen(T)}]
  BY <1>6 DEF Chosen
<1>8. \A T \in SUBSET S : h[T] = g[T]
  <2> DEFINE B == {n \in Nat : \E T \in SUBSET S : Cardinality(T) = n /\ h[T] # g[T]}
  <2>1. SUFFICES ASSUME B # {} PROVE FALSE
    BY FS_Subset, FS_CardinalityType
  <2>2. PICK m \in B : \A k \in B : m <= k
    BY <2>1, Least
  <2>3. PICK T \in SUBSET S : Cardinality(T) = m /\ h[T] # g[T]
    BY <2>2
  <2>4. T # {}
    BY <2>3, <1>4, <1>7
  <2>5. Chosen(T) \in T /\ T \ {Chosen(T)} \in SUBSET S
    BY <2>4, ChosenIn
  <2>6. h[T \ {Chosen(T)}] # g[T \ {Chosen(T)}]
    BY <2>3, <2>4, <1>4, <1>7
  <2>7. Cardinality(T \ {Chosen(T)}) \in Nat /\ m = Cardinality(T \ {Chosen(T)}) + 1
    BY <2>3, <2>4, <2>5, Smaller
  <2>8. Cardinality(T \ {Chosen(T)}) \in B
    BY <2>5, <2>6, <2>7
  <2> DEFINE k == Cardinality(T \ {Chosen(T)})
  <2>9. k \in Nat /\ m = k + 1 /\ k \in B
    BY <2>7, <2>8
  <2> HIDE DEF k, B
  <2> QED BY <2>2, <2>9
<1>9. h \in [SUBSET S -> Nat]
  <2>1. h = [T \in SUBSET S |-> h[T]]
    BY <1>6
  <2> QED BY <2>1, <1>3, <1>8
<1> QED BY <1>7, <1>9 DEF h

\* The sum over a subset is the same, whichever set one starts from.
LEMMA SumsOverSubset ==
  ASSUME NEW S, IsFiniteSet(S), NEW f, \A x \in S : f[x] \in Nat, NEW A \in SUBSET S
  PROVE  SumsOver(f, S)[A] = SumOver(f, A)
<1> DEFINE h == SumsOver(f, S)
           g == SumsOver(f, A)
<1>1. IsFiniteSet(A) /\ \A x \in A : f[x] \in Nat
  BY FS_Subset
<1>2. /\ \A T \in SUBSET A : h[T] = IF T = {} THEN 0 ELSE f[Chosen(T)] + h[T \ {Chosen(T)}]
      /\ \A T \in SUBSET A : g[T] = IF T = {} THEN 0 ELSE f[Chosen(T)] + g[T \ {Chosen(T)}]
  <2>1. \A T \in SUBSET A : T \in SUBSET S
    OBVIOUS
  <2> QED BY <2>1, <1>1, SumsOverIs
<1> HIDE DEF h, g
<1>3. \A T \in SUBSET A : h[T] = g[T]
  <2> DEFINE B == {n \in Nat : \E T \in SUBSET A : Cardinality(T) = n /\ h[T] # g[T]}
  <2>1. SUFFICES ASSUME B # {} PROVE FALSE
    BY <1>1, FS_Subset, FS_CardinalityType
  <2>2. PICK m \in B : \A k \in B : m <= k
    BY <2>1, Least
  <2>3. PICK T \in SUBSET A : Cardinality(T) = m /\ h[T] # g[T]
    BY <2>2
  <2>4. T # {}
    BY <2>3, <1>2
  <2>5. Chosen(T) \in T /\ T \ {Chosen(T)} \in SUBSET A
    BY <2>4, ChosenIn
  <2>6. h[T \ {Chosen(T)}] # g[T \ {Chosen(T)}]
    BY <2>3, <2>4, <1>2
  <2>7. Cardinality(T \ {Chosen(T)}) \in Nat /\ m = Cardinality(T \ {Chosen(T)}) + 1
    BY <1>1, <2>3, <2>4, <2>5, Smaller, SMTT(20)
  <2>8. Cardinality(T \ {Chosen(T)}) \in B
    BY <2>5, <2>6, <2>7
  <2> DEFINE k == Cardinality(T \ {Chosen(T)})
  <2>9. k \in Nat /\ m = k + 1 /\ k \in B
    BY <2>7, <2>8
  <2> HIDE DEF k, B
  <2> QED BY <2>2, <2>9
<1> QED BY <1>3 DEF h, g, SumOver

\* Sums over finite sets are numbers; the sum over nothing is none.
LEMMA SumOverType ==
  ASSUME NEW S, IsFiniteSet(S), NEW f, \A x \in S : f[x] \in Nat
  PROVE  SumOver(f, S) \in Nat /\ (S = {} => SumOver(f, S) = 0)
<1> DEFINE h == SumsOver(f, S)
<1>1. h \in [SUBSET S -> Nat]
  BY SumsOverIs
<1>2. S = {} => h[S] = 0
  BY SumsOverIs
<1> HIDE DEF h
<1>3. h[S] \in Nat
  BY <1>1
<1> QED BY <1>2, <1>3 DEF h, SumOver

\* Any member can be the last to be added.
LEMMA SumOverRemove ==
  ASSUME NEW S, IsFiniteSet(S), NEW f, \A x \in S : f[x] \in Nat, NEW x \in S
  PROVE  SumOver(f, S) = f[x] + SumOver(f, S \ {x})
<1> DEFINE h == SumsOver(f, S)
           B == {n \in Nat : \E T \in SUBSET S : Cardinality(T) = n /\ \E y \in T : h[T] # f[y] + h[T \ {y}]}
<1>1. /\ h \in [SUBSET S -> Nat]
      /\ \A T \in SUBSET S : h[T] = IF T = {} THEN 0 ELSE f[Chosen(T)] + h[T \ {Chosen(T)}]
  BY SumsOverIs
<1> HIDE DEF h
<1>2. ASSUME B # {} PROVE FALSE
  <2>1. PICK m \in B : \A k \in B : m <= k
    BY <1>2, Least
  <2>2. PICK T \in SUBSET S : Cardinality(T) = m /\ \E y \in T : h[T] # f[y] + h[T \ {y}]
    BY <2>1
  <2>y. PICK y \in T : h[T] # f[y] + h[T \ {y}]
    BY <2>2
  <2> DEFINE z == Chosen(T)
  <2>3. z \in T /\ h[T] = f[z] + h[T \ {z}]
    BY <1>1, ChosenIn
  <2>4. z # y
    BY <2>y, <2>3
  <2> HIDE DEF z
  <2>5. ASSUME NEW u \in T, NEW w \in T, u # w PROVE h[T \ {u}] = f[w] + h[(T \ {u}) \ {w}]
    <3>1. Cardinality(T \ {u}) \in Nat /\ m = Cardinality(T \ {u}) + 1 /\ T \ {u} \in SUBSET S
      BY <2>2, Smaller
    <3>2. Cardinality(T \ {u}) \notin B
      <4> DEFINE k == Cardinality(T \ {u})
      <4>1. k \in Nat /\ m = k + 1
        BY <3>1
      <4> HIDE DEF k, B
      <4>2. k \notin B
        BY <2>1, <4>1
      <4> QED BY <4>2 DEF k
    <3> QED BY <3>1, <3>2, <2>5
  <2>6. h[T \ {z}] = f[y] + h[(T \ {z}) \ {y}] /\ h[T \ {y}] = f[z] + h[(T \ {y}) \ {z}]
    BY <2>3, <2>4, <2>5
  <2>7. (T \ {z}) \ {y} = (T \ {y}) \ {z} /\ (T \ {z}) \ {y} \in SUBSET S
    OBVIOUS
  <2>8. f[y] \in Nat /\ f[z] \in Nat /\ h[(T \ {z}) \ {y}] \in Nat
    BY <1>1, <2>3, <2>7
  <2> DEFINE r == h[(T \ {z}) \ {y}]
  <2>9. /\ h[T] = f[z] + h[T \ {z}] /\ h[T \ {z}] = f[y] + r /\ h[T \ {y}] = f[z] + r
        /\ r \in Nat /\ f[y] \in Nat /\ f[z] \in Nat
    BY <2>3, <2>6, <2>7, <2>8
  <2> HIDE DEF r
  <2> QED BY <2>y, <2>9
<1>3. \A T \in SUBSET S : \A y \in T : h[T] = f[y] + h[T \ {y}]
  BY <1>2, FS_Subset, FS_CardinalityType
<1>4. h[S] = f[x] + h[S \ {x}] /\ h[S] = SumOver(f, S) /\ h[S \ {x}] = SumOver(f, S \ {x})
  <2>1. S \in SUBSET S /\ S \ {x} \in SUBSET S
    OBVIOUS
  <2> QED BY <2>1, <1>3, SumsOverSubset DEF h
<1> QED BY <1>4

\* The sum over two sets that have nothing in common.
LEMMA SumOverUnion ==
  ASSUME NEW A, NEW B, IsFiniteSet(A), IsFiniteSet(B), A \cap B = {},
         NEW f, \A x \in A \cup B : f[x] \in Nat
  PROVE  SumOver(f, A \cup B) = SumOver(f, A) + SumOver(f, B)
<1> DEFINE C == {n \in Nat : \E T \in SUBSET B : Cardinality(T) = n /\
                               SumOver(f, A \cup T) # SumOver(f, A) + SumOver(f, T)}
<1>1. ASSUME C # {} PROVE FALSE
  <2>1. PICK m \in C : \A k \in C : m <= k
    BY <1>1, Least
  <2>2. PICK T \in SUBSET B : Cardinality(T) = m /\ SumOver(f, A \cup T) # SumOver(f, A) + SumOver(f, T)
    BY <2>1
  <2>3. IsFiniteSet(T) /\ IsFiniteSet(A \cup T)
    BY FS_Subset, FS_Union
  <2>4. T # {}
    <3> SUFFICES ASSUME T = {} PROVE FALSE
      OBVIOUS
    <3>1. A \cup T = A /\ SumOver(f, T) = 0 /\ SumOver(f, A) \in Nat
      BY <2>3, SumOverType
    <3> QED BY <3>1, <2>2
  <2>5. PICK x \in T : TRUE
    BY <2>4
  <2> DEFINE R == T \ {x}
  <2>6. R \in SUBSET B /\ Cardinality(R) \in Nat /\ m = Cardinality(R) + 1 /\ IsFiniteSet(R)
    BY <2>2, <2>4, Smaller
  <2>7. SumOver(f, A \cup R) = SumOver(f, A) + SumOver(f, R)
    <3>1. Cardinality(R) \notin C
      <4> DEFINE k == Cardinality(R)
      <4>1. k \in Nat /\ m = k + 1
        BY <2>6
      <4> HIDE DEF k, C
      <4>2. k \notin C
        BY <2>1, <4>1
      <4> QED BY <4>2 DEF k
    <3> QED BY <3>1, <2>6
  <2>8. SumOver(f, T) = f[x] + SumOver(f, R)
    BY <2>3, SumOverRemove
  <2>9. SumOver(f, A \cup T) = f[x] + SumOver(f, A \cup R)
    <3>1. (A \cup T) \ {x} = A \cup R /\ x \in A \cup T /\ \A y \in A \cup T : f[y] \in Nat
      OBVIOUS
    <3> QED BY <3>1, <2>3, SumOverRemove
  <2>10. f[x] \in Nat /\ SumOver(f, A) \in Nat /\ SumOver(f, R) \in Nat
    BY <2>6, SumOverType
  <2> HIDE DEF R
  <2> QED BY <2>2, <2>7, <2>8, <2>9, <2>10
<1>2. B \in SUBSET B /\ Cardinality(B) \in Nat
  BY FS_CardinalityType
<1> QED BY <1>1, <1>2

------------------------------------------------------------------------------
(* Order.                                                                  *)

\* The members of a finite set in increasing order of their rank.
Arranges(order, S, rank) ==
  /\ order \in [1..Cardinality(S) -> S]
  /\ \A x \in S : \E k \in 1..Cardinality(S) : order[k] = x
  /\ \A j, k \in 1..Cardinality(S) : j < k => rank[order[j]] < rank[order[k]]

\* A finite set can be put in order when no two members have the same rank.
LEMMA SortedExists ==
  ASSUME NEW S, IsFiniteSet(S), NEW rank, \A x \in S : rank[x] \in Nat,
         \A x, y \in S : rank[x] = rank[y] => x = y
  PROVE  \E order : Arranges(order, S, rank)
<1> DEFINE B == {n \in Nat : \E T \in SUBSET S : Cardinality(T) = n /\ ~ \E order : Arranges(order, T, rank)}
<1>1. ASSUME B # {} PROVE FALSE
  <2>1. PICK m \in B : \A k \in B : m <= k
    BY <1>1, Least
  <2>2. PICK T \in SUBSET S : Cardinality(T) = m /\ ~ \E order : Arranges(order, T, rank)
    BY <2>1
  <2>3. IsFiniteSet(T)
    BY FS_Subset
  <2>4. CASE T = {}
    <3>1. Cardinality(T) = 0
      BY <2>4, FS_EmptySet
    <3>2. Arranges([k \in 1..0 |-> 0], T, rank)
      BY <2>4, <3>1 DEF Arranges
    <3> QED BY <2>2, <3>2
  <2>5. CASE T # {}
    <3> DEFINE R == {rank[x] : x \in T}
    <3>1. R \subseteq Nat /\ R # {}
      BY <2>5
    <3>2. PICK r \in R : \A q \in R : r <= q
      BY <3>1, Least
    <3>3. PICK x \in T : r = rank[x]
      BY <3>2
    <3> DEFINE U == T \ {x}
               n == Cardinality(U)
    <3>4. /\ IsFiniteSet(U) /\ U \in SUBSET S /\ n \in Nat /\ m = n + 1
      BY <2>2, <2>3, <2>5, Smaller
    <3>5. \A y \in U : rank[x] < rank[y]
      <4> SUFFICES ASSUME NEW y \in U PROVE rank[x] < rank[y]
        OBVIOUS
      <4>1. rank[x] \in Nat /\ rank[y] \in Nat /\ rank[x] # rank[y] /\ rank[x] <= rank[y]
        BY <3>2, <3>3
      <4> QED BY <4>1
    <3>6. PICK o : Arranges(o, U, rank)
      <4>1. n \notin B
        <5> HIDE DEF n, B
        <5> QED BY <2>1, <3>4
      <4> QED BY <3>4, <4>1
    <3>7. /\ o \in [1..n -> U]
          /\ \A y \in U : \E k \in 1..n : o[k] = y
          /\ \A j, k \in 1..n : j < k => rank[o[j]] < rank[o[k]]
      BY <3>6 DEF Arranges
    <3> HIDE DEF n
    <3> DEFINE order == [k \in 1..m |-> IF k = 1 THEN x ELSE o[k - 1]]
    <3>8. \A k \in 1..m : k = 1 \/ (k - 1 \in 1..n /\ order[k] = o[k - 1] /\ o[k - 1] \in U)
      BY <3>4, <3>7
    <3>9. 1 \in 1..m /\ order[1] = x /\ \A k \in 1..n : k + 1 \in 1..m /\ order[k + 1] = o[k]
      BY <3>4, <3>7
    <3>10. order \in [1..m -> T]
      BY <3>7, <3>8
    <3>11. \A y \in T : \E k \in 1..m : order[k] = y
      <4> HIDE DEF order
      <4> SUFFICES ASSUME NEW y \in T PROVE \E k \in 1..m : order[k] = y
        OBVIOUS
      <4>1. CASE y = x
        BY <4>1, <3>9
      <4>2. CASE y # x
        <5>1. PICK k \in 1..n : o[k] = y
          BY <4>2, <3>7
        <5> QED BY <5>1, <3>9
      <4> QED BY <4>1, <4>2
    <3>12. \A j, k \in 1..m : j < k => rank[order[j]] < rank[order[k]]
      <4> SUFFICES ASSUME NEW j \in 1..m, NEW k \in 1..m, j < k PROVE rank[order[j]] < rank[order[k]]
        OBVIOUS
      <4>1. k # 1 /\ k - 1 \in 1..n /\ order[k] = o[k - 1] /\ o[k - 1] \in U
        <5> HIDE DEF order
        <5> QED BY <3>8
      <4>2. CASE j = 1
        BY <4>1, <4>2, <3>5, <3>9
      <4>3. CASE j # 1
        <5>1. j - 1 \in 1..n /\ order[j] = o[j - 1] /\ j - 1 < k - 1
          BY <4>3, <3>8
        <5> HIDE DEF order
        <5> QED BY <4>1, <5>1, <3>7
      <4> QED BY <4>2, <4>3
    <3> HIDE DEF order
    <3>13. Arranges(order, T, rank)
      BY <2>2, <3>10, <3>11, <3>12 DEF Arranges
    <3> QED BY <2>2, <3>13
  <2> QED BY <2>4, <2>5
<1>2. S \in SUBSET S /\ Cardinality(S) \in Nat
  BY FS_CardinalityType
<1> QED BY <1>1, <1>2
==============================================================================
