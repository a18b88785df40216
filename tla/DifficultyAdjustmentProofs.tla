---------------------- MODULE DifficultyAdjustmentProofs ----------------------
(***************************************************************************)
(* For any targets, delays and clock: a farmer's difficulty is adjusted    *)
(* for a cause, and only after a whole target of partials was confirmed    *)
(* since the adjustment before.                                            *)
(***************************************************************************)
EXTENDS DifficultyAdjustment, TLAPS

\* The rows are in the order of their times, newest first.
Row == [time : 0..MaxTime, difficulty : Nat]
SortedRows(rows) == \A i, j \in DOMAIN rows : i < j => rows[i].time >= rows[j].time
SortedInv == SortedRows(recent) /\ \A i \in DOMAIN recent : recent[i].time <= now

\* The rows older than the partials credited since the last adjustment are
\* worth something else than the present difficulty, and there is one.
SpacedInv ==
  window < PartialsTarget =>
    /\ Len(recent) > window
    /\ \A i \in DOMAIN recent : i > window => recent[i].difficulty # difficulty

\* The inductive invariant of the adjustment.
AdjustInv == TypeOK /\ SortedInv /\ SpacedInv

------------------------------------------------------------------------------
(* Arithmetic of the divisions.                                            *)

\* A quotient compared with d, by comparing products.
LEMMA Quotient ==
  ASSUME NEW a \in Nat, NEW b \in Nat, b > 0, NEW d \in Nat
  PROVE  /\ a \div b \in Nat
         /\ a <= d * b => a \div b <= d
         /\ d * b <= a => d <= a \div b
<1> DEFINE q == a \div b
           r == a % b
<1>1. q \in Nat /\ r \in 0..(b - 1) /\ a = q * b + r
  OBVIOUS
<1> HIDE DEF q, r
<1>2. ASSUME a <= d * b PROVE q <= d
  <2> SUFFICES ASSUME q > d PROVE FALSE
    BY <1>1
  <2>1. (q - d) * b >= b /\ q * b = d * b + (q - d) * b
    <3>1. q - d \in Nat /\ q - d >= 1
      BY <1>1
    <3> DEFINE e == q - d
    <3>2. e \in Nat /\ e >= 1 /\ q = d + e
      BY <3>1, <1>1
    <3> HIDE DEF e
    <3>3. e * b = (e - 1) * b + b /\ (e - 1) * b >= 0 /\ q * b = d * b + e * b
      BY <3>2
    <3>4. e * b \in Nat /\ (e - 1) * b \in Int
      BY <3>2
    <3> QED BY <3>3, <3>4 DEF e
  <2> DEFINE x == d * b
             y == (q - d) * b
             z == q * b
  <2>2. x \in Nat /\ y \in Int /\ z = x + y /\ y >= b /\ a = z + r /\ a <= x
    BY <2>1, <1>1, <1>2
  <2> HIDE DEF x, y, z
  <2> QED BY <2>2, <1>1
<1>3. ASSUME d * b <= a PROVE d <= q
  <2> SUFFICES ASSUME d > q PROVE FALSE
    BY <1>1
  <2>1. (d - q) * b >= b /\ d * b = q * b + (d - q) * b
    <3> DEFINE e == d - q
    <3>1. e \in Nat /\ e >= 1 /\ d = q + e
      BY <1>1
    <3> HIDE DEF e
    <3>2. e * b = (e - 1) * b + b /\ (e - 1) * b >= 0 /\ d * b = q * b + e * b
      BY <3>1, <1>1
    <3>3. e * b \in Nat /\ (e - 1) * b \in Int
      BY <3>1
    <3> QED BY <3>2, <3>3 DEF e
  <2> DEFINE x == d * b
             y == (d - q) * b
             z == q * b
  <2>2. z \in Nat /\ y \in Int /\ x = z + y /\ y >= b /\ a = z + r /\ x <= a
    BY <2>1, <1>1, <1>3
  <2> HIDE DEF x, y, z
  <2> QED BY <2>2, <1>1
<1> QED BY <1>1, <1>2, <1>3 DEF q

\* Products of larger numbers are larger.
LEMMA Monotone ==
  ASSUME NEW a \in Nat, NEW b \in Nat, a <= b, NEW k \in Nat
  PROVE  a * k <= b * k /\ k * a <= k * b /\ a * k \in Nat /\ k * a \in Nat
<1> DEFINE e == b - a
<1>1. e \in Nat /\ b = a + e
  OBVIOUS
<1> HIDE DEF e
<1>2. b * k = a * k + e * k /\ k * b = k * a + k * e /\ e * k \in Nat /\ k * e \in Nat /\ a * k \in Nat /\ k * a \in Nat
  BY <1>1
<1> DEFINE u == a * k
           v == k * a
           x == e * k
           y == k * e
<1>3. u \in Nat /\ v \in Nat /\ x \in Nat /\ y \in Nat /\ b * k = u + x /\ k * b = v + y
  BY <1>2
<1> HIDE DEF u, v, x, y
<1>4. u <= u + x /\ v <= v + y
  BY <1>3
<1> QED BY <1>3, <1>4 DEF u, v

------------------------------------------------------------------------------
(* get_new_difficulty.                                                     *)

\* The first and the last row, and the time between them.
LEMMA SpanIs ==
  ASSUME TypeOK, SortedInv, recent # <<>>
  PROVE  /\ Len(recent) \in Nat /\ Len(recent) > 0 /\ Len(recent) <= PartialsTarget
         /\ Span \in Nat /\ Gap(now) \in Nat
<1>1. recent \in Seq(Row) /\ Len(recent) <= PartialsTarget /\ now \in Nat
  BY AdjustmentAssumption DEF TypeOK, Row, AdjustmentAssumption
<1>2. Len(recent) \in Nat /\ Len(recent) > 0 /\ Head(recent) = recent[1] /\ Last(recent) = recent[Len(recent)]
      /\ 1 \in DOMAIN recent /\ Len(recent) \in DOMAIN recent
  BY <1>1 DEF Last
<1>3. recent[1] \in Row /\ recent[Len(recent)] \in Row
  BY <1>1, <1>2
<1>4. recent[1].time \in Nat /\ recent[Len(recent)].time \in Nat
  BY <1>3, AdjustmentAssumption DEF Row, AdjustmentAssumption
<1>5. recent[1].time >= recent[Len(recent)].time
  <2>1. CASE Len(recent) = 1
    BY <1>4, <2>1
  <2>2. CASE Len(recent) # 1
    <3>1. 1 < Len(recent)
      BY <1>2, <2>2
    <3> QED BY <1>2, <3>1 DEF SortedInv, SortedRows
  <2> QED BY <2>1, <2>2
<1>6. recent[1].time <= now
  BY <1>2 DEF SortedInv
<1> QED BY <1>1, <1>2, <1>4, <1>5, <1>6 DEF Span, Gap

\* What the standard case comes to, with all partials and with fewer.
LEMMA RescaledIs ==
  ASSUME TypeOK, SortedInv, recent # <<>>, Span # 0, NEW new \in Rescaled(difficulty)
  PROVE  /\ new \in Int
         /\ Full /\ Span >= TimeTarget => new <= difficulty
         /\ Full /\ Span <= TimeTarget => new >= difficulty
         /\ ~Full /\ Span >= TimeTarget => new <= difficulty
<1> DEFINE d == difficulty
           n == Len(recent)
           T == TimeTarget
           P == PartialsTarget
           s == Span
<1>1. /\ d \in Nat /\ n \in Nat /\ n > 0 /\ n <= P /\ s \in Nat /\ s > 0
      /\ T \in Nat /\ T > 0 /\ P \in Nat /\ P > 0
  BY SpanIs, AdjustmentAssumption DEF TypeOK, AdjustmentAssumption
<1>2. Full <=> n = P
  BY DEF Full
<1>3. CASE Full
  <2>1. new = (d * T) \div s
    <3>1. s * 1 = s /\ (d * T) * 1 = d * T
      BY <1>1
    <3> HIDE DEF s
    <3> QED BY <1>3, <3>1 DEF Rescaled, s
  <2> HIDE DEF d, s, T
  <2>2. d * T \in Nat /\ (s >= T => d * T <= d * s) /\ (s <= T => d * s <= d * T)
    BY <1>1, Monotone
  <2>3. new \in Nat /\ (s >= T => new <= d) /\ (s <= T => d <= new)
    BY <1>1, <2>1, <2>2, Quotient
  <2> QED BY <2>3, <1>1, <1>3 DEF d, s, T
<1>4. CASE ~Full
  <2> DEFINE spanned == s * P
             share == (d * T) * n
  <2>1. new = share \div spanned \/ new = (share \div spanned) - 1
    BY <1>4 DEF Rescaled
  <2> HIDE DEF d, s, T, n, P
  <2>2. d * T \in Nat /\ spanned \in Nat /\ spanned > 0 /\ share \in Nat
    BY <1>1
  <2>3. ASSUME s >= T PROVE share <= d * spanned
    <3>1. d * T <= d * s /\ d * T \in Nat /\ d * s \in Nat
      BY <1>1, <2>3, Monotone
    <3>2. (d * T) * n <= (d * s) * n
      BY <1>1, <3>1, Monotone
    <3>3. (d * s) * n <= (d * s) * P
      BY <1>1, <3>1, Monotone
    <3>4. (d * s) * P = d * (s * P)
      BY <1>1
    <3> DEFINE x == (d * T) * n
               y == (d * s) * n
               z == (d * s) * P
    <3>5. x \in Nat /\ y \in Nat /\ z \in Nat
      BY <1>1, <3>1
    <3>6. x <= y /\ y <= z
      BY <3>2, <3>3
    <3> HIDE DEF x, y, z
    <3>7. x <= z
      BY <3>5, <3>6
    <3> QED BY <3>4, <3>7 DEF x, z
  <2> HIDE DEF share, spanned
  <2>4. share \div spanned \in Nat /\ (s >= T => share \div spanned <= d)
    BY <1>1, <2>2, <2>3, Quotient
  <2> DEFINE q == share \div spanned
  <2>5. q \in Nat /\ (s >= T => q <= d) /\ (new = q \/ new = q - 1)
    BY <2>1, <2>4 DEF share, spanned
  <2> HIDE DEF q
  <2>6. new \in Int /\ (s >= T => new <= d)
    BY <2>5, <1>1
  <2> QED BY <2>6, <1>4 DEF d, s, T
<1> QED BY <1>3, <1>4

\* The answers of get_new_difficulty, and what a change takes.
LEMMA NewDifficultyIs ==
  ASSUME TypeOK, SortedInv, NEW new \in NewDifficulty(difficulty, now)
  PROVE  /\ new \in Nat /\ new >= MinDifficulty
         /\ new # difficulty => Settled(difficulty)
         /\ new > difficulty => Full /\ Span < TimeTarget
         /\ new < difficulty => Gap(now) > SlowGap \/ Span >= TimeTarget
<1> DEFINE d == difficulty
<1>1. d \in Nat /\ d >= MinDifficulty /\ MinDifficulty \in Nat /\ SlowGap \in Nat /\ TimeTarget \in Nat
  BY AdjustmentAssumption DEF TypeOK, AdjustmentAssumption
<1>2. ASSUME NEW x \in Int
      PROVE  /\ Floored(x) \in Nat /\ Floored(x) >= MinDifficulty
             /\ x <= d => Floored(x) <= d
             /\ x >= d => Floored(x) >= d
  BY <1>1, <1>2 DEF Floored
<1>3. CASE ~Settled(d)
  BY <1>1, <1>3 DEF NewDifficulty
<1>4. CASE Settled(d)
  <2>1. recent # <<>>
    BY <1>4 DEF Settled
  <2>2. Span \in Nat /\ Gap(now) \in Nat
    BY <2>1, SpanIs
  <2>3. CASE Gap(now) > 3 * SlowGap
    <3>1. new = Floored(d \div 5)
      BY <1>4, <2>3 DEF NewDifficulty
    <3>2. d \div 5 \in Int /\ d \div 5 <= d
      BY <1>1
    <3>3. Gap(now) > SlowGap
      BY <1>1, <2>2, <2>3
    <3>4. new \in Nat /\ new >= MinDifficulty /\ new <= d
      BY <1>2, <3>1, <3>2
    <3> QED BY <3>3, <3>4, <1>1, <1>4
  <2>4. CASE ~ (Gap(now) > 3 * SlowGap) /\ Gap(now) > SlowGap
    <3>1. new = Floored((2 * d) \div 3)
      BY <1>4, <2>4 DEF NewDifficulty
    <3>2. (2 * d) \div 3 \in Int /\ (2 * d) \div 3 <= d
      BY <1>1
    <3>3. new \in Nat /\ new >= MinDifficulty /\ new <= d
      BY <1>2, <3>1, <3>2
    <3> QED BY <2>4, <3>3, <1>1, <1>4
  <2>5. CASE ~ (Gap(now) > 3 * SlowGap) /\ ~ (Gap(now) > SlowGap) /\ TooEarly
    <3>1. new = d
      BY <1>4, <2>5 DEF NewDifficulty
    <3> QED BY <3>1, <1>1
  <2>6. CASE ~ (Gap(now) > 3 * SlowGap) /\ ~ (Gap(now) > SlowGap) /\ ~TooEarly
    <3>1. Span # 0 /\ \E x \in Rescaled(d) : new = Floored(x)
      <4>1. NewDifficulty(d, now) = IF Span = 0 THEN {} ELSE {Floored(x) : x \in Rescaled(d)}
        BY <1>4, <2>6 DEF NewDifficulty
      <4> QED BY <4>1
    <3>2. PICK x \in Rescaled(d) : new = Floored(x)
      BY <3>1
    <3>3. /\ x \in Int
          /\ Full /\ Span >= TimeTarget => x <= d
          /\ Full /\ Span <= TimeTarget => x >= d
          /\ ~Full /\ Span >= TimeTarget => x <= d
      BY <2>1, <3>1, RescaledIs
    <3>4. Full \/ Span >= TimeTarget
      BY <1>1, <2>2, <2>6 DEF TooEarly
    <3>5. /\ new \in Nat /\ new >= MinDifficulty
          /\ x <= d => new <= d
          /\ x >= d => new >= d
      BY <1>2, <3>2, <3>3
    <3> HIDE DEF d
    <3>6. new > d => Full /\ Span < TimeTarget
      BY <3>3, <3>4, <3>5, <1>1, <2>2
    <3>7. new < d => Span >= TimeTarget
      BY <3>3, <3>4, <3>5, <1>1, <2>2
    <3> QED BY <1>4, <3>5, <3>6, <3>7 DEF d
  <2> QED BY <2>3, <2>4, <2>5, <2>6
<1> QED BY <1>3, <1>4

------------------------------------------------------------------------------
(* The rows.                                                               *)

\* A sequence without its element k.
LEMMA RemoveAtIs ==
  ASSUME NEW S, NEW s \in Seq(S), NEW k \in DOMAIN s
  PROVE  /\ RemoveAt(s, k) \in Seq(S) /\ Len(RemoveAt(s, k)) = Len(s) - 1
         /\ \A i \in DOMAIN RemoveAt(s, k) :
              \/ i < k /\ i \in DOMAIN s /\ RemoveAt(s, k)[i] = s[i]
              \/ i >= k /\ i + 1 \in DOMAIN s /\ RemoveAt(s, k)[i] = s[i + 1]
<1> DEFINE n == Len(s)
           front == SubSeq(s, 1, k - 1)
           back == SubSeq(s, k + 1, n)
<1>1. n \in Nat /\ DOMAIN s = 1..n /\ k \in 1..n /\ \A i \in 1..n : s[i] \in S
  OBVIOUS
<1>2. front = [i \in 1..(k - 1) |-> s[i]]
  BY <1>1 DEF SubSeq
<1>3. back = [i \in 1..(n - k) |-> s[k + i]]
  BY <1>1 DEF SubSeq
<1> HIDE DEF front, back, n
<1>4. front \in Seq(S) /\ Len(front) = k - 1 /\ \A i \in 1..(k - 1) : front[i] = s[i]
  <2>1. k - 1 \in Nat /\ \A i \in 1..(k - 1) : i \in 1..n
    BY <1>1
  <2> QED BY <2>1, <1>1, <1>2
<1>5. back \in Seq(S) /\ Len(back) = n - k /\ \A i \in 1..(n - k) : back[i] = s[k + i]
  <2>1. n - k \in Nat /\ \A i \in 1..(n - k) : k + i \in 1..n
    BY <1>1
  <2> QED BY <2>1, <1>1, <1>3, SMTT(20)
<1> DEFINE t == front \o back
<1>6. t \in Seq(S) /\ Len(t) = n - 1 /\ DOMAIN t = 1..(n - 1)
  <2>1. t \in Seq(S) /\ Len(t) = Len(front) + Len(back) /\ DOMAIN t = 1..Len(t)
    <3>1. front \in Seq(S) /\ back \in Seq(S)
      BY <1>4, <1>5
    <3> QED BY <3>1
  <2>2. Len(t) = n - 1
    BY <1>1, <1>4, <1>5, <2>1
  <2> HIDE DEF t
  <2> QED BY <2>1, <2>2
<1>7. ASSUME NEW i \in 1..(n - 1)
      PROVE  \/ i < k /\ i \in 1..n /\ t[i] = s[i]
             \/ i >= k /\ i + 1 \in 1..n /\ t[i] = s[i + 1]
  <2>1. CASE i < k
    <3>1. t[i] = front[i] /\ i \in 1..(k - 1) /\ i \in 1..n
      BY <1>1, <1>4, <1>5, <2>1
    <3> QED BY <2>1, <3>1, <1>4
  <2>2. CASE i >= k
    <3>1. i - (k - 1) \in 1..(n - k) /\ k + (i - (k - 1)) = i + 1 /\ i + 1 \in 1..n
      BY <1>1, <2>2
    <3>2. t[i] = back[i - (k - 1)]
      <4>1. Len(front) = k - 1 /\ i \in 1..(Len(front) + Len(back)) /\ i > Len(front)
        BY <1>1, <1>4, <1>5, <2>2
      <4>2. t[i] = back[i - Len(front)]
        BY <4>1, <1>4, <1>5, SMTT(20)
      <4> QED BY <4>1, <4>2
    <3>3. back[i - (k - 1)] = s[k + (i - (k - 1))]
      BY <3>1, <1>5
    <3> QED BY <2>2, <3>1, <3>2, <3>3
  <2>3. i < k \/ i >= k
    BY <1>1
  <2> HIDE DEF t
  <2> QED BY <2>1, <2>2, <2>3
<1>8. RemoveAt(s, k) = t
  BY DEF RemoveAt, t, front, back, n
<1> QED BY <1>1, <1>6, <1>7, <1>8 DEF n

\* What is left of the rows when one more is read than the limit allows.
LEMMA NewestIs ==
  ASSUME NEW rows \in Seq(Row), SortedRows(rows), Len(rows) <= PartialsTarget + 1, NEW left \in Newest(rows)
  PROVE  /\ left \in Seq(Row) /\ SortedRows(left) /\ Len(left) <= PartialsTarget
         /\ Len(left) = Len(rows) \/ Len(left) = PartialsTarget
         /\ \A i \in DOMAIN left : \E j \in DOMAIN rows : j >= i /\ left[i] = rows[j]
<1>1. PartialsTarget \in Nat /\ Len(rows) \in Nat /\ DOMAIN rows = 1..Len(rows)
  BY AdjustmentAssumption DEF AdjustmentAssumption
<1>2. CASE Len(rows) <= PartialsTarget
  <2>1. left = rows
    BY <1>2 DEF Newest
  <2> QED BY <2>1, <1>1, <1>2
<1>3. CASE ~ (Len(rows) <= PartialsTarget)
  <2>1. PICK k \in DOMAIN rows : left = RemoveAt(rows, k)
    BY <1>3 DEF Newest
  <2>2. left \in Seq(Row) /\ Len(left) = Len(rows) - 1
    BY <2>1, RemoveAtIs
  <2>3. \A i \in DOMAIN left : \/ i < k /\ i \in DOMAIN rows /\ left[i] = rows[i]
                               \/ i >= k /\ i + 1 \in DOMAIN rows /\ left[i] = rows[i + 1]
    BY <2>1, RemoveAtIs
  <2>4. SortedRows(left)
    <3> SUFFICES ASSUME NEW i \in DOMAIN left, NEW j \in DOMAIN left, i < j
                 PROVE  left[i].time >= left[j].time
      BY DEF SortedRows
    <3>1. i \in Nat /\ j \in Nat /\ k \in Nat
      BY <2>2, <1>1
    <3>2. \/ left[i] = rows[i] /\ left[j] = rows[j] /\ i \in DOMAIN rows /\ j \in DOMAIN rows
          \/ left[i] = rows[i] /\ left[j] = rows[j + 1] /\ i \in DOMAIN rows /\ j + 1 \in DOMAIN rows
          \/ left[i] = rows[i + 1] /\ left[j] = rows[j + 1] /\ i + 1 \in DOMAIN rows /\ j + 1 \in DOMAIN rows
      BY <2>3, <3>1
    <3>3. i < j /\ i < j + 1 /\ i + 1 < j + 1
      BY <3>1
    <3> QED BY <3>2, <3>3 DEF SortedRows
  <2>5. \A i \in DOMAIN left : i + 1 >= i /\ i >= i
    BY <2>2
  <2>6. \A i \in DOMAIN left : \E j \in DOMAIN rows : j >= i /\ left[i] = rows[j]
    BY <2>3, <2>5
  <2> QED BY <2>2, <2>4, <2>6, <1>1, <1>3
<1> QED BY <1>2, <1>3

------------------------------------------------------------------------------
(* The steps.                                                              *)

\* Before the first partial the invariant holds.
LEMMA InitAdjust == Init => AdjustInv
<1> SUFFICES ASSUME Init PROVE AdjustInv
  OBVIOUS
<1>1. TypeOK
  <2>1. difficulty \in Nat /\ difficulty >= MinDifficulty
    BY AdjustmentAssumption DEF Init, AdjustmentAssumption
  <2>2. recent \in Seq([time : 0..MaxTime, difficulty : Nat]) /\ Len(recent) <= PartialsTarget
    BY AdjustmentAssumption DEF Init, AdjustmentAssumption
  <2>3. pending \in Seq([received : 0..MaxTime, worth : Nat]) /\ Len(pending) <= MaxPending
    BY AdjustmentAssumption DEF Init, AdjustmentAssumption
  <2>4. now \in 0..MaxTime /\ window \in 0..PartialsTarget
    BY AdjustmentAssumption DEF Init, AdjustmentAssumption
  <2> QED BY <2>1, <2>2, <2>3, <2>4 DEF TypeOK
<1>2. SortedInv
  BY DEF Init, SortedInv, SortedRows
<1>3. SpacedInv
  BY AdjustmentAssumption DEF Init, SpacedInv, AdjustmentAssumption
<1> QED BY <1>1, <1>2, <1>3 DEF AdjustInv

\* A partial is accepted, and the difficulty may be adjusted.
LEMMA AdjustReceive ==
  ASSUME AdjustInv, ReceivePartial
  PROVE  AdjustInv'
<1>1. TypeOK /\ SortedInv /\ SpacedInv
  BY DEF AdjustInv
<1>2. now' = now /\ recent' = recent /\ pending' = Append(pending, [received |-> now, worth |-> difficulty])
  BY DEF ReceivePartial
<1>3. \/ difficulty' \in NewDifficulty(difficulty, now) /\ window' = (IF difficulty' = difficulty THEN window ELSE 0)
      \/ difficulty' = difficulty /\ window' = window
  BY DEF ReceivePartial
<1>4. /\ difficulty' \in Nat /\ difficulty' >= MinDifficulty
      /\ difficulty' # difficulty => Settled(difficulty) /\ window' = 0
      /\ difficulty' = difficulty => window' = window
  <2>1. CASE difficulty' \in NewDifficulty(difficulty, now) /\ window' = (IF difficulty' = difficulty THEN window ELSE 0)
    BY <1>1, <2>1, NewDifficultyIs
  <2>2. CASE difficulty' = difficulty /\ window' = window
    BY <1>1, <2>2 DEF TypeOK
  <2> QED BY <1>3, <2>1, <2>2
<1>5. TypeOK'
  <2>1. pending' \in Seq([received : 0..MaxTime, worth : Nat]) /\ Len(pending') <= MaxPending
    <3>1. [received |-> now, worth |-> difficulty] \in [received : 0..MaxTime, worth : Nat]
      BY <1>1 DEF TypeOK
    <3>2. pending \in Seq([received : 0..MaxTime, worth : Nat]) /\ Len(pending) < MaxPending /\ MaxPending \in Nat
      BY <1>1, AdjustmentAssumption DEF TypeOK, ReceivePartial, AdjustmentAssumption
    <3> QED BY <1>2, <3>1, <3>2
  <2>2. window' \in 0..PartialsTarget
    BY <1>1, <1>4, AdjustmentAssumption DEF TypeOK, AdjustmentAssumption
  <2> QED BY <1>1, <1>2, <1>4, <2>1, <2>2 DEF TypeOK
<1>6. SortedInv'
  BY <1>1, <1>2 DEF SortedInv
<1>7. SpacedInv'
  <2>1. CASE difficulty' = difficulty
    BY <1>1, <1>2, <1>4, <2>1 DEF SpacedInv
  <2>2. CASE difficulty' # difficulty
    <3>1. recent # <<>> /\ \A i \in DOMAIN recent : recent[i].difficulty = difficulty
      BY <1>4, <2>2 DEF Settled
    <3>2. Len(recent) > 0
      BY <3>1, <1>1 DEF TypeOK
    <3> QED BY <1>2, <1>4, <2>2, <3>1, <3>2 DEF SpacedInv
  <2> QED BY <2>1, <2>2
<1> QED BY <1>5, <1>6, <1>7 DEF AdjustInv

\* A partial that waits is taken off the queue.
LEMMA PendingRemoved ==
  ASSUME TypeOK, NEW i \in DOMAIN pending
  PROVE  /\ RemoveAt(pending, i) \in Seq([received : 0..MaxTime, worth : Nat])
         /\ Len(RemoveAt(pending, i)) <= MaxPending
         /\ pending[i].worth \in Nat
<1>1. pending \in Seq([received : 0..MaxTime, worth : Nat]) /\ Len(pending) <= MaxPending /\ MaxPending \in Nat
  BY AdjustmentAssumption DEF TypeOK, AdjustmentAssumption
<1>2. RemoveAt(pending, i) \in Seq([received : 0..MaxTime, worth : Nat]) /\ Len(RemoveAt(pending, i)) = Len(pending) - 1
  BY <1>1, RemoveAtIs
<1>3. Len(pending) \in Nat
  BY <1>1
<1>4. pending[i].worth \in Nat
  <2> DEFINE S == [received : 0..MaxTime, worth : Nat]
  <2>1. \A x \in S : x.worth \in Nat
    OBVIOUS
  <2> HIDE DEF S
  <2>2. pending \in Seq(S)
    BY <1>1 DEF S
  <2>3. pending[i] \in S
    BY <2>2
  <2> QED BY <2>1, <2>3
<1> QED BY <1>1, <1>2, <1>3, <1>4

\* A credit adds a row in front, and at the limit one falls off behind.
LEMMA AdjustCredit ==
  ASSUME AdjustInv, NEW k \in DOMAIN pending, Credit(k)
  PROVE  AdjustInv'
<1> DEFINE row == [time |-> now, difficulty |-> pending[k].worth]
           rows == <<row>> \o recent
<1>1. TypeOK /\ SortedInv /\ SpacedInv
  BY DEF AdjustInv
<1>2. /\ recent' \in Newest(rows) /\ pending' = RemoveAt(pending, k)
      /\ window' = (IF window < PartialsTarget THEN window + 1 ELSE window)
      /\ UNCHANGED <<now, difficulty>>
  BY DEF Credit
<1>3. /\ recent \in Seq(Row) /\ Len(recent) \in Nat /\ Len(recent) <= PartialsTarget /\ PartialsTarget \in Nat
      /\ now \in 0..MaxTime /\ window \in 0..PartialsTarget /\ row \in Row /\ row.time = now
      /\ MaxTime \in Nat
  BY <1>1, PendingRemoved, AdjustmentAssumption DEF TypeOK, Row, AdjustmentAssumption
<1> HIDE DEF row
<1>4. /\ rows \in Seq(Row) /\ Len(rows) = Len(recent) + 1 /\ rows[1] = row
      /\ DOMAIN rows = 1..(Len(recent) + 1)
      /\ \A i \in DOMAIN rows : i # 1 => i - 1 \in DOMAIN recent /\ rows[i] = recent[i - 1]
  BY <1>3
<1> HIDE DEF rows
<1>5. SortedRows(rows) /\ \A i \in DOMAIN rows : rows[i].time <= now
  <2>1. \A i \in DOMAIN recent : recent[i].time <= now /\ recent[i].time \in Nat
    <3>1. \A i \in DOMAIN recent : recent[i] \in Row
      BY <1>3
    <3> QED BY <3>1, <1>1 DEF SortedInv, Row
  <2>2. \A i \in DOMAIN rows : rows[i].time <= now
    <3>1. now <= now
      BY <1>3
    <3> QED BY <1>3, <1>4, <2>1, <3>1
  <2>3. ASSUME NEW i \in DOMAIN rows, NEW j \in DOMAIN rows, i < j PROVE rows[i].time >= rows[j].time
    <3>1. i \in Nat /\ j \in Nat /\ j # 1 /\ (i # 1 => i - 1 < j - 1)
      BY <1>3, <1>4, <2>3
    <3>2. CASE i = 1
      BY <1>3, <1>4, <2>1, <3>1, <3>2
    <3>3. CASE i # 1
      BY <1>1, <1>4, <3>1, <3>3 DEF SortedInv, SortedRows
    <3> QED BY <3>2, <3>3
  <2> QED BY <2>2, <2>3 DEF SortedRows
<1>6. /\ recent' \in Seq(Row) /\ SortedRows(recent') /\ Len(recent') <= PartialsTarget
      /\ Len(recent') = Len(rows) \/ Len(recent') = PartialsTarget
      /\ \A i \in DOMAIN recent' : \E j \in DOMAIN rows : j >= i /\ recent'[i] = rows[j]
  <2>1. Len(rows) <= PartialsTarget + 1
    BY <1>3, <1>4
  <2> QED BY <2>1, <1>2, <1>4, <1>5, NewestIs
<1>7. TypeOK'
  <2>1. pending' \in Seq([received : 0..MaxTime, worth : Nat]) /\ Len(pending') <= MaxPending
    BY <1>1, <1>2, PendingRemoved
  <2>2. window' \in 0..PartialsTarget
    BY <1>2, <1>3
  <2> QED BY <1>1, <1>2, <1>6, <2>1, <2>2 DEF TypeOK, Row
<1>8. SortedInv'
  BY <1>2, <1>5, <1>6 DEF SortedInv
<1>9. SpacedInv'
  <2> SUFFICES ASSUME window' < PartialsTarget
               PROVE  /\ Len(recent') > window'
                      /\ \A i \in DOMAIN recent' : i > window' => recent'[i].difficulty # difficulty'
    BY DEF SpacedInv
  <2>1. window < PartialsTarget /\ window' = window + 1
    BY <1>2, <1>3
  <2>2. Len(recent) > window /\ \A i \in DOMAIN recent : i > window => recent[i].difficulty # difficulty
    BY <1>1, <2>1 DEF SpacedInv
  <2>3. Len(recent') > window'
    <3>1. Len(recent') \in Nat
      BY <1>6
    <3> QED BY <3>1, <1>3, <1>4, <1>6, <2>1, <2>2
  <2>4. ASSUME NEW i \in DOMAIN recent', i > window' PROVE recent'[i].difficulty # difficulty'
    <3>1. PICK j \in DOMAIN rows : j >= i /\ recent'[i] = rows[j]
      BY <1>6
    <3>2. i \in Nat /\ j \in Nat
      BY <1>3, <1>4, <1>6
    <3>3. j # 1 /\ j - 1 > window
      BY <1>3, <2>1, <2>4, <3>1, <3>2
    <3>4. j - 1 \in DOMAIN recent /\ rows[j] = recent[j - 1]
      BY <1>4, <3>3
    <3> QED BY <1>2, <2>2, <3>1, <3>3, <3>4
  <2> QED BY <2>3, <2>4
<1> QED BY <1>7, <1>8, <1>9 DEF AdjustInv

\* Steps that leave the rows alone.
LEMMA AdjustOther ==
  ASSUME AdjustInv, (\E k \in DOMAIN pending : Drop(k)) \/ UpdateDifficulty \/ Tick \/ UNCHANGED vars
  PROVE  AdjustInv'
<1>1. TypeOK /\ SortedInv /\ SpacedInv
  BY DEF AdjustInv
<1>2. recent' = recent /\ ((window' = window /\ difficulty' = difficulty) \/ window' = PartialsTarget)
  BY DEF Drop, UpdateDifficulty, Tick, vars
<1>3. TypeOK'
  <2>1. CASE \E k \in DOMAIN pending : Drop(k)
    <3>1. pending' \in Seq([received : 0..MaxTime, worth : Nat]) /\ Len(pending') <= MaxPending
      BY <1>1, <2>1, PendingRemoved DEF Drop
    <3> QED BY <1>1, <2>1, <3>1 DEF TypeOK, Drop
  <2>2. CASE UpdateDifficulty
    <3>1. difficulty' \in Nat /\ difficulty' >= MinDifficulty /\ window' \in 0..PartialsTarget
      BY <2>2, AdjustmentAssumption DEF UpdateDifficulty, AdjustmentAssumption
    <3> QED BY <1>1, <2>2, <3>1 DEF TypeOK, UpdateDifficulty
  <2>3. CASE Tick
    <3>1. now' \in 0..MaxTime
      BY <1>1, <2>3, AdjustmentAssumption DEF TypeOK, Tick, AdjustmentAssumption
    <3> QED BY <1>1, <2>3, <3>1 DEF TypeOK, Tick
  <2>4. CASE UNCHANGED vars
    BY <1>1, <2>4 DEF TypeOK, vars
  <2> QED BY <2>1, <2>2, <2>3, <2>4
<1>4. SortedInv'
  <2>1. now \in Nat /\ now' \in Nat /\ now <= now'
    <3>1. now' = now \/ now' = now + 1
      BY DEF Drop, UpdateDifficulty, Tick, vars
    <3> QED BY <3>1, <1>1 DEF TypeOK
  <2>2. \A i \in DOMAIN recent : recent[i].time \in Nat
    <3>1. recent \in Seq(Row) /\ MaxTime \in Nat
      BY <1>1, AdjustmentAssumption DEF TypeOK, Row, AdjustmentAssumption
    <3>2. \A i \in DOMAIN recent : recent[i] \in Row
      BY <3>1
    <3> QED BY <3>1, <3>2 DEF Row
  <2> QED BY <1>1, <1>2, <2>1, <2>2 DEF SortedInv
<1>5. SpacedInv'
  BY <1>1, <1>2, AdjustmentAssumption DEF SpacedInv, AdjustmentAssumption
<1> QED BY <1>3, <1>4, <1>5 DEF AdjustInv

\* Every step preserves it.
LEMMA NextAdjust == AdjustInv /\ [Next]_vars => AdjustInv'
BY AdjustReceive, AdjustCredit, AdjustOther DEF Next

------------------------------------------------------------------------------
(* The theorems.                                                           *)

\* The invariant: the rows are sorted, and how far they go back to the last
\* adjustment.
THEOREM AdjustInvariance == Spec => []AdjustInv
<1>1. Init => AdjustInv
  BY InitAdjust
<1>2. AdjustInv /\ [Next]_vars => AdjustInv'
  BY NextAdjust
<1> QED BY <1>1, <1>2, PTL DEF Spec

\* The variables keep their types; no division takes the difficulty below the
\* pool's minimum.
THEOREM AdjustmentTypeCorrect == Spec => []TypeOK
<1>1. AdjustInv => TypeOK
  BY DEF AdjustInv
<1> QED BY <1>1, AdjustInvariance, PTL

\* The difficulty is raised only for a full target of partials in less than the
\* target time, and lowered only after a long pause or for slow partials,
\* whatever the rounding of get_new_difficulty.
THEOREM AlwaysAdjustedForCause == Spec => AdjustedForCause
<1>1. AdjustInv /\ [Next]_vars =>
        [ReceivePartial =>
           /\ difficulty' > difficulty => Full /\ Span < TimeTarget
           /\ difficulty' < difficulty => Gap(now) > SlowGap \/ Span >= TimeTarget]_vars
  <2> SUFFICES ASSUME AdjustInv, ReceivePartial
               PROVE  /\ difficulty' > difficulty => Full /\ Span < TimeTarget
                      /\ difficulty' < difficulty => Gap(now) > SlowGap \/ Span >= TimeTarget
    OBVIOUS
  <2>1. TypeOK /\ SortedInv /\ difficulty \in Nat
    BY DEF AdjustInv, TypeOK
  <2>2. difficulty' \in NewDifficulty(difficulty, now) \/ difficulty' = difficulty
    BY DEF ReceivePartial
  <2>3. ~ (difficulty > difficulty) /\ ~ (difficulty < difficulty)
    BY <2>1
  <2> QED BY <2>1, <2>2, <2>3, NewDifficultyIs
<1> QED BY <1>1, AdjustInvariance, PTL DEF Spec, AdjustedForCause

\* Between two adjustments a whole target of partials is confirmed, in whatever
\* order and however late, and whichever of several rows of one second falls off.
THEOREM AlwaysSpaced == Spec => AdjustmentsAreSpaced
<1>1. AdjustInv /\ [Next]_vars =>
        [ReceivePartial /\ difficulty' # difficulty => window = PartialsTarget]_vars
  <2> SUFFICES ASSUME AdjustInv, ReceivePartial, difficulty' # difficulty, window # PartialsTarget
               PROVE  FALSE
    OBVIOUS
  <2>1. TypeOK /\ SortedInv /\ SpacedInv
    BY DEF AdjustInv
  <2>2. difficulty' \in NewDifficulty(difficulty, now)
    BY DEF ReceivePartial
  <2>3. \A i \in DOMAIN recent : recent[i].difficulty = difficulty
    BY <2>1, <2>2, NewDifficultyIs DEF Settled
  <2>4. window \in Nat /\ window < PartialsTarget /\ recent \in Seq(Row)
    BY <2>1, AdjustmentAssumption DEF TypeOK, Row, AdjustmentAssumption
  <2>5. Len(recent) > window /\ \A i \in DOMAIN recent : i > window => recent[i].difficulty # difficulty
    BY <2>1, <2>4 DEF SpacedInv
  <2>6. Len(recent) \in DOMAIN recent
    BY <2>4, <2>5
  <2> QED BY <2>3, <2>5, <2>6
<1> QED BY <1>1, AdjustInvariance, PTL DEF Spec, AdjustmentsAreSpaced
==============================================================================
