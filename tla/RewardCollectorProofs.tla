------------------------ MODULE RewardCollectorProofs ------------------------
(***************************************************************************)
(* For any number of farmers and coins, any threshold, lag and faults:     *)
(* bundles absorb only rewards that no reorg can take away, and are built  *)
(* on a state of the singleton that pays this pool.                        *)
(***************************************************************************)
EXTENDS RewardCollector, SumsProofs

------------------------------------------------------------------------------
(* The inductive invariant.                                                *)

\* A coin that is there to stay.
Aged(c) == age[c] # None /\ age[c] >= Threshold

\* Whatever is absorbed, waits to be absorbed or has been found is there to
\* stay: what the mempool may get back from a block that is replaced, too.
AgedInv ==
  /\ \A f \in Farmers : \A c \in mempool[f] : Aged(c)
  /\ \A f \in Farmers : \A i \in DOMAIN path[f] : \A c \in path[f][i].coins : Aged(c)
  /\ \A c \in found \cup bundle.coins : Aged(c)

\* Only the last spend of a singleton may be in the last block.
DeepInv ==
  \A f \in Farmers : \A i \in 1..Len(path[f]) : i < Len(path[f]) => path[f][i].age >= 1

\* After spend t, f's singleton pays this pool, or a reorg has undone the spend
\* that brought it back.
Pays(f, t) == StateAt(f, t) \in Assigned \/ <<f, t + 1>> \in revoked

\* A spend t of f's singleton that no reorg undoes, and that pays this pool.  If
\* not, it is spent: for good, or by a return to this pool.
Sound(f, t) ==
  /\ t <= Len(path[f]) /\ (t # 0 => path[f][t].age >= 1)
  /\ \/ Pays(f, t)
     \/ t < Len(path[f]) /\ (path[f][t + 1].age >= 1 \/ path[f][t + 1].to \in Assigned)

\* The tips of members that are stored, or that the loop holds, are such spends.
TipsInv ==
  \A f \in Farmers \ strangers :
    /\ record[f] # None /\ record[f].member => Sound(f, record[f].tip)
    /\ adding # None /\ adding.farmer = f => Sound(f, adding.tip)
    /\ \A i \in DOMAIN todo : todo[i].farmer = f => Sound(f, todo[i].tip)

\* A tip that the loop has found unspent pays this pool, and what is spent after
\* that is above the peak it holds, so that it builds on that tip, unless there
\* was a reorg.
WalkInv ==
  /\ pc \in {"tip", "walk", "push"} => todo # <<>>
  /\ pc = "walk" /\ ~shaken =>
       \A i \in DOMAIN path[Head(todo).farmer] :
         i > Head(todo).tip => path[Head(todo).farmer][i].age < held
  /\ pc = "push" /\ ~shaken => bundle.tip = Head(todo).tip
  /\ pc \in {"walk", "push"} /\ Head(todo).farmer \notin strangers => Pays(Head(todo).farmer, Head(todo).tip)

\* The inductive invariant of the collector.
CollectInv == TypeOK /\ AgedInv /\ DeepInv /\ TipsInv /\ WalkInv

------------------------------------------------------------------------------
(* Helpers.                                                                *)

\* The largest of finitely many numbers is one of them.
LEMMA Greatest ==
  ASSUME NEW n \in Nat, NEW S, S \subseteq 0..n, S # {}
  PROVE  Max(S) \in S /\ \A x \in S : Max(S) >= x
<1> DEFINE T == {n - x : x \in S}
<1>1. T \subseteq Nat /\ T # {}
  <2>1. \A x \in S : x \in Nat /\ x <= n /\ n - x \in Nat
    OBVIOUS
  <2>2. PICK x \in S : TRUE
    OBVIOUS
  <2>3. n - x \in T
    BY <2>2
  <2> QED BY <2>1, <2>3
<1>2. PICK m \in T : \A k \in T : m <= k
  BY <1>1, Least
<1>3. PICK y \in S : m = n - y
  BY <1>2
<1>4. \A x \in S : y >= x
  <2> SUFFICES ASSUME NEW x \in S PROVE y >= x
    OBVIOUS
  <2>1. n - y <= n - x
    BY <1>2, <1>3
  <2> QED BY <2>1
<1> HIDE DEF T
<1> QED BY <1>3, <1>4 DEF Max

\* What the types say.
LEMMA Facts ==
  ASSUME TypeOK
  PROVE  /\ Threshold \in Nat /\ Threshold >= 1 /\ MaxLag \in Nat /\ MaxAge = Threshold + MaxLag /\ None \notin Nat
         /\ lag \in Nat /\ held \in Nat /\ lag <= MaxLag /\ held <= MaxLag
         /\ \A f \in Farmers :
              /\ path[f] \in Seq(Spend) /\ Len(path[f]) \in Nat /\ DOMAIN path[f] = 1..Len(path[f])
              /\ mempool[f] \subseteq Coins /\ Before[f] \in States
         /\ \A f \in Farmers : \A i \in 1..Len(path[f]) :
              /\ path[f][i] \in Spend /\ path[f][i].to \in States /\ path[f][i].coins \subseteq Coins
              /\ path[f][i].age \in Nat /\ path[f][i].age <= MaxAge
         /\ \A c \in Coins : age[c] = None \/ (age[c] \in Nat /\ age[c] <= MaxAge)
<1>1. /\ Threshold \in Nat /\ Threshold >= 1 /\ MaxLag \in Nat /\ MaxAge = Threshold + MaxLag /\ None \notin Nat
      /\ Before \in [Farmers -> States]
  BY CollectorAssumption DEF CollectorAssumption, MaxAge
<1>2. lag \in Nat /\ held \in Nat /\ lag <= MaxLag /\ held <= MaxLag
  BY <1>1 DEF TypeOK
<1>3. \A f \in Farmers :
        /\ path[f] \in Seq(Spend) /\ Len(path[f]) \in Nat /\ DOMAIN path[f] = 1..Len(path[f])
        /\ mempool[f] \subseteq Coins /\ Before[f] \in States
  BY <1>1 DEF TypeOK
<1>4. \A f \in Farmers : \A i \in 1..Len(path[f]) : path[f][i] \in Spend
  BY <1>3
<1>5. \A s \in Spend : s.to \in States /\ s.coins \subseteq Coins /\ s.age \in Nat /\ s.age <= MaxAge
  BY <1>1 DEF Spend
<1>6. \A c \in Coins : age[c] = None \/ (age[c] \in Nat /\ age[c] <= MaxAge)
  BY <1>1 DEF TypeOK
<1> QED BY <1>1, <1>2, <1>3, <1>4, <1>5, <1>6

------------------------------------------------------------------------------
(* The chain.                                                              *)

\* The first n of f's spends are left: all of them, or all but one without a
\* block on top of it, which is noted when it was a return.
Left(f, n) ==
  \/ n = Len(path[f])
  \/ /\ n = Len(path[f]) - 1 /\ path[f][Len(path[f])].age = 0
     /\ Returned(f) => <<f, Len(path[f])>> \in revoked'

\* What a new block or a reorg puts its block on: the spends p, each older than
\* the last block, the coins a and bundles m.
Under(p, a, m) ==
  /\ p \in [Farmers -> Seq(Spend)] /\ a \in [Coins -> 0..MaxAge \cup {None}] /\ m \in [Farmers -> SUBSET Coins]
  /\ \A f \in Farmers :
       /\ Left(f, Len(p[f]))
       /\ \A i \in 1..Len(p[f]) : /\ p[f][i].to = path[f][i].to /\ p[f][i].coins = path[f][i].coins
                                  /\ p[f][i].age >= path[f][i].age /\ p[f][i].age >= 1
       /\ \A c \in m[f] : Aged(c)
  /\ \A c \in Coins : Aged(c) => a[c] # None /\ a[c] >= Threshold

\* A new block is on top of them all, each a block older.
Younger(p) ==
  \A f \in Farmers : /\ Len(p[f]) = Len(path[f])
                     /\ \A i \in 1..Len(p[f]) : p[f][i].age <= path[f][i].age + 1

\* An age grows by a block, up to the bound.
LEMMA OlderIs ==
  ASSUME MaxAge \in Nat, MaxAge >= 1, NEW n \in 0..MaxAge
  PROVE  Older(n) \in 0..MaxAge /\ n <= Older(n) /\ Older(n) <= n + 1 /\ Older(n) >= 1
BY DEF Older

\* The block that is added, on what.
LEMMA NewBlockUnder ==
  ASSUME TypeOK, AgedInv, NewBlock
  PROVE  \E p, a, m : Under(p, a, m) /\ Younger(p) /\ Block(p, a, m)
<1> DEFINE q(f) == [i \in DOMAIN path[f] |-> [path[f][i] EXCEPT !.age = Older(@)]]
           p == [f \in Farmers |-> q(f)]
           a == [c \in Coins |-> IF age[c] = None THEN None ELSE Older(age[c])]
<1>1. Block(p, a, mempool)
  BY DEF NewBlock
<1>2. MaxAge \in Nat /\ MaxAge >= 1 /\ Threshold \in Nat /\ None \notin Nat
  BY Facts
<1>3. ASSUME NEW f \in Farmers
      PROVE  /\ p[f] \in Seq(Spend) /\ Len(p[f]) = Len(path[f])
             /\ \A i \in 1..Len(p[f]) : /\ p[f][i].to = path[f][i].to /\ p[f][i].coins = path[f][i].coins
                                        /\ p[f][i].age >= path[f][i].age /\ p[f][i].age <= path[f][i].age + 1 /\ p[f][i].age >= 1
  <2>1. \A s \in Spend : s.age \in 0..MaxAge
    BY DEF Spend
  <2>2. \A s \in Spend : LET t == [s EXCEPT !.age = Older(@)]
                         IN  /\ t \in Spend /\ t.to = s.to /\ t.coins = s.coins
                             /\ t.age >= s.age /\ t.age <= s.age + 1 /\ t.age >= 1
    <3> SUFFICES ASSUME NEW s \in Spend
                 PROVE  LET t == [s EXCEPT !.age = Older(@)]
                        IN  /\ t \in Spend /\ t.to = s.to /\ t.coins = s.coins
                            /\ t.age >= s.age /\ t.age <= s.age + 1 /\ t.age >= 1
      OBVIOUS
    <3>1. s.age \in 0..MaxAge /\ Older(s.age) \in 0..MaxAge /\ s.age <= Older(s.age) /\ Older(s.age) <= s.age + 1 /\ Older(s.age) >= 1
      BY <1>2, <2>1, OlderIs
    <3>2. [s EXCEPT !.age = Older(@)] = [to |-> s.to, coins |-> s.coins, age |-> Older(s.age)]
      BY DEF Spend
    <3>3. s.to \in States /\ s.coins \in SUBSET Coins
      BY DEF Spend
    <3> QED BY <3>1, <3>2, <3>3 DEF Spend
  <2>3. /\ path[f] \in Seq(Spend) /\ Len(path[f]) \in Nat /\ DOMAIN path[f] = 1..Len(path[f])
        /\ \A i \in 1..Len(path[f]) : path[f][i] \in Spend
    BY Facts
  <2>4. p[f] = q(f) /\ \A i \in 1..Len(path[f]) : q(f)[i] = [path[f][i] EXCEPT !.age = Older(@)]
    BY <2>3
  <2>5. q(f) \in Seq(Spend) /\ Len(q(f)) = Len(path[f])
    BY <2>2, <2>3
  <2> HIDE DEF p, q
  <2>6. ASSUME NEW i \in 1..Len(p[f])
        PROVE  /\ p[f][i].to = path[f][i].to /\ p[f][i].coins = path[f][i].coins
               /\ p[f][i].age >= path[f][i].age /\ p[f][i].age <= path[f][i].age + 1 /\ p[f][i].age >= 1
    <3>1. i \in 1..Len(path[f])
      BY <2>4, <2>5
    <3>2. path[f][i] \in Spend /\ p[f][i] = [path[f][i] EXCEPT !.age = Older(@)]
      BY <2>3, <2>4, <3>1
    <3> QED BY <2>2, <3>2
  <2> QED BY <2>4, <2>5, <2>6
<1>4. p \in [Farmers -> Seq(Spend)]
  BY <1>3
<1>5. a \in [Coins -> 0..MaxAge \cup {None}] /\ \A c \in Coins : Aged(c) => a[c] # None /\ a[c] >= Threshold
  <2> SUFFICES ASSUME NEW c \in Coins
               PROVE  a[c] \in 0..MaxAge \cup {None} /\ (Aged(c) => a[c] # None /\ a[c] >= Threshold)
    OBVIOUS
  <2>1. CASE age[c] = None
    BY <2>1 DEF Aged
  <2>2. CASE age[c] # None
    <3>1. age[c] \in 0..MaxAge
      BY <2>2 DEF TypeOK
    <3>2. Older(age[c]) \in 0..MaxAge /\ age[c] <= Older(age[c])
      BY <1>2, <3>1, OlderIs
    <3>3. a[c] = Older(age[c])
      BY <2>2
    <3> QED BY <1>2, <3>1, <3>2, <3>3 DEF Aged
  <2> QED BY <2>1, <2>2
<1>6. mempool \in [Farmers -> SUBSET Coins] /\ \A f \in Farmers : \A c \in mempool[f] : Aged(c)
  BY DEF TypeOK, AgedInv
<1> HIDE DEF p, a
<1>7. Under(p, a, mempool) /\ Younger(p)
  BY <1>3, <1>4, <1>5, <1>6 DEF Under, Younger, Left
<1> QED BY <1>1, <1>7

\* What is left after a reorg, and what the block that replaces the last one
\* is put on: spends and coins of that block are gone, its bundles are back.
LEMMA ReorgUnder ==
  ASSUME TypeOK, AgedInv, DeepInv, Reorg
  PROVE  \E p, a, m : Under(p, a, m) /\ Block(p, a, m)
<1> DEFINE undone == {f \in Farmers : InLastBlock(f)}
           p == [f \in Farmers |-> IF f \in undone THEN Front(path[f]) ELSE path[f]]
           a == [c \in Coins |-> IF age[c] = 0 THEN None ELSE age[c]]
           m == [f \in Farmers |-> IF f \in undone THEN Last(path[f]).coins ELSE mempool[f]]
<1>1. Block(p, a, m) /\ revoked' = revoked \cup {<<f, Len(path[f])>> : f \in {g \in undone : Returned(g)}}
  BY DEF Reorg
<1>2. MaxAge \in Nat /\ Threshold \in Nat /\ Threshold >= 1 /\ None \notin Nat
  BY Facts
<1>3. ASSUME NEW f \in Farmers
      PROVE  /\ p[f] \in Seq(Spend) /\ m[f] \in SUBSET Coins
             /\ Left(f, Len(p[f]))
             /\ \A i \in 1..Len(p[f]) : /\ p[f][i].to = path[f][i].to /\ p[f][i].coins = path[f][i].coins
                                        /\ p[f][i].age >= path[f][i].age /\ p[f][i].age >= 1
             /\ \A c \in m[f] : Aged(c)
  <2>1. /\ path[f] \in Seq(Spend) /\ Len(path[f]) \in Nat /\ DOMAIN path[f] = 1..Len(path[f])
        /\ \A i \in 1..Len(path[f]) : path[f][i].age \in Nat /\ path[f][i].coins \subseteq Coins
        /\ mempool[f] \subseteq Coins
    BY Facts
  <2>2. CASE f \in undone
    <3>1. /\ path[f] # <<>> /\ Last(path[f]).age = 0 /\ Last(path[f]) = path[f][Len(path[f])]
          /\ p[f] = Front(path[f]) /\ m[f] = Last(path[f]).coins
      BY <2>2 DEF Last, InLastBlock
    <3>2. Len(path[f]) >= 1 /\ Len(path[f]) \in DOMAIN path[f]
      BY <2>1, <3>1
    <3>3. Front(path[f]) \in Seq(Spend) /\ Len(Front(path[f])) = Len(path[f]) - 1
      BY <2>1, <3>2 DEF Front
    <3>4. \A i \in 1..(Len(path[f]) - 1) : Front(path[f])[i] = path[f][i]
      BY <2>1, <3>2 DEF Front
    <3>5. \A c \in m[f] : Aged(c)
      BY <3>1, <3>2 DEF AgedInv
    <3>6. Returned(f) => <<f, Len(path[f])>> \in revoked'
      BY <1>1, <2>2
    <3> HIDE DEF p, m, undone
    <3>7. \A i \in 1..Len(p[f]) : i \in 1..Len(path[f]) /\ i < Len(path[f]) /\ p[f][i] = path[f][i] /\ path[f][i].age \in Nat
      BY <2>1, <3>1, <3>3, <3>4
    <3>8. m[f] \in SUBSET Coins
      BY <2>1, <3>1, <3>2
    <3>9. \A i \in 1..Len(p[f]) : /\ p[f][i].to = path[f][i].to /\ p[f][i].coins = path[f][i].coins
                                  /\ p[f][i].age >= path[f][i].age /\ p[f][i].age >= 1
      BY <3>7 DEF DeepInv
    <3>10. Left(f, Len(p[f]))
      BY <3>1, <3>3, <3>6 DEF Left
    <3> QED BY <3>1, <3>3, <3>5, <3>8, <3>9, <3>10
  <2>3. CASE f \notin undone
    <3>1. p[f] = path[f] /\ m[f] = mempool[f]
      BY <2>3
    <3>2. \A i \in 1..Len(path[f]) : path[f][i].age >= 1
      <4> SUFFICES ASSUME NEW i \in 1..Len(path[f]) PROVE path[f][i].age >= 1
        OBVIOUS
      <4>1. CASE i < Len(path[f])
        BY <4>1 DEF DeepInv
      <4>2. CASE i = Len(path[f])
        <5>1. path[f] # <<>> /\ Last(path[f]) = path[f][i]
          BY <2>1, <4>2 DEF Last
        <5>2. path[f][i].age # 0 /\ path[f][i].age \in Nat
          BY <2>1, <2>3, <5>1 DEF InLastBlock
        <5> QED BY <5>2
      <4> QED BY <2>1, <4>1, <4>2
    <3> HIDE DEF p, m, undone
    <3> QED BY <2>1, <3>1, <3>2 DEF AgedInv, Left
  <2> QED BY <2>2, <2>3
<1>4. p \in [Farmers -> Seq(Spend)] /\ m \in [Farmers -> SUBSET Coins]
  BY <1>3
<1>5. a \in [Coins -> 0..MaxAge \cup {None}] /\ \A c \in Coins : Aged(c) => a[c] # None /\ a[c] >= Threshold
  BY <1>2 DEF TypeOK, Aged
<1> HIDE DEF p, a, m, undone
<1>6. Under(p, a, m)
  BY <1>3, <1>4, <1>5 DEF Under
<1> QED BY <1>1, <1>6

\* A block adds a coin, or a spend that absorbs what a bundle had, or one by
\* which the farmer moves on; it takes no age away.
LEMMA BlockIs ==
  ASSUME TypeOK, NEW p, NEW a, NEW m, Under(p, a, m), Block(p, a, m)
  PROVE  /\ path' \in [Farmers -> Seq(Spend)] /\ age' \in [Coins -> 0..MaxAge \cup {None}]
         /\ mempool' \in [Farmers -> SUBSET Coins]
         /\ \A f \in Farmers :
              \/ path'[f] = p[f]
              \/ \E s \in Spend : path'[f] = Append(p[f], s) /\ s.age = 0 /\ s.coins \subseteq m[f]
         /\ \A f \in Farmers : mempool'[f] \subseteq m[f]
         /\ \A c \in Coins : Aged(c) => Aged(c)'
<1>1. /\ p \in [Farmers -> Seq(Spend)] /\ a \in [Coins -> 0..MaxAge \cup {None}] /\ m \in [Farmers -> SUBSET Coins]
      /\ \A c \in Coins : Aged(c) => a[c] # None /\ a[c] >= Threshold
  BY DEF Under
<1>2. MaxAge \in Nat /\ None \notin Nat /\ 0 \in 0..MaxAge /\ \A f \in Farmers : Before[f] \in States
  BY Facts
<1>3. \A f \in Farmers : StateIn(p, f) \in States
  <2> SUFFICES ASSUME NEW f \in Farmers PROVE StateIn(p, f) \in States
    OBVIOUS
  <2>1. CASE p[f] = <<>>
    BY <1>2, <2>1 DEF StateIn
  <2>2. CASE p[f] # <<>>
    <3>1. p[f] \in Seq(Spend) /\ Len(p[f]) \in DOMAIN p[f]
      BY <1>1, <2>2
    <3>2. p[f][Len(p[f])] \in Spend
      BY <3>1
    <3>3. p[f][Len(p[f])].to \in States
      BY <3>2 DEF Spend
    <3> QED BY <2>2, <3>3 DEF StateIn, Last
  <2> QED BY <2>1, <2>2
<1>4. ASSUME NEW f \in Farmers, NEW to \in States, NEW coins \in SUBSET Coins, SpendIn(p, f, to, coins),
             coins \subseteq m[f],
             mempool' = [m EXCEPT ![f] = {}], age' = a
      PROVE  /\ path' \in [Farmers -> Seq(Spend)] /\ mempool' \in [Farmers -> SUBSET Coins]
             /\ \A g \in Farmers :
                  \/ path'[g] = p[g]
                  \/ \E s \in Spend : path'[g] = Append(p[g], s) /\ s.age = 0 /\ s.coins \subseteq m[g]
             /\ \A g \in Farmers : mempool'[g] \subseteq m[g]
  <2>1. PICK s \in Spend : s = [to |-> to, coins |-> coins, age |-> 0]
    BY <1>2 DEF Spend
  <2>2. s.to = to /\ s.coins = coins /\ s.age = 0
    BY <2>1
  <2>3. path' = [p EXCEPT ![f] = Append(p[f], s)]
    BY <1>4, <2>1 DEF SpendIn
  <2>4. Append(p[f], s) \in Seq(Spend)
    BY <1>1
  <2>5. path' \in [Farmers -> Seq(Spend)] /\ \A g \in Farmers : path'[g] = IF g = f THEN Append(p[f], s) ELSE p[g]
    BY <1>1, <2>3, <2>4
  <2>6. mempool' \in [Farmers -> SUBSET Coins] /\ \A g \in Farmers : mempool'[g] \subseteq m[g]
    BY <1>1, <1>4
  <2> QED BY <1>4, <2>2, <2>5, <2>6
<1>5. CASE path' = p /\ age' = a /\ mempool' = m
  BY <1>1, <1>5 DEF Aged
<1>6. CASE \E c \in Coins : /\ a[c] = None
                            /\ age' = [a EXCEPT ![c] = 0] /\ path' = p /\ mempool' = m
  BY <1>1, <1>2, <1>6 DEF Aged
<1>7. CASE \E f \in Farmers : /\ m[f] # {}
                              /\ SpendIn(p, f, StateIn(p, f), m[f])
                              /\ mempool' = [m EXCEPT ![f] = {}] /\ age' = a
  <2>1. PICK f \in Farmers : /\ SpendIn(p, f, StateIn(p, f), m[f])
                             /\ mempool' = [m EXCEPT ![f] = {}] /\ age' = a
    BY <1>7
  <2>2. m[f] \in SUBSET Coins /\ StateIn(p, f) \in States
    BY <1>1, <1>3
  <2> QED BY <1>1, <1>4, <2>1, <2>2 DEF Aged
<1>8. CASE \E f \in Farmers, to \in States : /\ to \in MayMove(StateIn(p, f)) /\ Moves(p[f]) < MaxMoves[f]
                                             /\ SpendIn(p, f, to, {})
                                             /\ mempool' = [m EXCEPT ![f] = {}] /\ age' = a
  <2>1. PICK f \in Farmers, to \in States : /\ SpendIn(p, f, to, {})
                                            /\ mempool' = [m EXCEPT ![f] = {}] /\ age' = a
    BY <1>8
  <2>2. {} \in SUBSET Coins /\ {} \subseteq m[f]
    OBVIOUS
  <2> QED BY <1>1, <1>4, <2>1, <2>2 DEF Aged
<1> QED BY <1>5, <1>6, <1>7, <1>8 DEF Block

\* What a block or a reorg leaves of each singleton's spends: those it does not
\* undo, no younger than before, and at most one on top of them.
Kept(f, n) ==
  /\ Left(f, n)
  /\ Len(path'[f]) \in {n, n + 1}
  /\ \A i \in 1..n : /\ path'[f][i].to = path[f][i].to /\ path'[f][i].coins = path[f][i].coins
                     /\ path'[f][i].age >= path[f][i].age /\ path'[f][i].age >= 1
  /\ Len(path'[f]) = n + 1 =>
       /\ path'[f][n + 1].age = 0
       /\ \A c \in path'[f][n + 1].coins : Aged(c)

\* A block on what it may be put on leaves that much of the chain.
LEMMA ChainKeeps ==
  ASSUME TypeOK, NEW p, NEW a, NEW m, Under(p, a, m), Block(p, a, m)
  PROVE  /\ path' \in [Farmers -> Seq(Spend)] /\ age' \in [Coins -> 0..MaxAge \cup {None}]
         /\ mempool' \in [Farmers -> SUBSET Coins]
         /\ \A c \in Coins : Aged(c) => Aged(c)'
         /\ \A f \in Farmers : \A c \in mempool'[f] : Aged(c)
         /\ \A f \in Farmers : Len(p[f]) \in Nat /\ Kept(f, Len(p[f]))
         /\ Younger(p) => \A f \in Farmers : \A i \in 1..Len(path[f]) : path'[f][i].age <= path[f][i].age + 1
<1>1. /\ path' \in [Farmers -> Seq(Spend)] /\ age' \in [Coins -> 0..MaxAge \cup {None}]
      /\ mempool' \in [Farmers -> SUBSET Coins]
      /\ \A c \in Coins : Aged(c) => Aged(c)'
      /\ \A f \in Farmers : mempool'[f] \subseteq m[f]
  BY BlockIs
<1>2. \A f \in Farmers : \A c \in m[f] : Aged(c)
  BY DEF Under
<1>3. ASSUME NEW f \in Farmers PROVE Len(p[f]) \in Nat /\ Kept(f, Len(p[f]))
  <2> DEFINE n == Len(p[f])
  <2>1. /\ p[f] \in Seq(Spend) /\ n \in Nat /\ Left(f, n)
        /\ \A i \in 1..n : /\ p[f][i].to = path[f][i].to /\ p[f][i].coins = path[f][i].coins
                           /\ p[f][i].age >= path[f][i].age /\ p[f][i].age >= 1
    BY DEF Under
  <2>2. CASE path'[f] = p[f]
    <3>1. Len(path'[f]) \in {n, n + 1} /\ Len(path'[f]) # n + 1
      BY <2>1, <2>2
    <3> HIDE DEF n
    <3> QED BY <2>1, <2>2, <3>1 DEF Kept, n
  <2>3. ASSUME NEW s \in Spend, path'[f] = Append(p[f], s), s.age = 0, s.coins \subseteq m[f]
        PROVE  Kept(f, n)
    <3>1. Len(path'[f]) = n + 1 /\ path'[f][n + 1] = s /\ \A i \in 1..n : path'[f][i] = p[f][i]
      BY <2>1, <2>3
    <3>2. \A c \in s.coins : Aged(c)
      BY <1>2, <2>3
    <3> HIDE DEF n
    <3> QED BY <2>1, <2>3, <3>1, <3>2 DEF Kept
  <2> QED BY <2>1, <2>2, <2>3, BlockIs, SMTT(20)
<1>4. ASSUME Younger(p), NEW f \in Farmers, NEW i \in 1..Len(path[f]) PROVE path'[f][i].age <= path[f][i].age + 1
  <2>1. p[f] \in Seq(Spend) /\ Len(p[f]) = Len(path[f]) /\ p[f][i].age <= path[f][i].age + 1
    BY <1>4 DEF Under, Younger
  <2>2. path'[f] = p[f] \/ \E s \in Spend : path'[f] = Append(p[f], s)
    BY BlockIs
  <2>3. path'[f][i] = p[f][i]
    BY <2>1, <2>2
  <2> QED BY <2>1, <2>3
<1> QED BY <1>1, <1>2, <1>3, <1>4

\* Such a chain is as the invariant has it, and a tip that paid still pays, or
\* has lost the return that it was spent by.
LEMMA PathKeeps ==
  ASSUME TypeOK, AgedInv, NEW f \in Farmers, NEW n \in Nat, Kept(f, n), path' \in [Farmers -> Seq(Spend)],
         revoked \subseteq revoked'
  PROVE  /\ \A t \in Nat : Sound(f, t) => Sound(f, t)' /\ (Pays(f, t) => Pays(f, t)')
         /\ \A i \in 1..Len(path'[f]) : i < Len(path'[f]) => path'[f][i].age >= 1
         /\ \A i \in 1..Len(path'[f]) : \A c \in path'[f][i].coins : Aged(c)
<1> DEFINE l == Len(path'[f])
           k == Len(path[f])
<1>1. /\ k \in Nat /\ n <= k /\ l \in Nat /\ (l = n \/ l = n + 1) /\ DOMAIN path[f] = 1..k
      /\ n = k \/ (n = k - 1 /\ path[f][k].age = 0 /\ (Returned(f) => <<f, k>> \in revoked'))
      /\ \A i \in 1..k : path[f][i].age \in Nat
  <2>1. k \in Nat /\ path'[f] \in Seq(Spend) /\ DOMAIN path[f] = 1..k
    BY Facts
  <2>2. \A i \in 1..k : path[f][i].age \in Nat
    BY Facts
  <2> QED BY <2>1, <2>2 DEF Kept, Left
<1>2. /\ \A i \in 1..n : /\ path'[f][i].to = path[f][i].to /\ path'[f][i].coins = path[f][i].coins
                         /\ path'[f][i].age >= 1
      /\ l = n + 1 => \A c \in path'[f][n + 1].coins : Aged(c)
  BY DEF Kept
<1> HIDE DEF l, k
<1>3. \A i \in 0..n : StateAt(f, i)' = StateAt(f, i)
  BY <1>1, <1>2 DEF StateAt
<1>4. ASSUME NEW t \in 0..n, Pays(f, t) PROVE Pays(f, t)'
  BY <1>3, <1>4 DEF Pays, Assigned
<1>5. ASSUME NEW t \in Nat, Sound(f, t) PROVE Sound(f, t)' /\ (Pays(f, t) => Pays(f, t)')
  <2>1. /\ t <= k /\ (t # 0 => path[f][t].age >= 1)
        /\ Pays(f, t) \/ (t < k /\ (path[f][t + 1].age >= 1 \/ path[f][t + 1].to \in Assigned))
    BY <1>5 DEF Sound, k
  <2>2. t \in 0..n /\ t <= l
    BY <1>1, <2>1
  <2>3. t # 0 => path'[f][t].age >= 1
    BY <1>2, <2>2
  <2>4. CASE Pays(f, t)
    <3>1. Pays(f, t)'
      BY <1>4, <2>2, <2>4
    <3> QED BY <2>2, <2>3, <3>1 DEF Sound, l
  <2>5. CASE ~Pays(f, t) /\ t + 1 <= n
    <3>1. t + 1 \in 1..n /\ t < l
      BY <1>1, <2>2, <2>5
    <3>2. path'[f][t + 1].age >= 1
      BY <1>2, <3>1
    <3> QED BY <2>2, <2>3, <2>5, <3>1, <3>2 DEF Sound, l
  <2>6. CASE ~Pays(f, t) /\ ~(t + 1 <= n)
    <3>1. k = t + 1 /\ n = t /\ path[f][k].age = 0 /\ k # 0 /\ k - 1 = t
      BY <1>1, <2>1, <2>2, <2>6
    <3>2. path[f][k].to \in Assigned
      BY <2>1, <2>6, <3>1
    <3>3. Latest(f) \in Assigned /\ StateAt(f, k - 1) \notin Assigned
      BY <2>6, <3>1, <3>2 DEF Latest, StateAt, Pays, k
    <3>4. <<f, t + 1>> \in revoked'
      <4>1. Returned(f)
        BY <3>3 DEF Returned, k
      <4> QED BY <1>1, <3>1, <4>1
    <3>5. Pays(f, t)'
      BY <3>4 DEF Pays
    <3> QED BY <2>2, <2>3, <3>5 DEF Sound, l
  <2> QED BY <2>4, <2>5, <2>6
<1>6. ASSUME NEW i \in 1..l, i < l PROVE path'[f][i].age >= 1
  <2>1. i \in 1..n
    BY <1>1, <1>6
  <2> QED BY <1>2, <2>1
<1>7. ASSUME NEW i \in 1..l, NEW c \in path'[f][i].coins PROVE Aged(c)
  <2>1. CASE i <= n
    <3>1. i \in 1..n /\ i \in DOMAIN path[f]
      BY <1>1, <1>7, <2>1
    <3> QED BY <1>2, <1>7, <3>1 DEF AgedInv
  <2>2. CASE i > n
    <3>1. i = n + 1 /\ l = n + 1
      BY <1>1, <2>2
    <3> QED BY <1>2, <1>7, <3>1
  <2> QED BY <1>1, <2>1, <2>2
<1> QED BY <1>5, <1>6, <1>7 DEF l

\* What the loop remembers of a record.
Todo == [farmer : Farmers, tip : Nat]

\* The records that the loop still has to serve, and the first of them.
LEMMA TodoIs ==
  ASSUME TypeOK
  PROVE  /\ todo \in Seq(Todo) /\ Len(todo) \in Nat /\ DOMAIN todo = 1..Len(todo)
         /\ \A i \in DOMAIN todo : todo[i] \in Todo /\ todo[i].farmer \in Farmers /\ todo[i].tip \in Nat
         /\ todo # <<>> => /\ Head(todo) = todo[1] /\ 1 \in DOMAIN todo
                           /\ Head(todo).farmer \in Farmers /\ Head(todo).tip \in Nat
<1>1. todo \in Seq(Todo)
  BY DEF TypeOK, Tip, Todo
<1>2. \A i \in DOMAIN todo : todo[i] \in Todo
  BY <1>1
<1>3. \A t \in Todo : t.farmer \in Farmers /\ t.tip \in Nat
  BY DEF Todo
<1>4. todo # <<>> => Head(todo) = todo[1] /\ 1 \in DOMAIN todo
  BY <1>1
<1> QED BY <1>1, <1>2, <1>3, <1>4

\* The chain moves on, by a block or by a reorg.
LEMMA ChainStep ==
  ASSUME CollectInv, NewBlock \/ Reorg
  PROVE  CollectInv'
<1> USE DEF CollectInv
<1>1. /\ UNCHANGED <<synced, record, scanSet, adding, strangers, pc, scanned, found, todo, bundle>>
      /\ \/ NewBlock /\ UNCHANGED <<shaken, faults>>
         \/ Reorg /\ UNCHANGED <<lag, held>> /\ shaken' = (pc \in {"walk", "push"}) /\ faults' = faults + 1 /\ faults < MaxFaults
  BY DEF NewBlock, Reorg, Fault, farmer, locals, peak
<1>0. revoked \subseteq revoked' /\ revoked' \subseteq Farmers \X Nat
  <2>1. revoked \subseteq Farmers \X Nat /\ \A f \in Farmers : Len(path[f]) \in Nat
    BY Facts DEF TypeOK
  <2>2. CASE NewBlock
    BY <2>1, <2>2 DEF NewBlock
  <2>3. CASE Reorg
    BY <2>1, <2>3 DEF Reorg
  <2> QED BY <2>2, <2>3
<1>2. PICK p, a, m : Under(p, a, m) /\ Block(p, a, m) /\ (NewBlock => Younger(p))
  <2>1. CASE NewBlock
    BY <2>1, NewBlockUnder
  <2>2. CASE ~NewBlock
    BY <2>2, ReorgUnder
  <2> QED BY <2>1, <2>2
<1>3. /\ path' \in [Farmers -> Seq(Spend)] /\ age' \in [Coins -> 0..MaxAge \cup {None}]
      /\ mempool' \in [Farmers -> SUBSET Coins]
      /\ \A c \in Coins : Aged(c) => Aged(c)'
      /\ \A f \in Farmers : \A c \in mempool'[f] : Aged(c)
      /\ \A f \in Farmers : Len(p[f]) \in Nat /\ Kept(f, Len(p[f]))
      /\ NewBlock => \A f \in Farmers : \A i \in 1..Len(path[f]) : path'[f][i].age <= path[f][i].age + 1
  BY <1>2, ChainKeeps
<1>4. \A f \in Farmers :
         /\ \A t \in Nat : Sound(f, t) => Sound(f, t)' /\ (Pays(f, t) => Pays(f, t)')
         /\ \A i \in 1..Len(path'[f]) : i < Len(path'[f]) => path'[f][i].age >= 1
         /\ \A i \in 1..Len(path'[f]) : \A c \in path'[f][i].coins : Aged(c)
  BY <1>0, <1>3, PathKeeps
<1>5. MaxFaults \in Nat /\ MaxLag \in Nat
  BY CollectorAssumption DEF CollectorAssumption
<1>6. lag' \in 0..MaxLag /\ held' \in 0..MaxLag /\ shaken' \in BOOLEAN /\ faults' \in 0..MaxFaults
  <2>1. CASE NewBlock
    <3>1. lag < MaxLag /\ held < MaxLag /\ lag' = lag + 1 /\ (held' = held + 1 \/ held' = held)
      BY <2>1 DEF NewBlock
    <3> QED BY <1>1, <1>5, <2>1, <3>1 DEF TypeOK, NewBlock
  <2>2. CASE ~NewBlock
    <3>1. UNCHANGED <<lag, held>> /\ faults' = faults + 1 /\ faults < MaxFaults
      BY <1>1, <2>2
    <3>2. shaken' \in BOOLEAN
      <4>1. shaken' = (pc \in {"walk", "push"})
        BY <1>1, <2>2
      <4> QED BY <4>1
    <3> QED BY <1>5, <3>1, <3>2 DEF TypeOK
  <2> QED BY <2>1, <2>2
<1>7. TypeOK'
  BY <1>0, <1>1, <1>3, <1>6 DEF TypeOK
<1>8. AgedInv'
  <2>1. ASSUME NEW c, Aged(c), c \in Coins PROVE Aged(c)'
    BY <1>3, <2>1
  <2>2. \A f \in Farmers : \A c \in mempool'[f] : c \in Coins
    BY <1>3
  <2>3. ASSUME NEW f \in Farmers, NEW i \in DOMAIN path'[f] PROVE i \in 1..Len(path'[f]) /\ path'[f][i].coins \subseteq Coins
    <3>1. path'[f] \in Seq(Spend)
      BY <1>3
    <3>2. path'[f][i] \in Spend /\ i \in 1..Len(path'[f])
      BY <2>3, <3>1
    <3> QED BY <3>2 DEF Spend
  <2>4. \A c \in found \cup bundle.coins : c \in Coins /\ Aged(c)
    BY DEF TypeOK, AgedInv
  <2> QED BY <1>1, <1>3, <1>4, <2>1, <2>2, <2>3, <2>4 DEF AgedInv
<1>9. DeepInv'
  BY <1>4 DEF DeepInv
<1>10. TipsInv'
  <2>1. ASSUME NEW f \in Farmers \ strangers
        PROVE  /\ record[f] # None /\ record[f].member => Sound(f, record[f].tip)'
               /\ adding # None /\ adding.farmer = f => Sound(f, adding.tip)'
               /\ \A i \in DOMAIN todo : todo[i].farmer = f => Sound(f, todo[i].tip)'
    <3>2. ASSUME record[f] # None, record[f].member PROVE Sound(f, record[f].tip)'
      <4>1. record[f].tip \in Nat /\ Sound(f, record[f].tip)
        BY <3>2 DEF TipsInv, TypeOK, Tip
      <4> QED BY <1>1, <1>4, <4>1 DEF Sound, Pays, StateAt, Assigned
    <3>3. ASSUME adding # None, adding.farmer = f PROVE Sound(f, adding.tip)'
      <4>1. adding.tip \in Nat /\ Sound(f, adding.tip)
        BY <3>3 DEF TipsInv, TypeOK, Tip
      <4> QED BY <1>1, <1>4, <4>1 DEF Sound, Pays, StateAt, Assigned
    <3>4. ASSUME NEW i \in DOMAIN todo, todo[i].farmer = f PROVE Sound(f, todo[i].tip)'
      <4>2. todo[i].tip \in Nat /\ Sound(f, todo[i].tip)
        BY <3>4, TodoIs DEF TipsInv
      <4> QED BY <1>1, <1>4, <4>2 DEF Sound, Pays, StateAt, Assigned
    <3> QED BY <3>2, <3>3, <3>4
  <2> QED BY <1>1, <2>1 DEF TipsInv
<1>11. WalkInv'
  <2>1. pc' \in {"tip", "walk", "push"} => todo' # <<>>
    BY <1>1 DEF WalkInv
  <2> DEFINE quiet == UNCHANGED <<shaken, faults>>
  <2>0. pc' = pc /\ (pc \in {"walk", "push"} /\ ~shaken' => NewBlock /\ ~shaken)
    <3>1. CASE NewBlock /\ quiet
      BY <1>1, <3>1
    <3>2. CASE shaken' = (pc \in {"walk", "push"})
      BY <1>1, <3>2
    <3> QED BY <1>1, <3>1, <3>2
  <2>2. pc' = "push" /\ ~shaken' => bundle'.tip = Head(todo').tip
    BY <1>1, <2>0 DEF WalkInv
  <2>3. ASSUME pc' = "walk", ~shaken', NEW i \in DOMAIN path'[Head(todo).farmer], i > Head(todo).tip
        PROVE  path'[Head(todo).farmer][i].age < held'
    <3> DEFINE f == Head(todo).farmer
    <3>1. NewBlock /\ ~shaken /\ pc = "walk" /\ todo # <<>> /\ held' = held + 1
      <4>1. NewBlock /\ ~shaken /\ pc = "walk"
        BY <2>0, <2>3
      <4>2. held' = held + 1
        BY <4>1 DEF NewBlock
      <4> QED BY <4>1, <4>2 DEF WalkInv
    <3>2. f \in Farmers
      BY <3>1, TodoIs
    <3>3. path'[f] \in Seq(Spend) /\ i \in 1..Len(path'[f]) /\ held \in Nat
      BY <1>3, <2>3, <3>2, Facts
    <3>4. /\ Len(path[f]) \in Nat /\ DOMAIN path[f] = 1..Len(path[f])
          /\ \A k \in 1..Len(path[f]) : path[f][k].age \in Nat
          /\ \A k \in DOMAIN path[f] : k > Head(todo).tip => path[f][k].age < held
      BY <3>1, <3>2, Facts DEF WalkInv
    <3>5. Kept(f, Len(path[f]))
      <4>1. Len(p[f]) = Len(path[f])
        BY <1>2, <3>1, <3>2 DEF Younger
      <4> QED BY <1>3, <3>2, <4>1
    <3>6. path'[f][i] \in Spend /\ path'[f][i].age \in Nat
      <4>1. path'[f][i] \in Spend
        BY <3>3
      <4> QED BY <4>1, Facts DEF Spend
    <3>7. CASE i <= Len(path[f])
      <4>1. i \in 1..Len(path[f])
        BY <3>3, <3>4, <3>7
      <4>2. path'[f][i].age <= path[f][i].age + 1 /\ path[f][i].age < held /\ path[f][i].age \in Nat
        BY <1>3, <2>3, <3>1, <3>2, <3>4, <4>1
      <4> QED BY <3>1, <3>3, <3>6, <4>2
    <3>8. CASE i > Len(path[f])
      <4>1. i = Len(path[f]) + 1 /\ Len(path'[f]) = Len(path[f]) + 1
        <5> DEFINE old == Len(path[f])
                   new == Len(path'[f])
        <5>1. new \in {old, old + 1} /\ old \in Nat /\ i \in 1..new /\ i > old
          BY <3>3, <3>4, <3>5, <3>8 DEF Kept
        <5> HIDE DEF old, new
        <5>2. i = old + 1 /\ new = old + 1
          BY <5>1
        <5> QED BY <5>2 DEF old, new
      <4>2. path'[f][i].age = 0
        BY <3>5, <4>1 DEF Kept
      <4> QED BY <3>1, <3>3, <4>2
    <3> QED BY <3>3, <3>4, <3>7, <3>8
  <2>4. ASSUME pc' \in {"walk", "push"}, Head(todo).farmer \notin strangers
        PROVE  Pays(Head(todo).farmer, Head(todo).tip)'
    <3>1. /\ pc \in {"walk", "push"} /\ todo # <<>>
          /\ Pays(Head(todo).farmer, Head(todo).tip)
      BY <1>1, <2>4 DEF WalkInv
    <3>2. Head(todo) = todo[1] /\ 1 \in DOMAIN todo /\ Head(todo).farmer \in Farmers /\ Head(todo).tip \in Nat
      BY <3>1, TodoIs
    <3>3. Sound(Head(todo).farmer, Head(todo).tip)
      BY <2>4, <3>2 DEF TipsInv
    <3>4. todo' = todo
      BY <1>1
    <3>5. \A f \in Farmers : \A t \in Nat : Sound(f, t) /\ Pays(f, t) => Pays(f, t)'
      BY <1>4
    <3> QED BY <3>1, <3>2, <3>3, <3>4, <3>5 DEF Pays, StateAt, Assigned
  <2> QED BY <1>1, <2>1, <2>2, <2>3, <2>4 DEF WalkInv, Pays, StateAt, Assigned
<1> QED BY <1>7, <1>8, <1>9, <1>10, <1>11

\* As long as the chain stays, so does what it says.
LEMMA SameChain ==
  ASSUME UNCHANGED <<age, path, revoked>>
  PROVE  /\ \A c : Aged(c)' <=> Aged(c)
         /\ \A f, t : (Sound(f, t)' <=> Sound(f, t)) /\ (Pays(f, t)' <=> Pays(f, t))
         /\ DeepInv' <=> DeepInv
BY DEF Aged, Sound, Pays, DeepInv, StateAt, Assigned

\* So do the tips, when the round goes on with none but such as pay this pool.
LEMMA TipsStay ==
  ASSUME TipsInv, UNCHANGED <<age, path, revoked, record, adding, strangers>>,
         \A f \in Farmers \ strangers : \A i \in DOMAIN todo' : todo'[i].farmer = f => Sound(f, todo'[i].tip)
  PROVE  TipsInv'
<1>1. \A f \in Farmers \ strangers :
        /\ record[f] # None /\ record[f].member => Sound(f, record[f].tip)
        /\ adding # None /\ adding.farmer = f => Sound(f, adding.tip)
  BY DEF TipsInv
<1>2. \A f, t : Sound(f, t)' <=> Sound(f, t)
  BY SameChain
<1> QED BY <1>1, <1>2 DEF TipsInv

\* The same when the round stays where it is.
LEMMA TodoStays ==
  ASSUME TipsInv, UNCHANGED <<age, path, revoked, record, adding, strangers, todo>>
  PROVE  TipsInv'
<1>1. \A f \in Farmers \ strangers : \A i \in DOMAIN todo' : todo'[i].farmer = f => Sound(f, todo'[i].tip)
  BY DEF TipsInv
<1> QED BY <1>1, TipsStay

\* The mempool loses a bundle.
LEMMA DropStep ==
  ASSUME CollectInv, MempoolDrops
  PROVE  CollectInv'
<1> USE DEF CollectInv
<1>1. /\ UNCHANGED <<age, path, revoked, lag, synced, record, scanSet, adding, strangers, pc, held, scanned, found, todo, bundle, shaken>>
      /\ faults < MaxFaults /\ faults' = faults + 1
      /\ \E f \in Farmers : mempool' = [mempool EXCEPT ![f] = {}]
  BY DEF MempoolDrops, Fault, peak, farmer, locals
<1>2. mempool \in [Farmers -> SUBSET Coins] /\ faults \in 0..MaxFaults /\ MaxFaults \in Nat
  BY CollectorAssumption DEF TypeOK, CollectorAssumption
<1>3. mempool' \in [Farmers -> SUBSET Coins] /\ \A f \in Farmers : mempool'[f] \subseteq mempool[f]
  BY <1>1, <1>2
<1>4. faults' \in 0..MaxFaults
  BY <1>1, <1>2
<1>5. TypeOK'
  BY <1>1, <1>3, <1>4 DEF TypeOK
<1>6. AgedInv'
  BY <1>1, <1>3 DEF AgedInv, Aged
<1>7. DeepInv' /\ TipsInv'
  BY <1>1, SameChain, TodoStays
<1>8. WalkInv'
  BY <1>1 DEF WalkInv, Pays, StateAt, Assigned
<1> QED BY <1>5, <1>6, <1>7, <1>8

\* The peak loop refreshes what it remembers.
LEMMA PeakStep ==
  ASSUME CollectInv, GetPeak \/ GetPeakUnsynced
  PROVE  CollectInv'
<1> USE DEF CollectInv
<1>1. /\ UNCHANGED <<age, path, revoked, mempool, record, scanSet, adding, strangers, pc, held, scanned, found, todo, bundle, shaken>>
      /\ lag' = 0 /\ synced' \in BOOLEAN /\ (faults' = faults \/ (faults < MaxFaults /\ faults' = faults + 1))
  BY DEF GetPeak, GetPeakUnsynced, Fault, chain, farmer, locals
<1>2. lag' \in 0..MaxLag /\ faults' \in 0..MaxFaults
  BY <1>1, CollectorAssumption DEF TypeOK, CollectorAssumption
<1>3. TypeOK'
  BY <1>1, <1>2 DEF TypeOK
<1>4. AgedInv' /\ WalkInv'
  BY <1>1 DEF AgedInv, Aged, WalkInv, Pays, StateAt, Assigned
<1>5. DeepInv' /\ TipsInv'
  BY <1>1, SameChain, TodoStays
<1> QED BY <1>3, <1>4, <1>5

------------------------------------------------------------------------------
(* The handlers.                                                           *)

\* The tip that is stored for a singleton that is assigned: no reorg undoes it,
\* and it pays this pool, or is spent for good, or the last spend came back.
LEMMA BuriedPays ==
  ASSUME TypeOK, DeepInv, NEW f \in Farmers
  PROVE  BuriedTip(f) \in Nat /\ (Latest(f) \in Assigned => Sound(f, BuriedTip(f)))
<1> DEFINE l == Len(path[f])
           S == {0} \cup {i \in DOMAIN path[f] : path[f][i].age >= lag + Threshold}
<1>1. /\ l \in Nat /\ DOMAIN path[f] = 1..l /\ lag \in Nat /\ Threshold \in Nat /\ Threshold >= 1
      /\ \A i \in 1..l : path[f][i].age \in Nat
  BY Facts
<1>2. S \subseteq 0..l /\ S # {}
  BY <1>1
<1>3. Max(S) \in S
  <2> HIDE DEF S
  <2> QED BY <1>1, <1>2, Greatest
<1>4. BuriedTip(f) = Max(S)
  BY DEF BuriedTip
<1> DEFINE t == BuriedTip(f)
<1>5. t \in 0..l /\ (t # 0 => path[f][t].age >= lag + Threshold)
  BY <1>1, <1>2, <1>3, <1>4
<1> HIDE DEF t, S, l
<1>6. ASSUME Latest(f) \in Assigned PROVE Sound(f, t)
  <2>1. t \in Nat /\ t <= l /\ StateAt(f, l) \in Assigned
    BY <1>1, <1>5, <1>6 DEF Latest, l
  <2>2. ASSUME t # 0 PROVE path[f][t].age >= 1
    <3>1. t \in 1..l
      BY <1>1, <1>5, <2>2
    <3>2. path[f][t].age \in Nat /\ path[f][t].age >= lag + Threshold
      BY <1>1, <1>5, <2>2, <3>1
    <3> QED BY <1>1, <3>2
  <2>3. CASE t = l
    BY <2>1, <2>2, <2>3 DEF Sound, Pays, l
  <2>4. CASE t + 1 = l
    <3>1. path[f][l].to \in Assigned /\ t < l
      BY <1>1, <2>1, <2>4 DEF StateAt
    <3> QED BY <2>1, <2>2, <2>4, <3>1 DEF Sound, l
  <2>5. CASE t + 1 < l
    <3>1. t + 1 \in 1..l /\ t < l
      BY <1>1, <2>1, <2>5
    <3>2. path[f][t + 1].age >= 1
      BY <2>5, <3>1 DEF DeepInv, l
    <3> QED BY <2>1, <2>2, <3>1, <3>2 DEF Sound, l
  <2> QED BY <1>1, <2>1, <2>3, <2>4, <2>5
<1> QED BY <1>1, <1>5, <1>6 DEF t

\* The state of a singleton is one of four.
LEMMA LatestIs ==
  ASSUME TypeOK, NEW f \in Farmers
  PROVE  Latest(f) \in {"farming", "leaving", "self", "other"}
<1>1. CASE Len(path[f]) = 0
  BY <1>1, Facts DEF Latest, StateAt, States
<1>2. CASE Len(path[f]) # 0
  <2>1. Len(path[f]) \in 1..Len(path[f])
    BY <1>2, Facts
  <2>2. path[f][Len(path[f])].to \in States
    BY <2>1, Facts
  <2> QED BY <1>2, <2>2 DEF Latest, StateAt, States
<1> QED BY <1>1, <1>2

\* What a handler keeps when it writes a farmer's record, or prepares to.
LEMMA HandlerKeeps ==
  ASSUME CollectInv,
         UNCHANGED <<age, path, revoked, mempool, lag, synced, pc, held, scanned, found, todo, bundle, shaken>>,
         strangers \subseteq strangers', strangers' \subseteq Farmers, scanSet' \subseteq Farmers,
         record' \in [Farmers -> [tip : Tip, member : BOOLEAN] \cup {None}],
         adding' \in [farmer : Farmers, tip : Tip] \cup {None}, faults' \in 0..MaxFaults,
         \A f \in Farmers \ strangers' :
           /\ record'[f] # None /\ record'[f].member => Sound(f, record'[f].tip)
           /\ adding' # None /\ adding'.farmer = f => Sound(f, adding'.tip)
  PROVE  CollectInv'
<1> USE DEF CollectInv
<1>1. TypeOK'
  BY DEF TypeOK
<1>2. AgedInv' /\ WalkInv' /\ DeepInv'
  BY DEF AgedInv, Aged, WalkInv, DeepInv, Pays, StateAt, Assigned
<1>3. TipsInv'
  <2> SUFFICES ASSUME NEW f \in Farmers \ strangers'
               PROVE  /\ record'[f] # None /\ record'[f].member => Sound(f, record[f].tip)'
                      /\ adding' # None /\ adding'.farmer = f => Sound(f, adding.tip)'
                      /\ \A i \in DOMAIN todo' : todo'[i].farmer = f => Sound(f, todo[i].tip)'
    BY DEF TipsInv
  <2>1. record'[f] # None /\ record'[f].member => Sound(f, record[f].tip)'
    BY DEF Sound, Pays, StateAt, Assigned
  <2>2. adding' # None /\ adding'.farmer = f => Sound(f, adding.tip)'
    BY DEF Sound, Pays, StateAt, Assigned
  <2>3. ASSUME NEW i \in DOMAIN todo', todo'[i].farmer = f PROVE Sound(f, todo[i].tip)'
    <3>1. Sound(f, todo[i].tip)
      BY <2>3 DEF TipsInv
    <3> QED BY <3>1 DEF Sound, Pays, StateAt, Assigned
  <2> QED BY <2>1, <2>2, <2>3
<1> QED BY <1>1, <1>2, <1>3

\* add_farmer, in its two steps, and the update of a tip.
LEMMA HandlerStep ==
  ASSUME CollectInv, Records
  PROVE  CollectInv'
<1> USE DEF CollectInv
<1>1. MaxFaults \in Nat /\ faults \in 0..MaxFaults /\ strangers \subseteq Farmers /\ scanSet \subseteq Farmers
  BY CollectorAssumption DEF TypeOK, CollectorAssumption
<1>2. /\ record \in [Farmers -> [tip : Tip, member : BOOLEAN] \cup {None}]
      /\ adding \in [farmer : Farmers, tip : Tip] \cup {None}
  BY DEF TypeOK
<1>3. \A f \in Farmers \ strangers :
        /\ record[f] # None /\ record[f].member => Sound(f, record[f].tip)
        /\ adding # None /\ adding.farmer = f => Sound(f, adding.tip)
  BY DEF TipsInv
<1>4. ASSUME NEW f \in Farmers, AddFarmer(f) PROVE CollectInv'
  <2>1. /\ UNCHANGED <<age, path, revoked, mempool, lag, synced, record, pc, held, scanned, found, todo, bundle, shaken, faults>>
        /\ scanSet' = scanSet \cup {f} /\ adding' = [farmer |-> f, tip |-> BuriedTip(f)]
        /\ strangers' = IF Latest(f) \in Assigned THEN strangers ELSE strangers \cup {f}
    BY <1>4 DEF AddFarmer, chain, peak, locals
  <2>2. BuriedTip(f) \in Nat /\ (Latest(f) \in Assigned => Sound(f, BuriedTip(f)))
    BY BuriedPays
  <2>3. strangers \subseteq strangers' /\ strangers' \subseteq Farmers /\ scanSet' \subseteq Farmers
    BY <1>1, <2>1
  <2>4. adding' \in [farmer : Farmers, tip : Tip] /\ adding'.farmer = f /\ adding'.tip = BuriedTip(f)
    BY <2>1, <2>2 DEF Tip
  <2>5. ASSUME NEW g \in Farmers \ strangers' PROVE adding'.farmer = g => Sound(g, adding'.tip)
    BY <2>1, <2>2, <2>4
  <2>6. \A g \in Farmers \ strangers' : g \in Farmers \ strangers
    BY <2>3
  <2> QED BY <1>1, <1>2, <1>3, <2>1, <2>3, <2>4, <2>5, <2>6, HandlerKeeps
<1>5. ASSUME StoreFarmer PROVE CollectInv'
  <2>1. /\ UNCHANGED <<age, path, revoked, mempool, lag, synced, scanSet, strangers, pc, held, scanned, found, todo, bundle, shaken>>
        /\ adding # None /\ adding' = None
        /\ \/ record' = [record EXCEPT ![adding.farmer] = [tip |-> adding.tip, member |-> TRUE]] /\ faults' = faults
           \/ record' = record /\ faults < MaxFaults /\ faults' = faults + 1
    BY <1>5 DEF StoreFarmer, Fault, chain, peak, locals
  <2>2. faults' \in 0..MaxFaults
    BY <1>1, <2>1
  <2>3. CASE record' = record
    BY <1>1, <1>2, <1>3, <2>1, <2>2, <2>3, HandlerKeeps
  <2>4. CASE record' = [record EXCEPT ![adding.farmer] = [tip |-> adding.tip, member |-> TRUE]]
    <3>1. adding.farmer \in Farmers /\ adding.tip \in Tip
      BY <1>2, <2>1
    <3>2. [tip |-> adding.tip, member |-> TRUE] \in [tip : Tip, member : BOOLEAN]
      BY <3>1
    <3>3. /\ record' \in [Farmers -> [tip : Tip, member : BOOLEAN] \cup {None}]
          /\ \A g \in Farmers : record'[g] = IF g = adding.farmer THEN [tip |-> adding.tip, member |-> TRUE] ELSE record[g]
      BY <1>2, <2>4, <3>2
    <3>4. ASSUME NEW g \in Farmers \ strangers, record'[g] # None, record'[g].member PROVE Sound(g, record'[g].tip)
      <4>1. CASE g = adding.farmer
        <5>1. record'[g].tip = adding.tip
          BY <3>3, <4>1
        <5> QED BY <1>3, <2>1, <4>1, <5>1
      <4>2. CASE g # adding.farmer
        BY <1>3, <3>3, <3>4, <4>2
      <4> QED BY <4>1, <4>2
    <3> QED BY <1>1, <2>1, <2>2, <3>3, <3>4, HandlerKeeps
  <2> QED BY <2>1, <2>3, <2>4
<1>6. ASSUME NEW f \in Farmers, UpdateSingleton(f) PROVE CollectInv'
  <2>1. /\ UNCHANGED <<age, path, revoked, mempool, lag, synced, scanSet, adding, strangers, pc, held, scanned, found, todo, bundle, shaken, faults>>
        /\ record[f] # None
    BY <1>6 DEF UpdateSingleton, chain, peak, locals
  <2>2. PICK member \in BOOLEAN : /\ Latest(f) \in {"self", "other"} => ~member
                                  /\ record' = [record EXCEPT ![f] = [tip |-> BuriedTip(f), member |-> member]]
    BY <1>6 DEF UpdateSingleton
  <2>3. BuriedTip(f) \in Nat /\ (Latest(f) \in Assigned => Sound(f, BuriedTip(f)))
    BY BuriedPays
  <2>4. member => Sound(f, BuriedTip(f))
    BY <2>2, <2>3, LatestIs DEF Assigned
  <2>5. [tip |-> BuriedTip(f), member |-> member] \in [tip : Tip, member : BOOLEAN]
    BY <2>3 DEF Tip
  <2>6. /\ record' \in [Farmers -> [tip : Tip, member : BOOLEAN] \cup {None}]
        /\ \A g \in Farmers : record'[g] = IF g = f THEN [tip |-> BuriedTip(f), member |-> member] ELSE record[g]
    BY <1>2, <2>2, <2>5
  <2>7. ASSUME NEW g \in Farmers \ strangers, record'[g] # None, record'[g].member PROVE Sound(g, record'[g].tip)
    <3>1. CASE g = f
      <4>1. record'[g].tip = BuriedTip(f) /\ record'[g].member = member
        BY <2>6, <3>1
      <4> QED BY <2>4, <2>7, <3>1, <4>1
    <3>2. CASE g # f
      BY <1>3, <2>6, <2>7, <3>2
    <3> QED BY <3>1, <3>2
  <2> QED BY <1>1, <1>2, <1>3, <2>1, <2>6, <2>7, HandlerKeeps
<1> QED BY <1>4, <1>5, <1>6 DEF Records

------------------------------------------------------------------------------
(* The loop.                                                               *)

\* The loop ends its round, or goes on to the next record.
LEMMA RoundKeeps ==
  ASSUME CollectInv, EndRound \/ NextFarmer,
         UNCHANGED <<age, path, revoked, record, strangers>>,
         lag' \in 0..MaxLag, synced' \in BOOLEAN, scanSet' \subseteq Farmers,
         adding' = adding \/ adding' = None,
         mempool' \in [Farmers -> SUBSET Coins], \A f \in Farmers : \A c \in mempool'[f] : Aged(c),
         faults' \in 0..MaxFaults
  PROVE  CollectInv'
<1> USE DEF CollectInv
<1>1. /\ held' = 0 /\ shaken' = FALSE /\ bundle' = NoBundle
      /\ \/ pc' = "idle" /\ scanned' = {} /\ found' = {} /\ todo' = <<>>
         \/ pc' = "tip" /\ Len(todo) > 1 /\ todo' = Tail(todo) /\ UNCHANGED <<scanned, found>>
  BY DEF NextFarmer, EndRound
<1>2. /\ todo \in Seq(Todo) /\ Len(todo) \in Nat /\ DOMAIN todo = 1..Len(todo)
      /\ \A i \in DOMAIN todo : todo[i] \in Todo
  BY TodoIs
<1>4. /\ todo' \in Seq(Todo) /\ (pc' = "tip" => todo' # <<>>)
      /\ \A i \in DOMAIN todo' : \E j \in DOMAIN todo : todo'[i] = todo[j]
  <2>1. CASE todo' = <<>> /\ pc' = "idle"
    BY <2>1
  <2>2. CASE Len(todo) > 1 /\ todo' = Tail(todo)
    <3>1. /\ todo' \in Seq(Todo) /\ Len(todo') = Len(todo) - 1 /\ DOMAIN todo' = 1..Len(todo')
          /\ \A i \in 1..(Len(todo) - 1) : todo'[i] = todo[i + 1]
      BY <1>2, <2>2
    <3>2. \A i \in 1..(Len(todo) - 1) : i + 1 \in DOMAIN todo
      BY <1>2
    <3>3. todo' # <<>>
      <4>1. Len(todo') # 0
        <5>1. Len(todo) > 1
          BY <2>2
        <5>2. Len(todo') = Len(todo) - 1 /\ Len(todo) \in Nat
          BY <1>2, <3>1
        <5>3. \A n \in Nat : n > 1 => n - 1 # 0
          OBVIOUS
        <5> QED BY <5>1, <5>2, <5>3
      <4>2. Len(<<>>) = 0
        OBVIOUS
      <4> QED BY <4>1, <4>2
    <3> QED BY <3>1, <3>2, <3>3
  <2> QED BY <1>1, <2>1, <2>2
<1>5. held' \in 0..MaxLag /\ NoBundle \in [tip : Tip, coins : SUBSET Coins] /\ NoBundle.coins = {}
  <2>1. MaxLag \in Nat
    BY Facts
  <2> QED BY <1>1, <2>1 DEF NoBundle, Tip
<1>6. TypeOK'
  <2>1. scanned' \subseteq Farmers /\ found' \subseteq Coins /\ pc' \in {"idle", "coins", "records", "tip", "walk", "push"}
    BY <1>1 DEF TypeOK
  <2>2. adding' \in [farmer : Farmers, tip : Tip] \cup {None}
    BY DEF TypeOK
  <2>3. todo' \in Seq([farmer : Farmers, tip : Tip])
    BY <1>4 DEF Todo, Tip
  <2> QED BY <1>1, <1>5, <2>1, <2>2, <2>3 DEF TypeOK
<1>7. AgedInv'
  <2>1. \A c \in found' \cup bundle'.coins : Aged(c)
    BY <1>1, <1>5 DEF AgedInv
  <2>2. \A c : Aged(c)' <=> Aged(c)
    BY SameChain
  <2>3. \A f \in Farmers : \A i \in DOMAIN path'[f] : \A c \in path'[f][i].coins : Aged(c)
    BY DEF AgedInv
  <2> QED BY <2>1, <2>2, <2>3 DEF AgedInv
<1>8. DeepInv'
  BY SameChain
<1>9. TipsInv'
  <2>1. ASSUME NEW f \in Farmers \ strangers, NEW i \in DOMAIN todo', todo'[i].farmer = f PROVE Sound(f, todo'[i].tip)
    BY <1>4, <2>1 DEF TipsInv
  <2>2. ASSUME NEW f \in Farmers \ strangers
        PROVE  /\ record[f] # None /\ record[f].member => Sound(f, record[f].tip)
               /\ adding' # None /\ adding'.farmer = f => Sound(f, adding'.tip)
    BY DEF TipsInv
  <2>3. \A f, t : Sound(f, t)' <=> Sound(f, t)
    BY SameChain
  <2> QED BY <2>1, <2>2, <2>3 DEF TipsInv
<1>10. WalkInv'
  BY <1>1, <1>4 DEF WalkInv
<1> QED BY <1>6, <1>7, <1>8, <1>9, <1>10

\* A round starts, and the unspent coins are read.
LEMMA CoinsStep ==
  ASSUME CollectInv, StartRound \/ GetCoins
  PROVE  CollectInv'
<1> USE DEF CollectInv
<1>1. /\ UNCHANGED <<age, path, revoked, mempool, lag, synced, record, scanSet, adding, strangers, todo, bundle, shaken, faults>>
      /\ \/ pc' = "coins" /\ held' = lag /\ scanned' = scanSet /\ found' = found
         \/ /\ pc' = "records" /\ held' = 0 /\ scanned' = {}
            /\ found' = {c \in Unspent : Owner[c] \in scanned /\ Kind[c] # "plain" /\ Buried(c)}
  BY DEF StartRound, GetCoins, chain, peak, farmer
<1>2. /\ Threshold \in Nat /\ held \in Nat /\ lag \in Nat /\ MaxLag \in Nat /\ lag <= MaxLag /\ None \notin Nat
      /\ \A c \in Coins : age[c] = None \/ age[c] \in Nat
  BY Facts
<1>3. found' \subseteq Coins /\ \A c \in found' : Aged(c)
  <2>1. CASE found' = found
    BY <2>1 DEF TypeOK, AgedInv
  <2>2. CASE found' = {c \in Unspent : Owner[c] \in scanned /\ Kind[c] # "plain" /\ Buried(c)}
    <3>1. \A c \in found' : c \in Coins /\ age[c] # None /\ age[c] >= held + Threshold
      BY <2>2 DEF Unspent, Buried
    <3>2. ASSUME NEW c \in found' PROVE Aged(c)
      <4>1. age[c] \in Nat /\ age[c] # None /\ age[c] >= held + Threshold
        BY <1>2, <3>1
      <4>2. age[c] >= Threshold
        BY <1>2, <4>1
      <4> QED BY <4>1, <4>2 DEF Aged
    <3> QED BY <3>1, <3>2
  <2> QED BY <1>1, <2>1, <2>2
<1>4. TypeOK'
  <2>1. held' \in 0..MaxLag
    BY <1>1, <1>2
  <2>2. scanned' \subseteq Farmers /\ pc' \in {"idle", "coins", "records", "tip", "walk", "push"}
    BY <1>1 DEF TypeOK
  <2> QED BY <1>1, <1>3, <2>1, <2>2 DEF TypeOK
<1>5. AgedInv'
  BY <1>1, <1>3 DEF AgedInv, Aged
<1>6. DeepInv' /\ TipsInv'
  BY <1>1, SameChain, TodoStays
<1>7. WalkInv'
  BY <1>1 DEF WalkInv
<1> QED BY <1>4, <1>5, <1>6, <1>7

\* The records are the stored ones of members, in the order of the rows.
LEMMA RecordsAre ==
  ASSUME TypeOK, NEW owners, owners \subseteq Farmers
  PROVE  /\ RecordsOf(owners) \in Seq(Farmers)
         /\ \A i \in DOMAIN RecordsOf(owners) : /\ RecordsOf(owners)[i] \in owners
                                                /\ record[RecordsOf(owners)[i]] # None /\ record[RecordsOf(owners)[i]].member
<1> DEFINE S == Members(owners)
           rank == [f \in S |-> RowOf(f)]
<1>1. S \subseteq Farmers /\ \A f \in S : f \in owners /\ record[f] # None /\ record[f].member
  BY DEF Members
<1>2. FarmerRows \in Seq(Farmers) /\ DOMAIN FarmerRows = 1..Len(FarmerRows) /\ Len(FarmerRows) \in Nat
  BY CollectorAssumption DEF CollectorAssumption
<1>3. IsFiniteSet(S)
  <2>1. IsFiniteSet(1..Len(FarmerRows))
    BY <1>2, FS_Interval
  <2>2. FarmerRows \in [1..Len(FarmerRows) -> Farmers] /\ \A f \in Farmers : \E i \in 1..Len(FarmerRows) : FarmerRows[i] = f
    BY <1>2 DEF Farmers, ToSet
  <2>3. FarmerRows \in Surjection(1..Len(FarmerRows), Farmers)
    BY <2>2 DEF Surjection
  <2>4. IsFiniteSet(Farmers)
    BY <2>1, <2>3, FS_Surjection
  <2> QED BY <1>1, <2>4, FS_Subset
<1>4. \A f \in Farmers : RowOf(f) \in Nat /\ FarmerRows[RowOf(f)] = f
  <2> SUFFICES ASSUME NEW f \in Farmers PROVE RowOf(f) \in Nat /\ FarmerRows[RowOf(f)] = f
    OBVIOUS
  <2>1. \E i \in DOMAIN FarmerRows : FarmerRows[i] = f
    BY DEF Farmers, ToSet
  <2>2. RowOf(f) \in DOMAIN FarmerRows /\ FarmerRows[RowOf(f)] = f
    BY <2>1 DEF RowOf
  <2> QED BY <1>2, <2>2
<1>5. (\A f \in S : rank[f] \in Nat) /\ \A f, g \in S : rank[f] = rank[g] => f = g
  BY <1>1, <1>4
<1> HIDE DEF S
<1>6. \E rows : Arranges(rows, S, rank)
  <2> HIDE DEF rank
  <2> QED BY <1>3, <1>5, SortedExists
<1>7. PICK o : Arranges(o, S, rank)
  BY <1>6
<1>8. /\ o \in [1..Cardinality(S) -> S]
      /\ \A f \in S : \E k \in DOMAIN o : o[k] = f
      /\ \A j, k \in DOMAIN o : j < k => RowOf(o[j]) < RowOf(o[k])
  BY <1>7 DEF Arranges
<1>9. RecordsOf(owners) \in [1..Cardinality(S) -> S]
  BY <1>8 DEF RecordsOf, S
<1>10. Cardinality(S) \in Nat
  BY <1>3, FS_CardinalityType
<1>11. RecordsOf(owners) \in Seq(S)
  BY <1>9, <1>10
<1> QED BY <1>1, <1>9, <1>10, <1>11

\* The records of the members among the owners of what was found are read.
LEMMA RecordsStep ==
  ASSUME CollectInv, GetRecords
  PROVE  CollectInv'
<1> USE DEF CollectInv
<1> DEFINE rows == RecordsOf({Owner[c] : c \in found})
<1>1. /\ UNCHANGED <<age, path, revoked, mempool, lag, synced, record, scanSet, adding, strangers, faults>>
      /\ \/ EndRound
         \/ /\ rows # <<>> /\ pc' = "tip"
            /\ todo' = [i \in DOMAIN rows |-> [farmer |-> rows[i], tip |-> record[rows[i]].tip]]
            /\ UNCHANGED <<held, scanned, found, bundle, shaken>>
  BY DEF GetRecords, chain, peak, farmer
<1>2. {Owner[c] : c \in found} \subseteq Farmers
  BY CollectorAssumption DEF TypeOK, CollectorAssumption
<1>3. /\ rows \in Seq(Farmers)
      /\ \A i \in DOMAIN rows : record[rows[i]] # None /\ record[rows[i]].member
  BY <1>2, RecordsAre
<1>4. CASE EndRound
  BY <1>1, <1>4, RoundKeeps DEF TypeOK, AgedInv
<1> HIDE DEF rows
<1>5. CASE /\ rows # <<>> /\ pc' = "tip"
           /\ todo' = [i \in DOMAIN rows |-> [farmer |-> rows[i], tip |-> record[rows[i]].tip]]
           /\ UNCHANGED <<held, scanned, found, bundle, shaken>>
  <2>1. DOMAIN rows = 1..Len(rows) /\ Len(rows) \in Nat /\ Len(rows) # 0 /\ \A i \in DOMAIN rows : rows[i] \in Farmers
    BY <1>3, <1>5
  <2>2. ASSUME NEW i \in DOMAIN rows
        PROVE  /\ [farmer |-> rows[i], tip |-> record[rows[i]].tip] \in Todo
               /\ rows[i] \notin strangers => Sound(rows[i], record[rows[i]].tip)
    <3>1. record[rows[i]] \in [tip : Tip, member : BOOLEAN] /\ record[rows[i]].member /\ record[rows[i]] # None
      BY <1>3, <2>1 DEF TypeOK
    <3>2. record[rows[i]].tip \in Nat
      BY <3>1 DEF Tip
    <3> QED BY <2>1, <3>1, <3>2 DEF Todo, TipsInv
  <2>3. todo' \in Seq(Todo) /\ Len(todo') = Len(rows) /\ DOMAIN todo' = DOMAIN rows
    BY <1>5, <2>1, <2>2
  <2>4. todo' # <<>>
    BY <2>1, <2>3
  <2>5. TypeOK'
    <3>1. todo' \in Seq([farmer : Farmers, tip : Tip])
      BY <2>3 DEF Todo, Tip
    <3> QED BY <1>1, <1>5, <3>1 DEF TypeOK
  <2>6. AgedInv' /\ DeepInv'
    BY <1>1, <1>5 DEF AgedInv, Aged, DeepInv
  <2>7. TipsInv'
    <3>1. ASSUME NEW i \in DOMAIN todo', todo'[i].farmer \notin strangers
          PROVE  Sound(todo'[i].farmer, todo'[i].tip)
      BY <1>5, <2>2, <2>3, <3>1
    <3>2. \A f \in Farmers \ strangers : \A i \in DOMAIN todo' : todo'[i].farmer = f => Sound(f, todo'[i].tip)
      BY <3>1
    <3> QED BY <1>1, <3>2, TipsStay
  <2>8. WalkInv'
    BY <1>5, <2>4 DEF WalkInv
  <2> QED BY <2>5, <2>6, <2>7, <2>8
<1> QED BY <1>1, <1>4, <1>5

\* With no reorg, what is not above the peak of the start of the walk is the
\* tip that was looked up.
LEMMA WalkIs ==
  ASSUME TypeOK, WalkInv, pc = "walk"
  PROVE  LET f == Head(todo).farmer
             t == Head(todo).tip
         IN  f \in Farmers /\ WalkedTo(f, t) \in Nat /\ (~shaken => WalkedTo(f, t) = t)
<1> DEFINE f == Head(todo).farmer
           t == Head(todo).tip
           S == {t} \cup {i \in DOMAIN path[f] : i > t /\ path[f][i].age >= held}
           l == Len(path[f])
<1>1. todo # <<>>
  BY DEF WalkInv
<1>2. f \in Farmers /\ t \in Nat
  BY <1>1, TodoIs
<1>3. l \in Nat /\ DOMAIN path[f] = 1..l /\ held \in Nat /\ \A i \in 1..l : path[f][i].age \in Nat
  BY <1>2, Facts
<1>4. WalkedTo(f, t) = Max(S)
  BY DEF WalkedTo
<1>5. ~shaken => \A i \in DOMAIN path[f] : i > t => path[f][i].age < held
  BY DEF WalkInv
<1> HIDE DEF f, t, l
<1>6. S \subseteq 0..(t + l) /\ S # {} /\ t + l \in Nat
  BY <1>2, <1>3
<1>7. Max(S) \in S
  <2> HIDE DEF S
  <2> QED BY <1>6, Greatest
<1>8. WalkedTo(f, t) \in Nat
  <2> HIDE DEF S
  <2>1. Max(S) \in 0..(t + l)
    BY <1>6, <1>7
  <2> QED BY <1>4, <1>6, <2>1
<1>9. ASSUME ~shaken PROVE WalkedTo(f, t) = t
  <2>1. \A i \in DOMAIN path[f] : i > t => ~(path[f][i].age >= held)
    BY <1>3, <1>5, <1>9
  <2>2. S = {t}
    BY <2>1
  <2> QED BY <1>4, <1>7, <2>2
<1> QED BY <1>2, <1>8, <1>9 DEF f, t

\* The tip is looked up, and the bundle is made.
LEMMA BundleStep ==
  ASSUME CollectInv, CheckTip \/ CreateAbsorb
  PROVE  CollectInv'
<1> USE DEF CollectInv
<1> DEFINE f == Head(todo).farmer
           t == Head(todo).tip
<1>1. /\ pc \in {"tip", "walk"}
      /\ UNCHANGED <<age, path, revoked, mempool, lag, synced, record, scanSet, adding, strangers, faults>>
      /\ \/ EndRound \/ NextFarmer
         \/ /\ pc = "tip" /\ Len(path[f]) = t /\ pc' = "walk" /\ held' = lag
            /\ UNCHANGED <<scanned, found, todo, bundle, shaken>>
         \/ /\ pc = "walk" /\ pc' = "push" /\ held' = 0
            /\ bundle' = [tip |-> WalkedTo(f, t), coins |-> {c \in found : Owner[c] = f /\ IsPoolReward(c)}]
            /\ UNCHANGED <<scanned, found, todo, shaken>>
  BY DEF CheckTip, CreateAbsorb, chain, peak, farmer, locals
<1>2. todo # <<>> /\ f \in Farmers /\ t \in Nat
  BY <1>1, TodoIs DEF WalkInv
<1>3. CASE EndRound \/ NextFarmer
  BY <1>1, <1>3, RoundKeeps DEF TypeOK, AgedInv
<1>4. DeepInv'
  BY <1>1, SameChain
<1>5. ASSUME UNCHANGED todo PROVE TipsInv'
  BY <1>1, <1>5, TodoStays
<1>6. MaxLag \in Nat /\ lag \in 0..MaxLag
  BY Facts DEF TypeOK
<1> HIDE DEF f, t
<1>7. CASE /\ pc = "tip" /\ Len(path[f]) = t /\ pc' = "walk" /\ held' = lag
           /\ UNCHANGED <<scanned, found, todo, bundle, shaken>>
  <2>1. TypeOK'
    BY <1>1, <1>6, <1>7 DEF TypeOK
  <2>2. AgedInv'
    BY <1>1, <1>7 DEF AgedInv, Aged
  <2>3. WalkInv'
    <3>0. f \notin strangers => Pays(f, t)
      <4>1. Head(todo) = todo[1] /\ 1 \in DOMAIN todo
        BY <1>2, TodoIs
      <4>2. f \notin strangers => Sound(f, t)
        BY <1>2, <4>1 DEF TipsInv, f, t
      <4> QED BY <1>2, <1>7, <4>2 DEF Sound
    <3>4. f \notin strangers => Pays(f, t)'
      BY <1>1, <1>7, <3>0 DEF Pays, StateAt, Assigned, f, t
    <3>1. Head(todo').farmer = f /\ Head(todo').tip = t /\ path' = path
      BY <1>1, <1>7 DEF f, t
    <3>2. DOMAIN path[f] = 1..t
      BY <1>2, <1>7, Facts
    <3>3. \A i \in DOMAIN path[f] : ~(i > t)
      BY <1>2, <3>2
    <3> QED BY <1>1, <1>2, <1>7, <3>1, <3>3, <3>4 DEF WalkInv, f, t
  <2> QED BY <1>4, <1>5, <1>7, <2>1, <2>2, <2>3
<1>8. CASE /\ pc = "walk" /\ pc' = "push" /\ held' = 0
           /\ bundle' = [tip |-> WalkedTo(f, t), coins |-> {c \in found : Owner[c] = f /\ IsPoolReward(c)}]
           /\ UNCHANGED <<scanned, found, todo, shaken>>
  <2>1. WalkedTo(f, t) \in Nat /\ (~shaken => WalkedTo(f, t) = t)
    BY <1>8, WalkIs DEF f, t
  <2>2. /\ bundle'.tip = WalkedTo(f, t) /\ bundle'.coins \subseteq found
        /\ bundle' \in [tip : Tip, coins : SUBSET Coins]
    BY <1>8, <2>1 DEF TypeOK, Tip
  <2>3. TypeOK'
    <3>1. held' \in 0..MaxLag
      BY <1>6, <1>8
    <3> QED BY <1>1, <1>8, <2>2, <3>1 DEF TypeOK
  <2>4. AgedInv'
    BY <1>1, <1>8, <2>2 DEF AgedInv, Aged
  <2>5. WalkInv'
    <3>1. f \notin strangers => Pays(f, t)
      BY <1>8 DEF WalkInv, f, t
    <3>2. f \notin strangers => Pays(f, t)'
      BY <1>1, <1>8, <3>1 DEF Pays, StateAt, Assigned, f, t
    <3> QED BY <1>1, <1>2, <1>8, <2>1, <2>2, <3>2 DEF WalkInv, f, t
  <2> QED BY <1>4, <1>5, <1>8, <2>3, <2>4, <2>5
<1> QED BY <1>1, <1>3, <1>7, <1>8

\* A bundle is pushed, or refused, or the call fails.
LEMMA PushStep ==
  ASSUME CollectInv, PushTx \/ PushRefused \/ CallFails
  PROVE  CollectInv'
<1> USE DEF CollectInv
<1>1. /\ EndRound \/ NextFarmer
      /\ UNCHANGED <<age, path, revoked, lag, synced, record, scanSet, adding, strangers>>
      /\ faults' = faults \/ (faults < MaxFaults /\ faults' = faults + 1)
      /\ \/ mempool' = mempool
         \/ pc = "push" /\ mempool' = [mempool EXCEPT ![Head(todo).farmer] = bundle.coins]
  BY DEF PushTx, PushRefused, CallFails, Fault, chain, peak, farmer
<1>2. mempool' \in [Farmers -> SUBSET Coins] /\ \A f \in Farmers : \A c \in mempool'[f] : Aged(c)
  <2>1. mempool \in [Farmers -> SUBSET Coins] /\ bundle.coins \in SUBSET Coins
    BY DEF TypeOK
  <2>2. (\A f \in Farmers : \A c \in mempool[f] : Aged(c)) /\ \A c \in bundle.coins : Aged(c)
    BY DEF AgedInv
  <2> QED BY <1>1, <2>1, <2>2
<1>3. faults' \in 0..MaxFaults /\ lag \in 0..MaxLag /\ synced \in BOOLEAN /\ scanSet \subseteq Farmers
  <2>1. MaxFaults \in Nat /\ faults \in 0..MaxFaults
    BY CollectorAssumption DEF TypeOK, CollectorAssumption
  <2>2. faults' \in 0..MaxFaults
    BY <1>1, <2>1
  <2> QED BY <2>2 DEF TypeOK
<1> QED BY <1>1, <1>2, <1>3, RoundKeeps

\* The process is restarted.
LEMMA RestartStep ==
  ASSUME CollectInv, Crash
  PROVE  CollectInv'
<1> USE DEF CollectInv
<1>1. /\ EndRound /\ lag' = 0 /\ synced' = TRUE /\ scanSet' = StoredAddresses /\ adding' = None
      /\ UNCHANGED <<age, path, revoked, mempool, record, strangers>>
      /\ faults < MaxFaults /\ faults' = faults + 1
  BY DEF Crash, Fault, chain
<1>2. MaxFaults \in Nat /\ faults \in 0..MaxFaults /\ MaxLag \in Nat
  BY CollectorAssumption DEF TypeOK, CollectorAssumption
<1>3. faults' \in 0..MaxFaults /\ lag' \in 0..MaxLag
  BY <1>1, <1>2
<1>4. scanSet' \subseteq Farmers
  BY <1>1 DEF StoredAddresses
<1>5. mempool' \in [Farmers -> SUBSET Coins] /\ \A f \in Farmers : \A c \in mempool'[f] : Aged(c)
  BY <1>1 DEF TypeOK, AgedInv
<1> QED BY <1>1, <1>3, <1>4, <1>5, RoundKeeps

\* The initial states satisfy the invariant.
LEMMA InitCollect == Init => CollectInv
<1> SUFFICES ASSUME Init PROVE CollectInv
  OBVIOUS
<1> USE DEF Init
<1>1. MaxAge \in Nat /\ MaxLag \in Nat /\ MaxFaults \in Nat /\ None \notin Nat /\ Known \subseteq Farmers
  BY CollectorAssumption DEF CollectorAssumption, MaxAge
<1>2. \A f \in Known : Before[f] \in Assigned
  BY CollectorAssumption DEF CollectorAssumption
<1>3. TypeOK
  <2>1. [tip |-> 0, member |-> TRUE] \in [tip : Tip, member : BOOLEAN]
    BY DEF Tip
  <2>2. record \in [Farmers -> [tip : Tip, member : BOOLEAN] \cup {None}]
    BY <2>1
  <2>3. bundle \in [tip : Tip, coins : SUBSET Coins]
    BY DEF NoBundle, Tip
  <2>4. path \in [Farmers -> Seq(Spend)] /\ todo \in Seq([farmer : Farmers, tip : Tip])
    OBVIOUS
  <2>5. /\ age \in [Coins -> 0..MaxAge \cup {None}] /\ mempool \in [Farmers -> SUBSET Coins]
        /\ lag \in 0..MaxLag /\ held \in 0..MaxLag /\ faults \in 0..MaxFaults
    BY <1>1
  <2>6. /\ scanSet \subseteq Farmers /\ strangers \subseteq Farmers /\ scanned \subseteq Farmers /\ found \subseteq Coins
        /\ adding \in [farmer : Farmers, tip : Tip] \cup {None}
        /\ synced \in BOOLEAN /\ shaken \in BOOLEAN /\ pc \in {"idle", "coins", "records", "tip", "walk", "push"}
    BY <1>1
  <2> QED BY <2>2, <2>3, <2>4, <2>5, <2>6 DEF TypeOK
<1>4. \A f \in Farmers : path[f] = <<>> /\ Len(path[f]) = 0 /\ DOMAIN path[f] = {}
  OBVIOUS
<1>5. AgedInv
  BY <1>4 DEF AgedInv, NoBundle
<1>6. DeepInv
  BY <1>4 DEF DeepInv
<1>7. TipsInv
  <2>1. \A f \in Known : Sound(f, 0)
    BY <1>1, <1>2, <1>4 DEF Sound, Pays, StateAt
  <2>2. \A f \in Farmers : record[f] # None => f \in Known /\ record[f].tip = 0
    OBVIOUS
  <2> QED BY <2>1, <2>2 DEF TipsInv
<1> QED BY <1>3, <1>5, <1>6, <1>7 DEF CollectInv, WalkInv

\* Every step keeps it.
LEMMA NextCollect ==
  ASSUME CollectInv, [Next]_vars
  PROVE  CollectInv'
<1>1. CASE NewBlock \/ Reorg
  BY <1>1, ChainStep
<1>2. CASE GetPeak \/ GetPeakUnsynced
  BY <1>2, PeakStep
<1>3. CASE Records
  BY <1>3, HandlerStep
<1>4. CASE StartRound \/ GetCoins
  BY <1>4, CoinsStep
<1>5. CASE GetRecords
  BY <1>5, RecordsStep
<1>6. CASE CheckTip \/ CreateAbsorb
  BY <1>6, BundleStep
<1>7. CASE PushTx \/ PushRefused \/ CallFails
  BY <1>7, PushStep
<1>8. CASE MempoolDrops
  BY <1>8, DropStep
<1>9. CASE Crash
  BY <1>9, RestartStep
<1>10. CASE UNCHANGED vars
  <2>1. /\ UNCHANGED <<age, path, revoked, mempool, lag, synced, record, scanSet, adding, strangers>>
        /\ UNCHANGED <<pc, held, scanned, found, todo, bundle, shaken, faults>>
    BY <1>10 DEF vars, chain, peak, farmer, locals
  <2>2. TypeOK'
    BY <2>1 DEF CollectInv, TypeOK
  <2>3. AgedInv'
    BY <2>1 DEF CollectInv, AgedInv, Aged
  <2>4. DeepInv' /\ TipsInv'
    BY <2>1, SameChain, TodoStays DEF CollectInv
  <2>5. WalkInv'
    BY <2>1, SameChain DEF CollectInv, WalkInv
  <2> QED BY <2>2, <2>3, <2>4, <2>5 DEF CollectInv
<1> QED BY <1>1, <1>2, <1>3, <1>4, <1>5, <1>6, <1>7, <1>8, <1>9, <1>10 DEF Next, Collect, Failure

------------------------------------------------------------------------------
(* The theorems.                                                           *)

\* What is found or absorbed is there to stay.  No reorg undoes the tip of a member,
\* and when the loop finds it unspent it pays this pool, unless a reorg has undone
\* the return that made its farmer a member.
THEOREM CollectInvariance == Spec => []CollectInv
BY InitCollect, NextCollect, PTL DEF Spec

\* Chain, store and loop have their types.
THEOREM CollectorTypeCorrect == Spec => []TypeOK
<1>1. CollectInv => TypeOK
  BY DEF CollectInv
<1> QED BY <1>1, CollectInvariance, PTL

\* Whatever is pushed absorbs rewards that are buried on the chain itself,
\* also when the node takes it back into its mempool (pool.py, line 269).
THEOREM AlwaysBuriedRewards == Spec => []OnlyBuriedRewards
<1>1. CollectInv => OnlyBuriedRewards
  BY DEF CollectInv, AgedInv, Aged, OnlyBuriedRewards
<1> QED BY <1>1, CollectInvariance, PTL

\* A bundle is built on a state that pays this pool, however its farmer leaves and
\* comes back meanwhile (pool.py, lines 255-256), but for a reorg during the walk, a
\* return that a reorg has undone, and those whom add_farmer should have refused.
THEOREM AlwaysPaysThisPool == Spec => []PaysThisPool
<1>1. ASSUME CollectInv, pc = "push", ~shaken, Head(todo).farmer \notin strangers
      PROVE  Pays(Head(todo).farmer, bundle.tip)
  BY <1>1 DEF CollectInv, WalkInv
<1>2. CollectInv => PaysThisPool
  BY <1>1 DEF PaysThisPool, Pays
<1> QED BY <1>2, CollectInvariance, PTL
==============================================================================
