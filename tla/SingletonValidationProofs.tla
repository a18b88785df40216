----------------------- MODULE SingletonValidationProofs -----------------------
(***************************************************************************)
(* For any number of calls, heights, spends, reorgs and failures: the      *)
(* store never points to a spend that a reorg can undo, a call that finds  *)
(* a member tells the truth about a moment during the call, and            *)
(* overlapping calls leave no walk behind.                                 *)
(***************************************************************************)
EXTENDS SingletonValidation, TLAPS

------------------------------------------------------------------------------
(* The chain and the paths along it.                                       *)

\* A spend of the chain.
SpendRec == [to : Kinds, at : 1..MaxPeak]

\* Spends are in blocks of increasing height, none above the peak.
ChainInv ==
  /\ \A i, j \in DOMAIN spends : i < j => spends[i].at < spends[j].at
  /\ \A i \in DOMAIN spends : spends[i].at <= peak

\* A path that leads along the chain, and one whose last spend is so deep that
\* no reorg replaces it.
OnChain(p) == Len(p) <= Len(spends) /\ \A i \in 1..Len(p) : p[i] = spends[i].to
BuriedPath(p) == OnChain(p) /\ (p # <<>> => spends[Len(p)].at <= peak - Threshold)

\* Paths are the sequences of at most MaxSpends kinds.
LEMMA PathsAre ==
  \A p : p \in Paths <=> p \in Seq(Kinds) /\ Len(p) <= MaxSpends
<1> SUFFICES ASSUME NEW p PROVE p \in Paths <=> p \in Seq(Kinds) /\ Len(p) <= MaxSpends
  OBVIOUS
<1>1. MaxSpends \in Nat
  BY SingletonAssumption DEF SingletonAssumption
<1>2. ASSUME p \in Paths PROVE p \in Seq(Kinds) /\ Len(p) <= MaxSpends
  <2>1. PICK n \in 0..MaxSpends : p \in [1..n -> Kinds]
    BY <1>2 DEF Paths
  <2>2. n \in Nat /\ n <= MaxSpends
    BY <1>1, <2>1
  <2> HIDE DEF Kinds
  <2> QED BY <2>1, <2>2
<1>3. ASSUME p \in Seq(Kinds), Len(p) <= MaxSpends PROVE p \in Paths
  <2>1. Len(p) \in 0..MaxSpends /\ p \in [1..Len(p) -> Kinds]
    BY <1>1, <1>3
  <2> QED BY <2>1 DEF Paths
<1> QED BY <1>2, <1>3

\* The path from the launcher to itself is one.
LEMMA EmptyPath == <<>> \in Paths
<1> HIDE DEF Kinds
<1>1. MaxSpends \in Nat
  BY SingletonAssumption DEF SingletonAssumption
<1>2. <<>> \in Seq(Kinds) /\ Len(<<>>) = 0 /\ 0 <= MaxSpends
  BY <1>1
<1>3. \A p \in Seq(Kinds) : Len(p) <= MaxSpends => p \in Paths
  BY PathsAre
<1> QED BY <1>2, <1>3

\* The library's test is the one above.
LEMMA PrefixIs ==
  ASSUME NEW s \in Seq(SpendRec), NEW p \in Seq(Kinds)
  PROVE  IsPrefix(p, Path(s)) <=> Len(p) <= Len(s) /\ \A i \in 1..Len(p) : p[i] = s[i].to
<1> DEFINE q == Path(s)
           n == Len(p)
<1>1. q \in Seq(Kinds) /\ Len(q) = Len(s) /\ \A i \in 1..Len(s) : q[i] = s[i].to
  <2>1. \A i \in DOMAIN s : s[i] \in SpendRec
    OBVIOUS
  <2>2. \A i \in DOMAIN s : s[i].to \in Kinds
    BY <2>1 DEF SpendRec
  <2> HIDE DEF Kinds
  <2> QED BY <2>2 DEF Path
<1> HIDE DEF q, Kinds
<1>2. n \in Nat /\ DOMAIN p = 1..n /\ SubSeq(p, 1, n) = p
  OBVIOUS
<1>3. ASSUME n <= Len(q) PROVE SubSeq(q, 1, n) = [i \in 1..n |-> q[i]]
  BY <1>1, <1>2, <1>3 DEF SubSeq
<1>4. p = [i \in 1..n |-> p[i]]
  BY <1>2
<1> HIDE DEF n
<1>5. ASSUME n <= Len(q) PROVE SubSeq(p, 1, n) = SubSeq(q, 1, n) <=> \A i \in 1..n : p[i] = q[i]
  <2>1. SubSeq(p, 1, n) = p /\ SubSeq(q, 1, n) = [i \in 1..n |-> q[i]]
    BY <1>2, <1>3, <1>5
  <2>2. ASSUME \A i \in 1..n : p[i] = q[i] PROVE p = [i \in 1..n |-> q[i]]
    BY <1>4, <2>2
  <2>3. ASSUME p = [i \in 1..n |-> q[i]] PROVE \A i \in 1..n : p[i] = q[i]
    BY <2>3
  <2> QED BY <2>1, <2>2, <2>3
<1>6. IsPrefix(p, q) <=> n <= Len(q) /\ SubSeq(p, 1, n) = SubSeq(q, 1, n)
  BY DEF IsPrefix, n
<1>7. n <= Len(q) => \A i \in 1..n : q[i] = s[i].to
  BY <1>1, <1>2
<1> QED BY <1>1, <1>5, <1>6, <1>7 DEF q, n

\* What the types say of the chain, with the numbers they are about.
LEMMA ChainFacts ==
  ASSUME TypeOK
  PROVE  /\ spends \in Seq(SpendRec) /\ Len(spends) \in Nat /\ Len(spends) <= MaxSpends
         /\ peak \in Nat /\ peak <= MaxPeak /\ seenPeak \in Nat /\ seenPeak <= peak
         /\ Threshold \in Nat /\ MaxPeak \in Nat /\ MaxSpends \in Nat
         /\ \A i \in DOMAIN spends : spends[i].at \in Nat /\ spends[i].to \in Kinds
<1>1. /\ spends \in Seq(SpendRec) /\ Len(spends) \in Nat /\ Len(spends) <= MaxSpends
      /\ Threshold \in Nat /\ MaxPeak \in Nat /\ MaxSpends \in Nat
  BY SingletonAssumption DEF TypeOK, SpendRec, SingletonAssumption
<1>2. peak \in Nat /\ peak <= MaxPeak /\ seenPeak \in Nat /\ seenPeak <= peak
  BY <1>1 DEF TypeOK
<1>3. \A i \in DOMAIN spends : spends[i] \in SpendRec
  BY <1>1
<1>4. \A i \in DOMAIN spends : spends[i].at \in Nat /\ spends[i].to \in Kinds
  BY <1>1, <1>3 DEF SpendRec
<1> QED BY <1>1, <1>2, <1>4

\* Blocks and reorgs keep heights in order, and every path that is buried.
LEMMA ChainGrows ==
  ASSUME TypeOK, ChainInv, Block \/ Reorg
  PROVE  /\ spends' \in Seq(SpendRec) /\ Len(spends') <= MaxSpends
         /\ peak' \in 0..MaxPeak /\ peak <= peak' /\ seenPeak' = seenPeak
         /\ ChainInv'
         /\ \A p \in Seq(Kinds) : BuriedPath(p) => BuriedPath(p)'
<1>1. /\ spends \in Seq(SpendRec) /\ Len(spends) \in Nat /\ Len(spends) <= MaxSpends
      /\ peak \in Nat /\ peak <= MaxPeak /\ Threshold \in Nat /\ MaxPeak \in Nat /\ MaxSpends \in Nat
      /\ \A i \in DOMAIN spends : spends[i].at \in Nat /\ spends[i].to \in Kinds
      /\ DOMAIN spends = 1..Len(spends)
  BY ChainFacts
<1> HIDE DEF Kinds
<1>2. \/ spends' = spends
      \/ \E s \in SpendRec : s.at = peak + 1 /\ peak' = peak + 1 /\ spends' = Append(spends, s) /\ Len(spends) < MaxSpends
      \/ \E n \in 0..(Len(spends) - 1) : /\ spends[n + 1].at > peak - Threshold
                                         /\ spends' = SubSeq(spends, 1, n) /\ peak' = peak
  <2>1. CASE Block
    <3>1. peak < MaxPeak /\ peak' = peak + 1
      BY <2>1 DEF Block
    <3>2. CASE spends' = spends
      BY <3>2
    <3>3. CASE Len(spends) < MaxSpends /\ \E to \in Kinds : spends' = Append(spends, [to |-> to, at |-> peak + 1])
      <4>1. PICK to \in Kinds : spends' = Append(spends, [to |-> to, at |-> peak + 1])
        BY <3>3
      <4>2. [to |-> to, at |-> peak + 1] \in SpendRec
        BY <1>1, <3>1 DEF SpendRec
      <4> QED BY <3>1, <3>3, <4>1, <4>2
    <3> QED BY <2>1, <3>2, <3>3 DEF Block
  <2>2. CASE Reorg
    BY <2>2 DEF Reorg
  <2> QED BY <2>1, <2>2
<1>3. peak' \in 0..MaxPeak /\ peak <= peak' /\ seenPeak' = seenPeak
  <2>1. peak' = peak \/ (peak' = peak + 1 /\ peak < MaxPeak)
    BY DEF Block, Reorg
  <2> QED BY <2>1, <1>1 DEF Block, Reorg
<1>4. ASSUME NEW p \in Seq(Kinds) PROVE Len(p) \in Nat /\ (p # <<>> => Len(p) \in 1..Len(p))
  OBVIOUS
<1>5. CASE spends' = spends
  <2>1. ChainInv'
    BY <1>1, <1>3, <1>5 DEF ChainInv
  <2>2. ASSUME NEW p \in Seq(Kinds), BuriedPath(p) PROVE BuriedPath(p)'
    <3>1. OnChain(p)'
      BY <1>5, <2>2 DEF BuriedPath, OnChain
    <3>2. ASSUME p # <<>> PROVE spends'[Len(p)].at <= peak' - Threshold
      <4>1. Len(p) \in DOMAIN spends
        BY <1>1, <1>4, <2>2, <3>2 DEF BuriedPath, OnChain
      <4>2. spends[Len(p)].at \in Nat /\ spends[Len(p)].at <= peak - Threshold
        BY <1>1, <2>2, <3>2, <4>1 DEF BuriedPath
      <4> QED BY <1>1, <1>3, <1>5, <4>2
    <3> QED BY <3>1, <3>2 DEF BuriedPath
  <2> QED BY <1>1, <1>3, <1>5, <2>1, <2>2
<1>6. ASSUME NEW s \in SpendRec, s.at = peak + 1, peak' = peak + 1, spends' = Append(spends, s), Len(spends) < MaxSpends
      PROVE  /\ spends' \in Seq(SpendRec) /\ Len(spends') <= MaxSpends /\ ChainInv'
             /\ \A p \in Seq(Kinds) : BuriedPath(p) => BuriedPath(p)'
  <2>1. /\ spends' \in Seq(SpendRec) /\ Len(spends') = Len(spends) + 1 /\ DOMAIN spends' = 1..(Len(spends) + 1)
        /\ spends'[Len(spends) + 1] = s /\ \A i \in DOMAIN spends : spends'[i] = spends[i]
    BY <1>1, <1>6
  <2>2. \A i \in DOMAIN spends' : i \in Nat /\ (i \in DOMAIN spends \/ i = Len(spends) + 1)
    BY <1>1, <2>1
  <2>3. ChainInv'
    <3>1. ASSUME NEW i \in DOMAIN spends', NEW j \in DOMAIN spends', i < j PROVE spends'[i].at < spends'[j].at
      <4>1. i \in DOMAIN spends
        BY <1>1, <2>1, <3>1
      <4>2. CASE j \in DOMAIN spends
        BY <2>1, <3>1, <4>1, <4>2 DEF ChainInv
      <4>3. CASE j = Len(spends) + 1
        <5>1. spends[i].at <= peak /\ spends[i].at \in Nat
          BY <1>1, <4>1 DEF ChainInv
        <5> QED BY <1>1, <1>6, <2>1, <4>1, <4>3, <5>1
      <4> QED BY <2>2, <4>2, <4>3
    <3>2. ASSUME NEW i \in DOMAIN spends' PROVE spends'[i].at <= peak'
      <4>1. CASE i \in DOMAIN spends
        <5>1. spends[i].at <= peak /\ spends[i].at \in Nat
          BY <1>1, <4>1 DEF ChainInv
        <5> QED BY <1>1, <1>6, <2>1, <4>1, <5>1
      <4>2. CASE i = Len(spends) + 1
        BY <1>1, <1>6, <2>1, <4>2
      <4> QED BY <2>2, <4>1, <4>2
    <3> QED BY <3>1, <3>2 DEF ChainInv
  <2>4. ASSUME NEW p \in Seq(Kinds), BuriedPath(p) PROVE BuriedPath(p)'
    <3>1. \A i \in 1..Len(p) : i \in DOMAIN spends
      BY <1>1, <1>4, <2>4 DEF BuriedPath, OnChain
    <3>2. OnChain(p)'
      BY <1>1, <1>4, <2>1, <2>4, <3>1 DEF BuriedPath, OnChain
    <3>3. ASSUME p # <<>> PROVE spends'[Len(p)].at <= peak' - Threshold
      <4>1. Len(p) \in DOMAIN spends
        BY <1>4, <3>1, <3>3
      <4>2. spends[Len(p)].at \in Nat /\ spends[Len(p)].at <= peak - Threshold
        BY <1>1, <2>4, <3>3, <4>1 DEF BuriedPath
      <4>3. spends'[Len(p)].at = spends[Len(p)].at
        BY <2>1, <4>1
      <4> QED BY <1>1, <1>3, <4>2, <4>3
    <3> QED BY <3>2, <3>3 DEF BuriedPath
  <2> QED BY <1>1, <1>6, <2>1, <2>3, <2>4
<1>7. ASSUME NEW n \in 0..(Len(spends) - 1), spends[n + 1].at > peak - Threshold,
             spends' = SubSeq(spends, 1, n), peak' = peak
      PROVE  /\ spends' \in Seq(SpendRec) /\ Len(spends') <= MaxSpends /\ ChainInv'
             /\ \A p \in Seq(Kinds) : BuriedPath(p) => BuriedPath(p)'
  <2>1. /\ n \in Nat /\ n + 1 \in DOMAIN spends /\ spends' \in Seq(SpendRec) /\ Len(spends') = n /\ DOMAIN spends' = 1..n
        /\ n < Len(spends) /\ \A i \in 1..n : i \in DOMAIN spends /\ spends'[i] = spends[i]
    BY <1>1, <1>7
  <2>2. ChainInv'
    BY <1>1, <1>7, <2>1 DEF ChainInv
  <2>3. ASSUME NEW p \in Seq(Kinds), BuriedPath(p) PROVE BuriedPath(p)'
    <3>1. Len(p) <= n
      <4> SUFFICES ASSUME Len(p) > n PROVE FALSE
        BY <1>4, <2>1
      <4>1. Len(p) \in DOMAIN spends /\ p # <<>> /\ Len(p) \in Nat
        BY <1>1, <1>4, <2>1, <2>3 DEF BuriedPath, OnChain
      <4>2. spends[Len(p)].at <= peak - Threshold /\ spends[Len(p)].at \in Nat /\ spends[n + 1].at \in Nat
        BY <1>1, <2>1, <2>3, <4>1 DEF BuriedPath
      <4>3. Len(p) = n + 1 \/ n + 1 < Len(p)
        BY <2>1, <4>1
      <4>4. spends[n + 1].at <= spends[Len(p)].at
        BY <2>1, <4>1, <4>2, <4>3 DEF ChainInv
      <4> QED BY <1>1, <1>7, <4>2, <4>4
    <3>2. OnChain(p)'
      <4>1. \A i \in 1..Len(p) : i \in 1..n
        BY <1>4, <2>1, <3>1
      <4> QED BY <2>1, <2>3, <3>1, <4>1 DEF BuriedPath, OnChain
    <3>3. ASSUME p # <<>> PROVE spends'[Len(p)].at <= peak' - Threshold
      <4>1. Len(p) \in 1..n
        BY <1>4, <2>1, <3>1, <3>3
      <4> QED BY <1>7, <2>1, <2>3, <3>3, <4>1 DEF BuriedPath
    <3> QED BY <3>2, <3>3 DEF BuriedPath
  <2> QED BY <1>1, <2>1, <2>2, <2>3
<1> QED BY <1>2, <1>3, <1>5, <1>6, <1>7

------------------------------------------------------------------------------
(* The inductive invariant.                                                *)

\* What a walk has found: its buried part is a part of its path, and is deep
\* under the peak, which is no lower than the one the walk began with.
GoodTask(k) ==
  /\ k.buried <= Len(k.path) /\ k.peak <= peak
  /\ BuriedPath(SubSeq(k.path, 1, k.buried))

\* Only what no reorg can undo is stored, or will be.
TipInv ==
  /\ record # None => BuriedPath(record.tip)
  /\ \A t \in Calls : GoodTask(task[t])

\* A call that waits for a walk refers to it until it returns, and goes on only
\* when the walk is finished.
WalkerOf(c) ==
  /\ pc[c] \in {"idle", "reading", "done"} => walker[c] = None /\ popped[c] = None
  /\ pc[c] \notin {"idle", "reading", "done"} => walker[c] \in Calls
  /\ pc[c] \notin {"idle", "reading", "done", "waiting"} => Finished(walker[c])
  /\ pc[c] = "locking" => task[walker[c]].state = "done" /\ StateAfter(Tip(c)) = "leaving"

\* A walk is referred to by the call that started it and by later ones: a call
\* that has yet to start its own finds nobody waiting for it.
CallInv ==
  /\ \A c \in Calls : WalkerOf(c)
  /\ \A c, d \in Calls : walker[d] = c \/ popped[d] = c => pc[c] \notin {"idle", "reading"}

\* The dictionary holds the walk of a call that still waits for it.
SlotInv == slot # None => pc[slot] = "waiting" /\ walker[slot] = slot

\* A call that has begun and not returned, and the states that belong to this pool.
Pending(c) == pc[c] \notin {"idle", "done"}
Ours == {"farming", "leaving"}

\* A walk that is done has found a state that the singleton had during every
\* call that waits for it.
MemberInv ==
  \A c \in Calls : Pending(c) =>
    /\ Assigned(spends) => wasMember[c]
    /\ walker[c] # None /\ task[walker[c]].state = "done" /\ StateAfter(Tip(c)) \in Ours => wasMember[c]

\* The inductive invariant of the validations.
SingInv == TypeOK /\ ChainInv /\ TipInv /\ CallInv /\ SlotInv /\ MemberInv

\* The initial states satisfy it.
LEMMA InitSing == Init => SingInv
<1> SUFFICES ASSUME Init PROVE SingInv
  OBVIOUS
<1> USE DEF Init
<1> HIDE DEF Kinds
<1>1. <<>> \in Paths /\ NoTask \in Task
  <2>1. <<>> \in Paths
    BY EmptyPath
  <2> QED BY <2>1, SingletonAssumption DEF NoTask, Task, SingletonAssumption
<1>2. spends \in Seq([to : Kinds, at : 1..MaxPeak]) /\ Len(spends) = 0 /\ DOMAIN spends = {}
  OBVIOUS
<1>3. TypeOK
  <2>1. record \in Record \cup {None}
    <3>1. [tip |-> <<>>, member |-> TRUE] \in Record
      BY <1>1 DEF Record
    <3> QED BY <3>1
  <2> QED BY <1>1, <1>2, <2>1, SingletonAssumption DEF TypeOK, SingletonAssumption
<1>4. ChainInv
  BY <1>2 DEF ChainInv
<1>5. BuriedPath(<<>>) /\ SubSeq(<<>>, 1, 0) = <<>>
  BY <1>2 DEF BuriedPath, OnChain
<1>6. TipInv
  <2>1. record # None => record.tip = <<>>
    OBVIOUS
  <2>2. \A t \in Calls : task[t].path = <<>> /\ task[t].buried = 0 /\ task[t].peak = 0
    BY DEF NoTask
  <2>3. ASSUME NEW t \in Calls PROVE GoodTask(task[t])
    <3>1. SubSeq(task[t].path, 1, task[t].buried) = <<>>
      BY <1>5, <2>2
    <3>2. BuriedPath(SubSeq(task[t].path, 1, task[t].buried))
      BY <1>5, <3>1
    <3>3. task[t].buried <= Len(task[t].path) /\ task[t].peak <= peak
      BY <2>2
    <3> QED BY <3>2, <3>3 DEF GoodTask
  <2> QED BY <1>5, <2>1, <2>3 DEF TipInv
<1>7. CallInv
  BY SingletonAssumption DEF CallInv, WalkerOf, SingletonAssumption
<1> QED BY <1>3, <1>4, <1>6, <1>7 DEF SingInv, SlotInv, MemberInv, Pending

\* What the types say of a task and of a record.
LEMMA TaskFacts ==
  ASSUME TypeOK
  PROVE  /\ \A t \in Calls :
              /\ task[t] \in Task
              /\ task[t].path \in Seq(Kinds) /\ Len(task[t].path) \in Nat /\ Len(task[t].path) <= MaxSpends
              /\ task[t].buried \in Nat /\ task[t].buried <= MaxSpends /\ task[t].peak \in Nat
              /\ task[t].path \in Paths
         /\ record # None => /\ record.tip \in Paths /\ record.tip \in Seq(Kinds)
                             /\ Len(record.tip) \in Nat /\ Len(record.tip) <= MaxSpends
         /\ None \notin Calls
<1> HIDE DEF Kinds
<1>1. None \notin Calls /\ MaxSpends \in Nat /\ MaxPeak \in Nat
  BY SingletonAssumption DEF SingletonAssumption
<1>2. \A p \in Paths : p \in Seq(Kinds) /\ Len(p) \in Nat /\ Len(p) <= MaxSpends
  BY PathsAre
<1>3. \A t \in Calls : task[t] \in Task
  BY DEF TypeOK
<1>4. \A k \in Task : k.path \in Paths /\ k.buried \in 0..MaxSpends /\ k.peak \in 0..MaxPeak
  BY DEF Task
<1>5. record # None => record.tip \in Paths
  BY DEF TypeOK, Record
<1>6. \A k \in Task : k.buried \in Nat /\ k.buried <= MaxSpends /\ k.peak \in Nat
  BY <1>1, <1>4
<1> QED BY <1>1, <1>2, <1>3, <1>4, <1>5, <1>6

\* The buried part of a good walk is a path; all of it, if all of it is buried.
LEMMA TipFacts ==
  ASSUME NEW p \in Seq(Kinds), NEW n \in Nat, n <= Len(p)
  PROVE  /\ SubSeq(p, 1, n) \in Seq(Kinds) /\ Len(SubSeq(p, 1, n)) = n
         /\ \A i \in 1..n : SubSeq(p, 1, n)[i] = p[i]
         /\ n = Len(p) => SubSeq(p, 1, n) = p
  OBVIOUS

\* The chain moves on.
LEMMA SingChain ==
  ASSUME SingInv, Block \/ Reorg
  PROVE  SingInv'
<1> USE DEF SingInv
<1>1. /\ UNCHANGED <<seenPeak, record, pc, base, walker, popped, member, slot, task, errors>>
      /\ RememberMember(spends')
  BY DEF Block, Reorg, call
<1>2. /\ spends' \in Seq(SpendRec) /\ Len(spends') <= MaxSpends
      /\ peak' \in 0..MaxPeak /\ peak <= peak' /\ ChainInv'
      /\ \A p \in Seq(Kinds) : BuriedPath(p) => BuriedPath(p)'
  BY ChainGrows
<1>3. peak \in Nat /\ seenPeak \in 0..peak /\ peak' \in Nat
  BY <1>2, ChainFacts DEF TypeOK
<1>4. TypeOK'
  <2>1. wasMember' \in [Calls -> BOOLEAN]
    BY <1>1 DEF RememberMember, TypeOK
  <2>2. reorgs' \in 0..MaxReorgs
    BY SingletonAssumption, SMTT(20) DEF Block, Reorg, TypeOK, SingletonAssumption
  <2>3. seenPeak' \in 0..peak'
    BY <1>1, <1>2, <1>3
  <2> QED BY <1>1, <1>2, <2>1, <2>2, <2>3 DEF TypeOK, SpendRec
<1>5. TipInv'
  <2>1. record # None => BuriedPath(record.tip)'
    <3> SUFFICES ASSUME record # None PROVE BuriedPath(record.tip)'
      OBVIOUS
    <3>1. PICK p \in Seq(Kinds) : p = record.tip /\ BuriedPath(p)
      BY TaskFacts DEF TipInv
    <3>2. BuriedPath(p)' /\ record'.tip = p
      BY <1>1, <1>2, <3>1
    <3> QED BY <3>2 DEF BuriedPath, OnChain
  <2>2. ASSUME NEW t \in Calls PROVE GoodTask(task[t])'
    <3>1. GoodTask(task[t]) /\ task[t].path \in Seq(Kinds) /\ task[t].buried \in Nat /\ task[t].peak \in Nat
      BY TaskFacts DEF TipInv
    <3>2. PICK p \in Seq(Kinds) : p = SubSeq(task[t].path, 1, task[t].buried) /\ BuriedPath(p)
      BY <3>1, TipFacts DEF GoodTask
    <3>3. p = SubSeq(task'[t].path, 1, task'[t].buried) /\ task'[t] = task[t]
      BY <1>1, <3>2
    <3>4. BuriedPath(SubSeq(task[t].path, 1, task[t].buried))'
      <4>1. BuriedPath(p)'
        BY <1>2, <3>2
      <4> QED BY <3>3, <4>1 DEF BuriedPath, OnChain
    <3>5. task[t].peak <= peak'
      BY <1>2, <1>3, <3>1 DEF GoodTask
    <3> QED BY <1>1, <3>1, <3>3, <3>4, <3>5 DEF GoodTask
  <2> QED BY <1>1, <2>1, <2>2 DEF TipInv
<1>6. CallInv' /\ SlotInv'
  BY <1>1 DEF CallInv, WalkerOf, Finished, Tip, SlotInv
<1>7. MemberInv'
  <2> SUFFICES ASSUME NEW c \in Calls, Pending(c)
               PROVE  /\ Assigned(spends)' => wasMember'[c]
                      /\ walker[c] # None /\ task[walker[c]].state = "done" /\ StateAfter(Tip(c)) \in Ours => wasMember'[c]
    BY <1>1 DEF MemberInv, Pending, Tip
  <2>1. wasMember'[c] = (wasMember[c] \/ Assigned(spends'))
    BY <1>1 DEF RememberMember, Pending
  <2> QED BY <2>1 DEF MemberInv, Assigned, StateOf
<1> QED BY <1>2, <1>4, <1>5, <1>6, <1>7

\* The node's peak is read.
LEMMA SingPeak ==
  ASSUME SingInv, GetPeak
  PROVE  SingInv'
<1> USE DEF SingInv
<1>1. /\ UNCHANGED <<spends, peak, record, pc, base, walker, popped, member, slot, task, wasMember, reorgs, errors>>
      /\ seenPeak' = peak
  BY DEF GetPeak, call, chain
<1>2. TypeOK'
  <2>1. seenPeak' \in 0..peak
    BY <1>1, ChainFacts
  <2> QED BY <1>1, <2>1 DEF TypeOK
<1>3. ChainInv' /\ TipInv'
  BY <1>1 DEF ChainInv, TipInv, GoodTask, BuriedPath, OnChain
<1>4. CallInv' /\ SlotInv' /\ MemberInv'
  BY <1>1 DEF CallInv, WalkerOf, Finished, Tip, SlotInv, MemberInv, Pending, Assigned, StateOf
<1> QED BY <1>2, <1>3, <1>4

\* What is on the chain and good stays so while chain, record and walks stay.
LEMMA TipStays ==
  ASSUME SingInv, UNCHANGED <<spends, peak, record, task>>
  PROVE  ChainInv' /\ TipInv'
BY DEF SingInv, ChainInv, TipInv, GoodTask, BuriedPath, OnChain

\* A call begins: it joins a walk that is not finished, or reads the record.
LEMMA SingCall ==
  ASSUME SingInv, NEW c \in Calls, Call(c)
  PROVE  SingInv'
<1> USE DEF SingInv
<1>1. /\ pc[c] = "idle"
      /\ UNCHANGED <<spends, peak, seenPeak, record, base, popped, member, slot, task, reorgs, errors>>
      /\ wasMember' = [wasMember EXCEPT ![c] = Assigned(spends)]
      /\ \/ /\ slot # None /\ ~Finished(slot)
            /\ pc' = [pc EXCEPT ![c] = "waiting"] /\ walker' = [walker EXCEPT ![c] = slot]
         \/ pc' = [pc EXCEPT ![c] = "reading"] /\ walker' = walker
  BY DEF Call, Goto, Joinable, chain
<1>2. /\ pc \in [Calls -> {"idle", "reading", "waiting", "popping", "judging", "locking", "storing", "done"}]
      /\ walker \in [Calls -> Calls \cup {None}] /\ popped \in [Calls -> Calls \cup {None}]
      /\ slot \in Calls \cup {None} /\ wasMember \in [Calls -> BOOLEAN] /\ None \notin Calls
  BY SingletonAssumption DEF TypeOK, SingletonAssumption
<1>3. TypeOK'
  <2>1. wasMember' \in [Calls -> BOOLEAN]
    <3>1. Assigned(spends) \in BOOLEAN
      BY DEF Assigned
    <3> QED BY <1>1, <1>2, <3>1
  <2>2. /\ walker' \in [Calls -> Calls \cup {None}]
        /\ pc' \in [Calls -> {"idle", "reading", "waiting", "popping", "judging", "locking", "storing", "done"}]
    BY <1>1, <1>2
  <2> QED BY <1>1, <2>1, <2>2 DEF TypeOK
<1>4. ChainInv' /\ TipInv'
  BY <1>1, TipStays
<1>5. CallInv'
  <2>1. ASSUME NEW d \in Calls PROVE WalkerOf(d)'
    <3>1. CASE d = c
      BY <1>1, <1>2, <3>1 DEF CallInv, WalkerOf
    <3>2. CASE d # c
      BY <1>1, <1>2, <3>2 DEF CallInv, WalkerOf, Finished, Tip
    <3> QED BY <3>1, <3>2
  <2>2. \A t, d \in Calls : walker'[d] = t \/ popped'[d] = t => pc'[t] \notin {"idle", "reading"}
    BY <1>1, <1>2 DEF CallInv, WalkerOf, SlotInv
  <2> QED BY <2>1, <2>2 DEF CallInv
<1>6. SlotInv'
  BY <1>1, <1>2 DEF SlotInv
<1>7. MemberInv'
  <2> SUFFICES ASSUME NEW d \in Calls, Pending(d)'
               PROVE  /\ Assigned(spends)' => wasMember'[d]
                      /\ walker'[d] # None /\ task'[walker'[d]].state = "done" /\ StateAfter(Tip(d)') \in Ours => wasMember'[d]
    BY DEF MemberInv, Ours
  <2>1. Assigned(spends)' <=> Assigned(spends)
    BY <1>1 DEF Assigned, StateOf
  <2>2. CASE d = c
    <3>1. wasMember'[d] <=> Assigned(spends)
      BY <1>1, <1>2, <2>2
    <3>2. walker'[d] = None \/ task'[walker'[d]].state # "done"
      BY <1>1, <1>2, <2>2 DEF CallInv, WalkerOf, Finished
    <3> QED BY <2>1, <3>1, <3>2
  <2>3. CASE d # c
    <3>1. wasMember'[d] = wasMember[d] /\ pc'[d] = pc[d] /\ walker'[d] = walker[d] /\ task' = task
      BY <1>1, <1>2, <2>3
    <3> QED BY <2>1, <3>1 DEF MemberInv, Pending, Tip
  <2> QED BY <2>2, <2>3
<1> QED BY <1>3, <1>4, <1>5, <1>6, <1>7

\* A call goes on that has waited for a walk, its own or another call's.
LEMMA SingResume ==
  ASSUME SingInv, NEW c \in Calls, Resume(c) \/ Pop(c)
  PROVE  SingInv'
<1> USE DEF SingInv
<1>1. /\ UNCHANGED <<spends, peak, seenPeak, record, base, walker, member, task, wasMember, reorgs, errors>>
      /\ \/ /\ pc[c] = "waiting" /\ Finished(walker[c]) /\ slot # None /\ slot' = None
            /\ pc' = [pc EXCEPT ![c] = "popping"] /\ popped' = [popped EXCEPT ![c] = slot]
         \/ /\ pc[c] = "waiting" /\ Finished(walker[c]) /\ ~(walker[c] = c /\ slot # None) /\ slot' = slot
            /\ pc' = [pc EXCEPT ![c] = "judging"] /\ popped' = popped
         \/ /\ pc[c] = "popping" /\ slot' = slot
            /\ pc' = [pc EXCEPT ![c] = "judging"] /\ popped' = popped
  BY DEF Resume, Pop, Goto, chain
<1>2. /\ pc \in [Calls -> {"idle", "reading", "waiting", "popping", "judging", "locking", "storing", "done"}]
      /\ walker \in [Calls -> Calls \cup {None}] /\ popped \in [Calls -> Calls \cup {None}]
      /\ slot \in Calls \cup {None} /\ wasMember \in [Calls -> BOOLEAN] /\ None \notin Calls
  BY SingletonAssumption DEF TypeOK, SingletonAssumption
<1>3. TypeOK'
  <2>1. /\ popped' \in [Calls -> Calls \cup {None}] /\ slot' \in Calls \cup {None}
        /\ pc' \in [Calls -> {"idle", "reading", "waiting", "popping", "judging", "locking", "storing", "done"}]
    BY <1>1, <1>2
  <2> QED BY <1>1, <2>1 DEF TypeOK
<1>4. ChainInv' /\ TipInv'
  BY <1>1, TipStays
<1>5. CallInv'
  <2>1. ASSUME NEW d \in Calls PROVE WalkerOf(d)'
    <3>1. CASE d = c
      BY <1>1, <1>2, <3>1 DEF CallInv, WalkerOf, Finished
    <3>2. CASE d # c
      BY <1>1, <1>2, <3>2 DEF CallInv, WalkerOf, Finished, Tip
    <3> QED BY <3>1, <3>2
  <2>2. \A t, d \in Calls : walker'[d] = t \/ popped'[d] = t => pc'[t] \notin {"idle", "reading"}
    BY <1>1, <1>2 DEF CallInv, SlotInv
  <2> QED BY <2>1, <2>2 DEF CallInv
<1>6. SlotInv'
  BY <1>1, <1>2 DEF SlotInv
<1>7. MemberInv'
  <2>1. \A d \in Calls : Pending(d)' => Pending(d)
    BY <1>1, <1>2 DEF Pending
  <2>2. Assigned(spends)' <=> Assigned(spends)
    BY <1>1 DEF Assigned, StateOf
  <2>3. \A d \in Calls : walker'[d] = walker[d] /\ task' = task /\ wasMember'[d] = wasMember[d] /\ Tip(d)' = Tip(d)
    BY <1>1 DEF Tip
  <2> QED BY <1>1, <2>1, <2>2, <2>3 DEF MemberInv
<1> QED BY <1>3, <1>4, <1>5, <1>6, <1>7

\* A call starts its own walk from the stored tip.  Nobody refers to a walk
\* that it has started before.
LEMMA SingStart ==
  ASSUME SingInv, NEW c \in Calls, StartWalk(c)
  PROVE  SingInv'
<1> USE DEF SingInv
<1> HIDE DEF Kinds
<1> DEFINE start == IF record = None THEN <<>> ELSE record.tip
           k == [state |-> "walking", path |-> start, buried |-> Len(start), peak |-> seenPeak]
<1>1. /\ pc[c] = "reading" /\ pc' = [pc EXCEPT ![c] = "waiting"] /\ slot' = c
      /\ walker' = [walker EXCEPT ![c] = c] /\ task' = [task EXCEPT ![c] = k]
      /\ base' = [base EXCEPT ![c] = record]
      /\ UNCHANGED <<spends, peak, seenPeak, record, popped, member, wasMember, reorgs, errors>>
  BY DEF StartWalk, Walk, Goto, chain
<1>2. /\ pc \in [Calls -> {"idle", "reading", "waiting", "popping", "judging", "locking", "storing", "done"}]
      /\ walker \in [Calls -> Calls \cup {None}] /\ popped \in [Calls -> Calls \cup {None}]
      /\ slot \in Calls \cup {None} /\ None \notin Calls
      /\ task \in [Calls -> Task] /\ base \in [Calls -> Record \cup {None}] /\ record \in Record \cup {None}
  BY SingletonAssumption DEF TypeOK, SingletonAssumption
<1>3. /\ start \in Paths /\ start \in Seq(Kinds) /\ Len(start) \in 0..MaxSpends /\ SubSeq(start, 1, Len(start)) = start
      /\ BuriedPath(start)
  <2>1. CASE record = None
    <3>1. start = <<>> /\ <<>> \in Seq(Kinds) /\ Len(<<>>) = 0 /\ SubSeq(<<>>, 1, 0) = <<>>
      BY <2>1
    <3>2. MaxSpends \in Nat /\ Len(spends) \in Nat
      BY ChainFacts
    <3>3. BuriedPath(<<>>)
      BY <3>1, <3>2 DEF BuriedPath, OnChain
    <3>5. <<>> \in Paths /\ Len(<<>>) \in 0..MaxSpends
      <4>1. 0 \in 0..MaxSpends
        BY <3>2
      <4> QED BY <3>1, <4>1, EmptyPath
    <3>6. SubSeq(start, 1, Len(start)) = start /\ Len(start) \in 0..MaxSpends
      BY <3>1, <3>5
    <3> HIDE DEF start
    <3> QED BY <3>1, <3>3, <3>5, <3>6
  <2>2. CASE record # None
    <3>1. start = record.tip
      BY <2>2
    <3>2. start \in Paths /\ start \in Seq(Kinds) /\ Len(start) \in Nat /\ Len(start) <= MaxSpends /\ MaxSpends \in Nat
      BY <2>2, <3>1, TaskFacts, ChainFacts
    <3>3. BuriedPath(start)
      BY <2>2, <3>1 DEF TipInv
    <3> HIDE DEF start
    <3>4. SubSeq(start, 1, Len(start)) = start
      BY <3>2
    <3>5. Len(start) \in 0..MaxSpends
      BY <3>2
    <3> QED BY <3>2, <3>3, <3>4, <3>5
  <2> QED BY <2>1, <2>2
<1>4. /\ k \in Task /\ k.path = start /\ k.buried = Len(start) /\ k.peak = seenPeak /\ k.state = "walking"
      /\ seenPeak <= peak
  <2>1. seenPeak \in 0..MaxPeak /\ seenPeak <= peak
    BY ChainFacts
  <2> HIDE DEF start
  <2> QED BY <1>3, <2>1 DEF Task
<1> HIDE DEF k
<1>5. TypeOK'
  <2>1. /\ walker' \in [Calls -> Calls \cup {None}] /\ slot' \in Calls \cup {None}
        /\ task' \in [Calls -> Task] /\ base' \in [Calls -> Record \cup {None}]
        /\ pc' \in [Calls -> {"idle", "reading", "waiting", "popping", "judging", "locking", "storing", "done"}]
    BY <1>1, <1>2, <1>4
  <2> QED BY <1>1, <2>1 DEF TypeOK
<1>6. ChainInv' /\ TipInv'
  <2>1. \A t \in Calls : task'[t] = IF t = c THEN k ELSE task[t]
    BY <1>1, <1>2
  <2>2. GoodTask(k)
    <3>1. SubSeq(k.path, 1, k.buried) = start
      BY <1>3, <1>4
    <3>2. k.buried <= Len(k.path)
      <4> HIDE DEF start
      <4> QED BY <1>3, <1>4
    <3> HIDE DEF start
    <3> QED BY <1>3, <1>4, <3>1, <3>2 DEF GoodTask
  <2> HIDE DEF start
  <2>3. ASSUME NEW t \in Calls PROVE GoodTask(task[t])'
    <3>1. GoodTask(task'[t])
      BY <2>1, <2>2 DEF TipInv
    <3> QED BY <1>1, <3>1 DEF GoodTask, BuriedPath, OnChain
  <2> QED BY <1>1, <2>3 DEF ChainInv, TipInv, BuriedPath, OnChain
<1> HIDE DEF start
<1>7. CallInv'
  <2>1. ASSUME NEW d \in Calls PROVE WalkerOf(d)'
    <3>1. CASE d = c
      BY <1>1, <1>2, <3>1 DEF CallInv, WalkerOf
    <3>2. CASE d # c
      <4>1. walker'[d] = walker[d] /\ pc'[d] = pc[d] /\ popped'[d] = popped[d] /\ walker[d] # c
        BY <1>1, <1>2, <3>2 DEF CallInv
      <4>2. walker[d] \in Calls => task'[walker[d]] = task[walker[d]]
        BY <1>1, <1>2, <4>1
      <4> QED BY <1>2, <4>1, <4>2 DEF CallInv, WalkerOf, Finished, Tip
    <3> QED BY <3>1, <3>2
  <2>2. \A t, d \in Calls : walker'[d] = t \/ popped'[d] = t => pc'[t] \notin {"idle", "reading"}
    BY <1>1, <1>2 DEF CallInv
  <2> QED BY <2>1, <2>2 DEF CallInv
<1>8. SlotInv'
  BY <1>1, <1>2 DEF SlotInv
<1>9. MemberInv'
  <2> SUFFICES ASSUME NEW d \in Calls, Pending(d)'
               PROVE  /\ Assigned(spends)' => wasMember'[d]
                      /\ walker'[d] # None /\ task'[walker'[d]].state = "done" /\ StateAfter(Tip(d)') \in Ours => wasMember'[d]
    BY DEF MemberInv, Ours
  <2>1. (Assigned(spends)' <=> Assigned(spends)) /\ wasMember'[d] = wasMember[d] /\ Pending(d)
    BY <1>1, <1>2 DEF Assigned, StateOf, Pending
  <2>2. CASE d = c
    <3>1. task'[walker'[d]].state # "done"
      BY <1>1, <1>2, <1>4, <2>2
    <3> QED BY <2>1, <3>1 DEF MemberInv
  <2>3. CASE d # c
    <3>1. walker'[d] = walker[d] /\ walker[d] # c
      BY <1>1, <1>2, <2>3 DEF CallInv
    <3>2. walker[d] \in Calls => task'[walker[d]] = task[walker[d]]
      BY <1>1, <1>2, <3>1
    <3>3. walker[d] \in Calls \cup {None}
      BY <1>2
    <3> QED BY <2>1, <3>1, <3>2, <3>3 DEF MemberInv, Tip
  <2> QED BY <2>2, <2>3
<1> QED BY <1>5, <1>6, <1>7, <1>8, <1>9

\* A record of a walk in which two fields are replaced.
LEMMA TwoFields ==
  ASSUME NEW w \in Task, NEW p, NEW b
  PROVE  [w EXCEPT !.path = p, !.buried = b] = [state |-> w.state, path |-> p, buried |-> b, peak |-> w.peak]
<1>1. PICK x, y, z, u : w = [state |-> x, path |-> y, buried |-> z, peak |-> u]
  BY DEF Task
<1>2. [w EXCEPT !.path = p] = [state |-> x, path |-> p, buried |-> z, peak |-> u]
  BY <1>1
<1>3. ASSUME NEW v, v = [state |-> x, path |-> p, buried |-> z, peak |-> u]
      PROVE  [v EXCEPT !.buried = b] = [state |-> x, path |-> p, buried |-> b, peak |-> u]
  BY <1>3
<1>4. [[w EXCEPT !.path = p] EXCEPT !.buried = b] = [state |-> x, path |-> p, buried |-> b, peak |-> u]
  BY <1>2, <1>3
<1> QED BY <1>1, <1>4

\* One step of a walk leaves it good, and a walk that is done has arrived at
\* the state of the chain.
LEMMA WalkIs ==
  ASSUME SingInv, NEW c \in Calls, WalkStep(c) \/ WalkFails(c)
  PROVE  \E k \in Task : /\ task' = [task EXCEPT ![c] = k] /\ GoodTask(k)
                         /\ k.state = "done" => StateAfter(k.path) = StateOf(spends)
<1> USE DEF SingInv
<1> HIDE DEF Kinds
<1> DEFINE path == task[c].path
           n == Len(path)
           b == task[c].buried
<1>1. /\ task[c] \in Task /\ path \in Seq(Kinds) /\ path \in Paths /\ n \in Nat /\ n <= MaxSpends
      /\ b \in Nat /\ b <= MaxSpends /\ b <= n /\ task[c].peak \in Nat /\ task[c].peak <= peak
      /\ BuriedPath(SubSeq(path, 1, b)) /\ GoodTask(task[c])
  BY TaskFacts DEF TipInv, GoodTask
<1>2. /\ spends \in Seq(SpendRec) /\ Len(spends) \in Nat /\ Len(spends) <= MaxSpends
      /\ peak \in Nat /\ Threshold \in Nat /\ MaxSpends \in Nat
      /\ \A i \in DOMAIN spends : spends[i].at \in Nat /\ spends[i].to \in Kinds
  BY ChainFacts
<1>3. IsPrefix(path, Path(spends)) <=> n <= Len(spends) /\ \A i \in 1..n : path[i] = spends[i].to
  BY <1>1, <1>2, PrefixIs
<1>4. ASSUME NEW s \in {"done", "failed"}
      PROVE  /\ [task[c] EXCEPT !.state = s] \in Task /\ GoodTask([task[c] EXCEPT !.state = s])
             /\ [task[c] EXCEPT !.state = s].path = path /\ [task[c] EXCEPT !.state = s].state = s
  <2>1. [task[c] EXCEPT !.state = s] = [state |-> s, path |-> path, buried |-> b, peak |-> task[c].peak]
    BY <1>1 DEF Task
  <2> QED BY <1>1, <2>1 DEF Task, GoodTask
<1>5. ASSUME task' = [task EXCEPT ![c] = [task[c] EXCEPT !.state = "failed"]]
      PROVE  \E k \in Task : /\ task' = [task EXCEPT ![c] = k] /\ GoodTask(k)
                             /\ k.state = "done" => StateAfter(k.path) = StateOf(spends)
  BY <1>4, <1>5
<1>6. ASSUME IsPrefix(path, Path(spends)), n + 1 > Len(spends),
             task' = [task EXCEPT ![c] = [task[c] EXCEPT !.state = "done"]]
      PROVE  \E k \in Task : /\ task' = [task EXCEPT ![c] = k] /\ GoodTask(k)
                             /\ k.state = "done" => StateAfter(k.path) = StateOf(spends)
  <2>1. path = Path(spends)
    <3>1. n = Len(spends) /\ \A i \in 1..n : path[i] = spends[i].to
      BY <1>1, <1>2, <1>3, <1>6
    <3>2. path = [i \in 1..n |-> path[i]] /\ DOMAIN spends = 1..n
      BY <1>1, <1>2, <3>1
    <3> HIDE DEF n, path
    <3> QED BY <3>1, <3>2 DEF Path
  <2> QED BY <1>4, <1>6, <2>1 DEF StateOf
<1>7. ASSUME IsPrefix(path, Path(spends)), n + 1 <= Len(spends), task[c].state = "walking",
             task' = [task EXCEPT ![c] = [task[c] EXCEPT !.path = Append(path, spends[n + 1].to),
                                                         !.buried = IF Buried(c, n + 1) THEN n + 1 ELSE @]]
      PROVE  \E k \in Task : /\ task' = [task EXCEPT ![c] = k] /\ GoodTask(k)
                             /\ k.state = "done" => StateAfter(k.path) = StateOf(spends)
  <2> DEFINE long == Append(path, spends[n + 1].to)
             deep == IF Buried(c, n + 1) THEN n + 1 ELSE b
             k == [state |-> "walking", path |-> long, buried |-> deep, peak |-> task[c].peak]
  <2>1. n + 1 \in DOMAIN spends /\ spends[n + 1].to \in Kinds /\ spends[n + 1].at \in Nat
    BY <1>1, <1>2, <1>7
  <2>2. /\ long \in Seq(Kinds) /\ Len(long) = n + 1 /\ long[n + 1] = spends[n + 1].to
        /\ \A i \in 1..n : long[i] = path[i]
    BY <1>1, <2>1
  <2>3. deep \in Nat /\ deep <= n + 1 /\ ((deep = n + 1 /\ task[c].peak - Threshold >= spends[n + 1].at) \/ deep = b)
    <3> HIDE DEF n
    <3> QED BY <1>1 DEF Buried, n
  <2>4. task' = [task EXCEPT ![c] = k]
    <3>1. [task[c] EXCEPT !.path = long, !.buried = IF Buried(c, n + 1) THEN n + 1 ELSE @] = k
      <4>1. task[c] \in Task
        BY <1>1
      <4> DEFINE w == task[c]
                 x == IF Buried(c, n + 1) THEN n + 1 ELSE b
      <4> HIDE DEF long, w, x
      <4>2. [w EXCEPT !.path = long, !.buried = x] = [state |-> w.state, path |-> long, buried |-> x, peak |-> w.peak]
        <5>1. w \in Task
          BY <4>1 DEF w
        <5>2. \A p, y : [w EXCEPT !.path = p, !.buried = y] = [state |-> w.state, path |-> p, buried |-> y, peak |-> w.peak]
          BY <5>1, TwoFields
        <5> QED BY <5>2, Zenon
      <4>3. w.state = "walking" /\ deep = x
        BY <1>7 DEF w, deep, x
      <4> QED BY <4>2, <4>3 DEF w, x
    <3> HIDE DEF k, long
    <3> QED BY <1>7, <3>1 DEF long
  <2> HIDE DEF long, deep
  <2>5. BuriedPath(SubSeq(long, 1, deep))
    <3>1. CASE deep = b
      <4>1. SubSeq(long, 1, b) = SubSeq(path, 1, b)
        <5>1. SubSeq(long, 1, b) \in Seq(Kinds) /\ Len(SubSeq(long, 1, b)) = b /\ \A i \in 1..b : SubSeq(long, 1, b)[i] = long[i]
          BY <1>1, <2>2, TipFacts
        <5>2. SubSeq(path, 1, b) \in Seq(Kinds) /\ Len(SubSeq(path, 1, b)) = b /\ \A i \in 1..b : SubSeq(path, 1, b)[i] = path[i]
          BY <1>1, TipFacts
        <5>3. \A i \in 1..b : long[i] = path[i]
          BY <1>1, <2>2
        <5> HIDE DEF path, b
        <5> QED BY <5>1, <5>2, <5>3
      <4> QED BY <1>1, <3>1, <4>1
    <3>2. CASE deep = n + 1 /\ task[c].peak - Threshold >= spends[n + 1].at
      <4>1. SubSeq(long, 1, n + 1) = long
        BY <1>1, <2>2, TipFacts
      <4>2. OnChain(long)
        <5>1. \A i \in 1..(n + 1) : i \in 1..n \/ i = n + 1
          BY <1>1
        <5>2. \A i \in 1..(n + 1) : long[i] = spends[i].to
          BY <1>3, <1>7, <2>2, <5>1
        <5> QED BY <1>7, <2>2, <5>2 DEF OnChain
      <4>3. spends[n + 1].at <= peak - Threshold
        BY <1>1, <1>2, <2>1, <3>2, SMTT(20)
      <4> QED BY <2>2, <3>2, <4>1, <4>2, <4>3 DEF BuriedPath
    <3> QED BY <2>3, <3>1, <3>2
  <2>6. k \in Task
    <3>1. \A p \in Seq(Kinds) : Len(p) <= MaxSpends => p \in Paths
      BY PathsAre
    <3>2. long \in Paths /\ deep \in 0..MaxSpends
      BY <1>1, <1>2, <1>7, <2>2, <2>3, <3>1
    <3>3. task[c].peak \in 0..MaxPeak
      BY <1>1 DEF Task
    <3> QED BY <3>2, <3>3 DEF Task
  <2>7. GoodTask(k)
    BY <1>1, <2>2, <2>3, <2>5 DEF GoodTask
  <2>8. k.state # "done"
    OBVIOUS
  <2> QED BY <2>4, <2>6, <2>7, <2>8
<1>8. CASE WalkFails(c)
  BY <1>5, <1>8 DEF WalkFails, Walk
<1>9. CASE WalkStep(c)
  <2>1. task[c].state = "walking"
    BY <1>9 DEF WalkStep
  <2>2. CASE ~IsPrefix(path, Path(spends))
    BY <1>5, <1>9, <2>2 DEF WalkStep, Walk
  <2>3. CASE IsPrefix(path, Path(spends)) /\ n + 1 > Len(spends)
    BY <1>6, <1>9, <2>3 DEF WalkStep, Walk
  <2>4. CASE IsPrefix(path, Path(spends)) /\ ~(n + 1 > Len(spends))
    <3>1. n + 1 <= Len(spends)
      BY <1>1, <1>2, <2>4
    <3>2. task' = [task EXCEPT ![c] = [task[c] EXCEPT !.path = Append(path, spends[n + 1].to),
                                                      !.buried = IF Buried(c, n + 1) THEN n + 1 ELSE @]]
      BY <1>9, <2>4 DEF WalkStep, Walk
    <3> QED BY <1>7, <2>1, <2>4, <3>1, <3>2
  <2> QED BY <2>2, <2>3, <2>4
<1> QED BY <1>8, <1>9

\* A walk goes one step.
LEMMA SingWalk ==
  ASSUME SingInv, NEW c \in Calls, WalkStep(c) \/ WalkFails(c)
  PROVE  SingInv'
<1> USE DEF SingInv
<1>1. /\ task[c].state = "walking"
      /\ UNCHANGED <<spends, peak, seenPeak, record, pc, base, walker, popped, member, slot, wasMember, reorgs>>
      /\ errors' = errors \/ (errors < MaxErrors /\ errors' = errors + 1)
  <2>1. CASE WalkStep(c)
    <3>1. UNCHANGED <<chain, seenPeak, record, call, slot, wasMember, errors>> /\ task[c].state = "walking"
      BY <2>1 DEF WalkStep
    <3> QED BY <3>1 DEF chain, call
  <2>2. CASE WalkFails(c)
    BY <2>2 DEF WalkFails, chain, call
  <2> QED BY <2>1, <2>2
<1>2. PICK k \in Task : /\ task' = [task EXCEPT ![c] = k] /\ GoodTask(k)
                        /\ k.state = "done" => StateAfter(k.path) = StateOf(spends)
  BY WalkIs
<1>3. /\ walker \in [Calls -> Calls \cup {None}] /\ task \in [Calls -> Task] /\ None \notin Calls
      /\ task' \in [Calls -> Task] /\ \A t \in Calls : task'[t] = IF t = c THEN k ELSE task[t]
  BY <1>2, SingletonAssumption DEF TypeOK, SingletonAssumption
<1>4. TypeOK'
  <2>1. errors' \in 0..MaxErrors
    BY <1>1, SingletonAssumption DEF TypeOK, SingletonAssumption
  <2> QED BY <1>1, <1>3, <2>1 DEF TypeOK
<1>5. ChainInv' /\ TipInv'
  <2>1. ASSUME NEW t \in Calls PROVE GoodTask(task[t])'
    <3>1. GoodTask(task'[t])
      BY <1>2, <1>3 DEF TipInv
    <3> QED BY <1>1, <3>1 DEF GoodTask, BuriedPath, OnChain
  <2> QED BY <1>1, <2>1 DEF ChainInv, TipInv, BuriedPath, OnChain
<1>6. CallInv'
  <2>1. ASSUME NEW d \in Calls PROVE WalkerOf(d)'
    <3>1. CASE pc[d] \in {"idle", "reading", "done", "waiting"}
      BY <1>1, <3>1 DEF CallInv, WalkerOf
    <3>2. CASE pc[d] \notin {"idle", "reading", "done", "waiting"}
      <4>1. walker[d] \in Calls /\ walker[d] # c
        BY <1>1, <3>2 DEF CallInv, WalkerOf, Finished
      <4>2. task'[walker[d]] = task[walker[d]]
        BY <1>3, <4>1
      <4> QED BY <1>1, <4>1, <4>2 DEF CallInv, WalkerOf, Finished, Tip
    <3> QED BY <3>1, <3>2
  <2> QED BY <1>1, <2>1 DEF CallInv
<1>7. SlotInv'
  BY <1>1 DEF SlotInv
<1>8. MemberInv'
  <2> SUFFICES ASSUME NEW d \in Calls, Pending(d)'
               PROVE  /\ Assigned(spends)' => wasMember'[d]
                      /\ walker'[d] # None /\ task'[walker'[d]].state = "done" /\ StateAfter(Tip(d)') \in Ours => wasMember'[d]
    BY DEF MemberInv, Ours
  <2>1. (Assigned(spends)' <=> Assigned(spends)) /\ wasMember'[d] = wasMember[d] /\ Pending(d) /\ walker'[d] = walker[d]
    BY <1>1 DEF Assigned, StateOf, Pending
  <2>2. CASE walker[d] = c
    <3>1. task'[walker'[d]] = k /\ Tip(d)' = k.path
      BY <1>3, <2>1, <2>2 DEF Tip
    <3>2. (Assigned(spends) <=> StateOf(spends) \in Ours) /\ (Assigned(spends) => wasMember[d])
      BY <2>1 DEF Assigned, Ours, MemberInv
    <3> QED BY <1>2, <2>1, <3>1, <3>2
  <2>3. CASE walker[d] # c
    <3>1. walker[d] # None => task'[walker[d]] = task[walker[d]]
      BY <1>3, <2>3
    <3> QED BY <2>1, <3>1 DEF MemberInv, Tip
  <2> QED BY <2>2, <2>3
<1> QED BY <1>4, <1>5, <1>6, <1>7, <1>8

\* The call goes to its next step with what it knows.
Stays(c) ==
  /\ UNCHANGED <<base, walker, popped, task, wasMember>>
  /\ \/ Goto(c, "storing")
     \/ Goto(c, "locking") /\ task[walker[c]].state = "done" /\ StateAfter(Tip(c)) = "leaving"

\* After its walk a call judges what was found, stores it if there is news,
\* and returns; what it stores is buried, and a member is one.
LEMMA EndsAre ==
  ASSUME SingInv, NEW c \in Calls, Judge(c) \/ JudgeLeaving(c) \/ StoreTip(c)
  PROVE  /\ pc[c] \notin {"idle", "reading", "waiting", "popping", "done"}
         /\ UNCHANGED <<spends, peak, seenPeak, slot, reorgs, errors>>
         /\ Return(c) \/ Stays(c)
         /\ record' \in Record \cup {None} /\ (record' # None => BuriedPath(record'.tip))
         /\ member' \in [Calls -> BOOLEAN] /\ \A d \in Calls : member'[d] /\ ~member[d] => wasMember[d]
<1> USE DEF SingInv
<1> HIDE DEF Kinds
<1>1. pc[c] \in {"judging", "locking", "storing"} /\ UNCHANGED <<spends, peak, seenPeak, slot, reorgs, errors>>
  BY DEF Judge, JudgeLeaving, StoreTip, chain
<1>2. /\ walker[c] \in Calls /\ Finished(walker[c]) /\ None \notin Calls
      /\ (pc[c] = "locking" => task[walker[c]].state = "done" /\ StateAfter(Tip(c)) = "leaving")
  BY <1>1, TaskFacts DEF CallInv, WalkerOf
<1>3. task[walker[c]].state = "done" /\ StateAfter(Tip(c)) \in Ours => wasMember[c]
  BY <1>1, <1>2 DEF MemberInv, Pending
<1>4. Return(c) \/ Stays(c)
  <2>1. CASE Judge(c)
    BY <1>2, <2>1 DEF Judge, Conclude, Stays, Finished
  <2>2. CASE JudgeLeaving(c)
    BY <2>2 DEF JudgeLeaving, Conclude, Stays
  <2>3. CASE StoreTip(c)
    BY <2>3 DEF StoreTip
  <2> QED BY <2>1, <2>2, <2>3
<1>5. record' \in Record \cup {None} /\ (record' # None => BuriedPath(record'.tip))
  <2>1. CASE record' = record
    <3>1. record # None => BuriedPath(record.tip)
      BY DEF TipInv
    <3> QED BY <2>1, <3>1 DEF TypeOK
  <2>2. CASE StoreTip(c) /\ record' = [tip |-> BuriedTip(c), member |-> base[c] = None \/ member[c]]
    <3> DEFINE p == task[walker[c]].path
               n == task[walker[c]].buried
    <3>1. p \in Seq(Kinds) /\ n \in Nat /\ n <= Len(p) /\ n <= MaxSpends /\ BuriedPath(BuriedTip(c)) /\ BuriedTip(c) = SubSeq(p, 1, n)
      BY <1>2, TaskFacts DEF TipInv, GoodTask, BuriedTip, Tip
    <3> HIDE DEF p, n
    <3>2. SubSeq(p, 1, n) \in Seq(Kinds) /\ Len(SubSeq(p, 1, n)) = n
      BY <3>1, TipFacts
    <3>3. \A q \in Seq(Kinds) : Len(q) <= MaxSpends => q \in Paths
      BY PathsAre
    <3>4. BuriedTip(c) \in Paths
      BY <3>1, <3>2, <3>3
    <3>5. record' \in Record /\ record'.tip = BuriedTip(c)
      <4>1. (base[c] = None \/ member[c]) \in BOOLEAN
        BY DEF TypeOK
      <4> QED BY <2>2, <3>4, <4>1 DEF Record
    <3> QED BY <3>1, <3>5
  <2> QED BY <2>1, <2>2 DEF Judge, JudgeLeaving, StoreTip
<1>6. member' \in [Calls -> BOOLEAN] /\ \A d \in Calls : member'[d] /\ ~member[d] => wasMember[d]
  <2>1. member \in [Calls -> BOOLEAN]
    BY DEF TypeOK
  <2>2. CASE member' = member
    BY <2>1, <2>2
  <2>3. CASE \E b \in BOOLEAN : member' = [member EXCEPT ![c] = b] /\ (b => wasMember[c])
    <3>1. PICK b \in BOOLEAN : member' = [member EXCEPT ![c] = b] /\ (b => wasMember[c])
      BY <2>3
    <3> QED BY <2>1, <3>1
  <2>4. CASE Judge(c)
    <3>1. member' = member \/ (task[walker[c]].state # "failed" /\ member' = [member EXCEPT ![c] = StateAfter(Tip(c)) = "farming"])
      BY <2>4 DEF Judge, Conclude
    <3>2. CASE task[walker[c]].state # "failed" /\ member' = [member EXCEPT ![c] = StateAfter(Tip(c)) = "farming"]
      <4>1. StateAfter(Tip(c)) = "farming" => wasMember[c]
        BY <1>2, <1>3, <3>2 DEF Finished, Ours
      <4> QED BY <2>3, <3>2, <4>1
    <3> QED BY <2>2, <3>1, <3>2
  <2>5. CASE JudgeLeaving(c)
    <3>1. wasMember[c]
      BY <1>2, <1>3, <2>5 DEF JudgeLeaving, Ours
    <3>2. member' = [member EXCEPT ![c] = seenPeak - LockedSince(c) <= RelativeLock]
      BY <2>5 DEF JudgeLeaving, Conclude
    <3>3. (seenPeak - LockedSince(c) <= RelativeLock) \in BOOLEAN
      OBVIOUS
    <3> QED BY <2>3, <3>1, <3>2, <3>3
  <2>6. CASE StoreTip(c)
    BY <2>2, <2>6 DEF StoreTip
  <2> QED BY <2>4, <2>5, <2>6
<1> QED BY <1>1, <1>4, <1>5, <1>6

\* A call that has its walk goes on or returns; what others wait for is kept.
LEMMA SingEnd ==
  ASSUME SingInv, NEW c \in Calls, Judge(c) \/ JudgeLeaving(c) \/ StoreTip(c)
  PROVE  SingInv'
<1> USE DEF SingInv
<1>1. /\ pc[c] \notin {"idle", "reading", "waiting", "popping", "done"}
      /\ UNCHANGED <<spends, peak, seenPeak, slot, reorgs, errors>>
      /\ Return(c) \/ Stays(c)
      /\ record' \in Record \cup {None} /\ (record' # None => BuriedPath(record'.tip))
      /\ member' \in [Calls -> BOOLEAN]
  BY EndsAre
<1>2. /\ pc \in [Calls -> {"idle", "reading", "waiting", "popping", "judging", "locking", "storing", "done"}]
      /\ walker \in [Calls -> Calls \cup {None}] /\ popped \in [Calls -> Calls \cup {None}]
      /\ wasMember \in [Calls -> BOOLEAN] /\ base \in [Calls -> Record \cup {None}]
      /\ slot \in Calls \cup {None} /\ None \notin Calls /\ task \in [Calls -> Task]
  BY SingletonAssumption DEF TypeOK, SingletonAssumption
<1>3. NoTask \in Task /\ GoodTask(NoTask) /\ NoTask.state = "none"
  <2>1. <<>> \in Seq(Kinds) /\ Len(<<>>) = 0 /\ SubSeq(<<>>, 1, 0) = <<>>
    OBVIOUS
  <2>2. MaxSpends \in Nat /\ MaxPeak \in Nat /\ Len(spends) \in Nat /\ peak \in Nat
    BY ChainFacts
  <2>3. <<>> \in Paths
    BY EmptyPath
  <2>4. BuriedPath(<<>>)
    BY <2>1, <2>2 DEF BuriedPath, OnChain
  <2>5. NoTask.path = <<>> /\ NoTask.buried = 0 /\ NoTask.peak = 0 /\ NoTask.state = "none"
    BY DEF NoTask
  <2>6. NoTask \in Task
    BY <2>2, <2>3 DEF NoTask, Task
  <2> HIDE DEF NoTask
  <2>7. BuriedPath(SubSeq(NoTask.path, 1, NoTask.buried))
    BY <2>1, <2>4, <2>5
  <2> QED BY <2>1, <2>2, <2>5, <2>6, <2>7 DEF GoodTask
<1>4. /\ task' \in [Calls -> Task] /\ \A t \in Calls : task'[t] = task[t] \/ task'[t] = NoTask
      /\ \A d \in Calls : d # c =>
           /\ pc'[d] = pc[d] /\ walker'[d] = walker[d] /\ popped'[d] = popped[d] /\ wasMember'[d] = wasMember[d]
           /\ walker[d] \in Calls => task'[walker[d]] = task[walker[d]]
      /\ \/ /\ pc'[c] = "done" /\ walker'[c] = None /\ popped'[c] = None
         \/ /\ pc'[c] \in {"locking", "storing"} /\ walker'[c] = walker[c] /\ popped'[c] = popped[c]
            /\ task' = task /\ wasMember' = wasMember
            /\ pc'[c] = "locking" => task[walker[c]].state = "done" /\ StateAfter(Tip(c)) = "leaving"
      /\ pc' \in [Calls -> {"idle", "reading", "waiting", "popping", "judging", "locking", "storing", "done"}]
      /\ walker' \in [Calls -> Calls \cup {None}] /\ popped' \in [Calls -> Calls \cup {None}]
      /\ wasMember' \in [Calls -> BOOLEAN] /\ base' \in [Calls -> Record \cup {None}]
  <2> HIDE DEF NoTask
  <2>1. CASE Return(c)
    <3>1. /\ pc' = [pc EXCEPT ![c] = "done"] /\ walker' = [walker EXCEPT ![c] = None]
          /\ popped' = [popped EXCEPT ![c] = None] /\ wasMember' = [wasMember EXCEPT ![c] = FALSE]
          /\ base' = [base EXCEPT ![c] = None]
          /\ task' = [t \in Calls |->
               IF t # slot /\ \A d \in Calls \ {c} : t \notin {walker[d], popped[d]} THEN NoTask ELSE task[t]]
      BY <2>1 DEF Return, Goto
    <3>2. task' \in [Calls -> Task] /\ \A t \in Calls : task'[t] = task[t] \/ task'[t] = NoTask
      BY <1>2, <1>3, <3>1
    <3>3. \A d \in Calls : d # c /\ walker[d] \in Calls => task'[walker[d]] = task[walker[d]]
      BY <3>1
    <3> QED BY <1>2, <3>1, <3>2, <3>3
  <2>2. CASE Stays(c)
    BY <1>2, <2>2 DEF Stays, Goto
  <2> QED BY <1>1, <2>1, <2>2
<1>5. TypeOK'
  BY <1>1, <1>2, <1>4 DEF TypeOK
<1>6. ChainInv' /\ TipInv'
  <2>1. ASSUME NEW t \in Calls PROVE GoodTask(task[t])'
    <3>1. GoodTask(task'[t])
      BY <1>3, <1>4 DEF TipInv
    <3> QED BY <1>1, <3>1 DEF GoodTask, BuriedPath, OnChain
  <2>2. record' # None => BuriedPath(record.tip)'
    BY <1>1 DEF BuriedPath, OnChain
  <2> QED BY <1>1, <2>1, <2>2 DEF ChainInv, TipInv
<1>7. CallInv'
  <2>1. ASSUME NEW d \in Calls PROVE WalkerOf(d)'
    <3>1. CASE d = c
      <4>1. WalkerOf(c) /\ walker[c] \in Calls /\ Finished(walker[c])
        BY <1>1 DEF CallInv, WalkerOf
      <4> QED BY <1>2, <1>4, <3>1, <4>1 DEF WalkerOf, Finished, Tip
    <3>2. CASE d # c
      <4>1. WalkerOf(d) /\ pc'[d] = pc[d] /\ walker'[d] = walker[d] /\ popped'[d] = popped[d]
        BY <1>4, <3>2 DEF CallInv
      <4>2. walker[d] \in Calls => task'[walker[d]] = task[walker[d]]
        BY <1>4, <3>2
      <4> QED BY <1>2, <4>1, <4>2 DEF WalkerOf, Finished, Tip
    <3> QED BY <3>1, <3>2
  <2>2. \A t \in Calls : pc'[t] \in {"idle", "reading"} => pc[t] \in {"idle", "reading"}
    BY <1>4
  <2>3. \A t, d \in Calls : walker'[d] = t \/ popped'[d] = t => walker[d] = t \/ popped[d] = t
    BY <1>2, <1>4
  <2> QED BY <2>1, <2>2, <2>3 DEF CallInv
<1>8. SlotInv'
  BY <1>1, <1>2, <1>4 DEF SlotInv
<1>9. MemberInv'
  <2> SUFFICES ASSUME NEW d \in Calls, Pending(d)'
               PROVE  /\ Assigned(spends)' => wasMember'[d]
                      /\ walker'[d] # None /\ task'[walker'[d]].state = "done" /\ StateAfter(Tip(d)') \in Ours => wasMember'[d]
    BY DEF MemberInv, Ours
  <2>1. Assigned(spends)' <=> Assigned(spends)
    BY <1>1 DEF Assigned, StateOf
  <2>2. /\ Pending(d) /\ walker'[d] = walker[d] /\ wasMember'[d] = wasMember[d]
        /\ walker[d] \in Calls => task'[walker[d]] = task[walker[d]]
    BY <1>1, <1>4 DEF Pending
  <2> QED BY <1>2, <2>1, <2>2 DEF MemberInv, Tip
<1> QED BY <1>5, <1>6, <1>7, <1>8, <1>9

\* Every step keeps the invariant.
LEMMA NextSing ==
  ASSUME SingInv, [Next]_vars
  PROVE  SingInv'
<1>1. ASSUME NEW c \in Calls, Call(c) \/ CallStep(c) \/ WalkStep(c) \/ WalkFails(c) PROVE SingInv'
  <2>1. CASE Call(c)
    BY <2>1, SingCall
  <2>2. CASE StartWalk(c)
    BY <2>2, SingStart
  <2>3. CASE Resume(c) \/ Pop(c)
    BY <2>3, SingResume
  <2>4. CASE Judge(c) \/ JudgeLeaving(c) \/ StoreTip(c)
    BY <2>4, SingEnd
  <2>5. CASE WalkStep(c) \/ WalkFails(c)
    BY <2>5, SingWalk
  <2> QED BY <1>1, <2>1, <2>2, <2>3, <2>4, <2>5 DEF CallStep
<1>2. CASE Block \/ Reorg
  BY <1>2, SingChain
<1>3. CASE GetPeak
  BY <1>3, SingPeak
<1>4. CASE UNCHANGED vars
  <2>1. /\ UNCHANGED <<spends, peak, seenPeak, record, pc, base, walker, popped, member, slot, task, wasMember>>
        /\ UNCHANGED <<reorgs, errors>>
    BY <1>4 DEF vars, chain, call
  <2>2. TypeOK'
    BY <2>1 DEF SingInv, TypeOK
  <2>3. ChainInv' /\ TipInv'
    BY <2>1, TipStays
  <2>4. CallInv' /\ SlotInv' /\ MemberInv'
    BY <2>1 DEF SingInv, CallInv, WalkerOf, Finished, Tip, SlotInv, MemberInv, Pending, Assigned, StateOf
  <2> QED BY <2>2, <2>3, <2>4 DEF SingInv
<1> QED BY <1>1, <1>2, <1>3, <1>4 DEF Next

------------------------------------------------------------------------------
(* The theorems.                                                           *)

\* What is stored and walked is on the chain, and calls refer to their walks.
THEOREM SingletonInvariance == Spec => []SingInv
BY InitSing, NextSing, PTL DEF Spec

\* Record, walks and calls have their types: a path never outgrows the chain.
THEOREM SingletonTypeCorrect == Spec => []TypeOK
<1>1. SingInv => TypeOK
  BY DEF SingInv
<1> QED BY <1>1, SingletonInvariance, PTL

\* update_singleton never stores a tip that a reorg of any allowed depth takes
\* off the chain (line 125 of singleton.py).
THEOREM TipAlwaysOnChain == Spec => []StoredTipOnChain
<1>1. ASSUME SingInv PROVE StoredTipOnChain
  <2> SUFFICES ASSUME record # None PROVE IsPrefix(record.tip, Path(spends))
    BY DEF StoredTipOnChain
  <2>1. spends \in Seq(SpendRec) /\ record.tip \in Seq(Kinds)
    BY <1>1, ChainFacts, TaskFacts DEF SingInv
  <2>2. OnChain(record.tip)
    BY <1>1 DEF SingInv, TipInv, BuriedPath
  <2> QED BY <2>1, <2>2, PrefixIs DEF OnChain
<1> QED BY <1>1, SingletonInvariance, PTL

\* Whatever the calls that overlap, when all have returned the dictionary of
\* walks is empty (lines 795-800).
THEOREM NoWalkEverLeftBehind == Spec => []NoWalkLeftBehind
<1>1. ASSUME SingInv PROVE NoWalkLeftBehind
  BY <1>1 DEF SingInv, TypeOK, SlotInv, NoWalkLeftBehind
<1> QED BY <1>1, SingletonInvariance, PTL

\* A call that finds a member tells the truth about a moment during the call
\* (lines 779-798).
THEOREM MembersAlwaysWere == Spec => MemberDuringCall
<1>1. ASSUME SingInv, [Next]_vars, NEW c \in Calls, member'[c], ~member[c] PROVE wasMember[c]
  <2>1. CASE \E d \in Calls : Judge(d) \/ JudgeLeaving(d) \/ StoreTip(d)
    <3>1. PICK d \in Calls : Judge(d) \/ JudgeLeaving(d) \/ StoreTip(d)
      BY <2>1
    <3> QED BY <1>1, <3>1, EndsAre
  <2>2. CASE member' = member
    BY <1>1, <2>2
  <2>3. member' = member \/ \E d \in Calls : Judge(d) \/ JudgeLeaving(d) \/ StoreTip(d)
    BY <1>1 DEF Next, vars, CallStep, Call, StartWalk, Resume, Pop, WalkStep, WalkFails, Block, Reorg, GetPeak, call
  <2> QED BY <2>1, <2>2, <2>3
<1>2. SingInv /\ [Next]_vars => [\A c \in Calls : member'[c] /\ ~member[c] => wasMember[c]]_vars
  BY <1>1
<1> QED BY <1>2, SingletonInvariance, PTL DEF Spec, MemberDuringCall
==============================================================================
