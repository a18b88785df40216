---------------------------- MODULE PaymentsProofs ----------------------------
(***************************************************************************)
(* For any number of credits, farmers, payments and failures: the payout   *)
(* keeps the promises of the ledger, its plans add up, no credit is lost   *)
(* or paid twice unless its points were kept, and what is promised is      *)
(* covered by the pool's coins.                                            *)
(***************************************************************************)
EXTENDS Payments, SumsProofs

\* Every credit in the books was earned; while the points are being cleared the
\* store's lock keeps them at what was put on the queue.
LedgerInv ==
  /\ earned \subseteq Credits
  /\ unpaid \subseteq earned /\ billed \subseteq earned
  /\ cpc = "clearing" => unpaid \subseteq billed

\* Nothing has been earned.
LEMMA InitLedger == Init => LedgerInv /\ Ledger!Init
  BY DEF Init, LedgerInv, Ledger!Init

\* What most steps do: the books stay as they are, and nothing is cleared.
LEMMA LedgerFrame ==
  ASSUME LedgerInv, UNCHANGED <<earned, unpaid, billed>>, cpc' = cpc \/ cpc' # "clearing"
  PROVE  LedgerInv' /\ UNCHANGED Ledger!ledgerVars
  BY DEF LedgerInv, Ledger!ledgerVars

\* A credit is added under the lock, to points that are not being cleared.
LEMMA EarnLedger ==
  ASSUME LedgerInv, NEW c \in Credits, EarnCredit(c)
  PROVE  LedgerInv' /\ Ledger!Next
<1>1. LedgerInv'
  BY DEF LedgerInv, EarnCredit, LockFree, creator, history
<1>2. \A d \in unpaid \cup (billed \ unpaid) : d \in Credits /\ d # c
  BY DEF LedgerInv, EarnCredit
<1>3. billed' \ unpaid' = billed \ unpaid
  <2>1. c \notin billed
    BY DEF LedgerInv, EarnCredit
  <2> QED
    BY <2>1 DEF EarnCredit, history
<1>4. Ledger!Earn(c)
  BY <1>2, <1>3 DEF Ledger!Earn, EarnCredit
<1> QED
  BY <1>1, <1>4 DEF Ledger!Next

\* A payout bills exactly what is unpaid.
LEMMA PutLedger ==
  ASSUME LedgerInv, PutPayments
  PROVE  LedgerInv' /\ UNCHANGED Ledger!ledgerVars
<1>1. CASE unpaid = {} \/ ~readable
  <2>1. UNCHANGED <<earned, unpaid, billed>> /\ cpc' # "clearing"
    BY <1>1 DEF PutPayments, history
  <2> QED
    BY <2>1, LedgerFrame
<1>2. CASE unpaid # {} /\ readable
  <2>1. billed' = billed \cup unpaid /\ UNCHANGED <<earned, unpaid>>
    BY <1>2 DEF PutPayments
  <2>2. billed' \ unpaid' = billed \ unpaid
    BY <2>1
  <2> QED
    BY <2>1, <2>2 DEF LedgerInv, Ledger!ledgerVars
<1> QED
  BY <1>1, <1>2

\* Clearing settles what was billed, and nothing else.
LEMMA ClearLedger ==
  ASSUME LedgerInv, ClearPoints
  PROVE  LedgerInv' /\ Ledger!Next
<1>1. unpaid' = {} /\ UNCHANGED <<earned, billed>> /\ cpc' # "clearing" /\ unpaid \subseteq billed
  BY DEF ClearPoints, LedgerInv, history
<1>2. billed' \ unpaid' = (billed \ unpaid) \cup unpaid
  BY <1>1
<1>3. Ledger!Settle
  BY <1>1, <1>2 DEF Ledger!Settle
<1> QED
  BY <1>1, <1>3 DEF LedgerInv, Ledger!Next

\* Every step keeps the invariant and is a step of the ledger, or none.
LEMMA NextLedger ==
  LedgerInv /\ [Next]_vars => LedgerInv' /\ [Ledger!Next]_Ledger!ledgerVars
<1> SUFFICES ASSUME LedgerInv, [Next]_vars
             PROVE  LedgerInv' /\ [Ledger!Next]_Ledger!ledgerVars
  OBVIOUS
<1> USE DEF creator, submitter, sync, chain, history
<1>1. ASSUME NEW c \in Credits, EarnCredit(c) PROVE LedgerInv' /\ Ledger!Next
  BY <1>1, EarnLedger
<1>2. CASE PutPayments
  BY <1>2, PutLedger
<1>3. CASE ClearPoints
  BY <1>3, ClearLedger
<1>4. CASE CheckQueue \/ GetCoins \/ TakeLock
  <2>1. UNCHANGED <<earned, unpaid, billed>> /\ cpc' # "clearing"
    BY <1>4 DEF CheckQueue, GetCoins, TakeLock
  <2> QED
    BY <2>1, LedgerFrame
<1>5. CASE Submit
  <2>1. UNCHANGED <<earned, unpaid, billed, cpc>>
    BY <1>5 DEF Submit, CheckSync, GetPayment, SendPayment, SendRefused, Requeue, PaymentBuried
  <2> QED
    BY <2>1, LedgerFrame
<1>6. CASE Failure
  <2>1. UNCHANGED <<earned, unpaid, billed>> /\ (cpc' = cpc \/ cpc' # "clearing")
    BY <1>6 DEF Failure, SendLost, PollFails, ClearFails, Crash, UnreadableInstructions,
              LosesSync, RewardsReorged
  <2> QED
    BY <2>1, LedgerFrame
<1>7. CASE Chain
  <2>1. UNCHANGED <<earned, unpaid, billed, cpc>>
    BY <1>7 DEF Chain, RegainsSync, RewardArrives, RewardsBuried, TxConfirmed, TxReorged, TxBuried
  <2> QED
    BY <2>1, LedgerFrame
<1>8. CASE UNCHANGED vars
  <2>1. UNCHANGED <<earned, unpaid, billed, cpc>>
    BY <1>8 DEF vars
  <2> QED
    BY <2>1, LedgerFrame
<1> QED
  BY <1>1, <1>2, <1>3, <1>4, <1>5, <1>6, <1>7, <1>8 DEF Next, Create

\* Whatever the wallet, the chain and the process do, the points of the store
\* implement the ledger: a credit is counted once and leaves the store only as
\* part of what was billed (create_payment_loop).
THEOREM PayoutImplementsLedger == Spec => LedgerSpec
<1>1. Init => LedgerInv /\ Ledger!Init
  BY InitLedger
<1>2. LedgerInv /\ [Next]_vars => LedgerInv' /\ [Ledger!Next]_Ledger!ledgerVars
  BY NextLedger
<1> QED
  BY <1>1, <1>2, PTL DEF Spec, LedgerSpec, Ledger!Spec

------------------------------------------------------------------------------
(* Amounts and credits of payments.                                        *)

\* What each payment of a list comes to, and what each transaction still takes
\* from the funds.
AmountsOf(payments) == [p \in DOMAIN payments |-> Amount(payments[p])]
InFlight(ts) == [i \in DOMAIN ts |-> InMempool(ts[i])]

\* Transactions, and the credits that a list of them pays.
Tx == [targets : Payment, state : {"mempool", "confirmed", "buried"}]
CreditsPaid(ts) == UNION {CreditsIn(ts[i].targets) : i \in DOMAIN ts}

\* A payment comes to a number of mojos.
LEMMA AmountType ==
  ASSUME NEW targets \in Payment
  PROVE  Amounts(targets) \in Seq(Nat) /\ Amount(targets) \in Nat
<1>1. Amounts(targets) \in Seq(Nat)
  <2>1. targets \in Seq(Target)
    BY DEF Payment
  <2>2. \A i \in DOMAIN targets : targets[i] \in Target
    BY <2>1
  <2>3. \A i \in DOMAIN targets : targets[i].amount \in Nat
    BY <2>2 DEF Target
  <2> QED BY <2>1, <2>3 DEF Amounts
<1> QED BY <1>1, SumType DEF Amount

\* Payments that are put on a list or taken from it count for what they come to.
LEMMA OwedType ==
  ASSUME NEW ps \in Seq(Payment)
  PROVE  AmountsOf(ps) \in Seq(Nat) /\ Owed(ps) \in Nat /\ Owed(ps) = Sum(AmountsOf(ps))
<1>1. AmountsOf(ps) \in Seq(Nat)
  BY AmountType DEF AmountsOf
<1> QED BY <1>1, SumType DEF Owed, AmountsOf

\* An empty queue owes nothing.
LEMMA OwedEmpty == Owed(<<>>) = 0
<1>1. AmountsOf(<<>>) = <<>>
  BY DEF AmountsOf
<1> QED BY <1>1, SumEmpty DEF Owed, AmountsOf

\* Two lists together owe what each of them owes (payments that go to the queue).
LEMMA OwedConcat ==
  ASSUME NEW ps \in Seq(Payment), NEW qs \in Seq(Payment)
  PROVE  Owed(ps \o qs) = Owed(ps) + Owed(qs)
<1>1. AmountsOf(ps \o qs) = AmountsOf(ps) \o AmountsOf(qs)
  BY DEF AmountsOf
<1>2. ps \o qs \in Seq(Payment)
  OBVIOUS
<1> QED BY <1>1, <1>2, OwedType, SumConcat

\* A payment that is added to a list adds what it comes to.
LEMMA OwedAppend ==
  ASSUME NEW ps \in Seq(Payment), NEW p \in Payment
  PROVE  Owed(Append(ps, p)) = Owed(ps) + Amount(p)
<1>1. AmountsOf(Append(ps, p)) = Append(AmountsOf(ps), Amount(p))
  BY DEF AmountsOf
<1>2. Append(ps, p) \in Seq(Payment)
  OBVIOUS
<1> QED BY <1>1, <1>2, OwedType, AmountType, SumAppend

\* A list owes what its first payment comes to and what the others do.
LEMMA OwedTail ==
  ASSUME NEW ps \in Seq(Payment), ps # <<>>
  PROVE  Owed(ps) = Amount(Head(ps)) + Owed(Tail(ps))
<1>1. AmountsOf(Tail(ps)) = Tail(AmountsOf(ps)) /\ Head(AmountsOf(ps)) = Amount(Head(ps)) /\ AmountsOf(ps) # <<>>
  BY DEF AmountsOf
<1>2. Tail(ps) \in Seq(Payment)
  OBVIOUS
<1> QED BY <1>1, <1>2, OwedType, SumTail

\* The transactions in the mempool, when one is added or changes its state.
LEMMA InFlightType ==
  ASSUME NEW ts \in Seq(Tx)
  PROVE  InFlight(ts) \in Seq(Nat) /\ Sum(InFlight(ts)) \in Nat
<1>1. ASSUME NEW i \in DOMAIN ts PROVE InMempool(ts[i]) \in Nat
  <2>1. ts[i] \in Tx
    OBVIOUS
  <2>2. Amount(ts[i].targets) \in Nat
    BY <2>1, AmountType DEF Tx
  <2> QED BY <2>2 DEF InMempool
<1>2. InFlight(ts) \in Seq(Nat)
  BY <1>1 DEF InFlight
<1> QED BY <1>2, SumType

\* A transaction that is sent adds what it still takes from the funds.
LEMMA InFlightAppend ==
  ASSUME NEW ts \in Seq(Tx), NEW t \in Tx
  PROVE  Sum(InFlight(Append(ts, t))) = Sum(InFlight(ts)) + InMempool(t)
<1>1. InFlight(Append(ts, t)) = Append(InFlight(ts), InMempool(t))
  BY DEF InFlight
<1>2. InMempool(t) \in Nat
  BY AmountType DEF InMempool, Tx
<1> QED BY <1>1, <1>2, InFlightType, SumAppend

\* us is ts, with the transaction i in state s.
Moved(us, ts, i, s) == us = [ts EXCEPT ![i].state = s]

\* A transaction that changes its state changes the sum by what it took and takes.
LEMMA InFlightChange ==
  ASSUME NEW ts \in Seq(Tx), NEW i \in DOMAIN ts, NEW s \in {"mempool", "confirmed", "buried"},
         NEW us, Moved(us, ts, i, s)
  PROVE  /\ us \in Seq(Tx) /\ DOMAIN us = DOMAIN ts /\ Len(us) = Len(ts)
         /\ \A j \in DOMAIN ts : us[j].targets = ts[j].targets /\ (j # i => us[j] = ts[j])
         /\ us[i].state = s
         /\ Sum(InFlight(us)) + InMempool(ts[i]) = Sum(InFlight(ts)) + InMempool(us[i])
         /\ InMempool(ts[i]) <= Sum(InFlight(ts))
<1>1. ts[i] \in Tx /\ [ts[i] EXCEPT !.state = s] \in Tx
  <2>1. ts[i] \in Tx
    OBVIOUS
  <2> QED BY <2>1 DEF Tx
<1>2. us \in Seq(Tx) /\ DOMAIN us = DOMAIN ts /\ Len(us) = Len(ts)
  BY <1>1 DEF Moved
<1>3. \A j \in DOMAIN ts : (j # i => us[j] = ts[j]) /\ us[i] = [ts[i] EXCEPT !.state = s]
  BY DEF Moved
<1>4. us[i].state = s /\ us[i].targets = ts[i].targets
  BY <1>1, <1>3 DEF Tx
<1>5. \A j \in DOMAIN ts : us[j].targets = ts[j].targets
  BY <1>3, <1>4
<1>6. /\ InFlight(ts) \in Seq(Nat) /\ InFlight(us) \in Seq(Nat)
      /\ Len(InFlight(us)) = Len(InFlight(ts)) /\ i \in 1..Len(InFlight(ts))
      /\ InFlight(ts)[i] = InMempool(ts[i]) /\ InFlight(us)[i] = InMempool(us[i])
      /\ \A j \in 1..Len(InFlight(ts)) : j # i => InFlight(us)[j] = InFlight(ts)[j]
  <2>1. InFlight(ts) \in Seq(Nat) /\ InFlight(us) \in Seq(Nat)
    BY <1>2, InFlightType
  <2>2. DOMAIN InFlight(ts) = DOMAIN ts /\ DOMAIN InFlight(us) = DOMAIN ts
    BY <1>2 DEF InFlight
  <2>3. Len(InFlight(us)) = Len(InFlight(ts)) /\ DOMAIN ts = 1..Len(InFlight(ts))
    BY <2>1, <2>2
  <2>4. \A j \in DOMAIN ts : InFlight(ts)[j] = InMempool(ts[j]) /\ InFlight(us)[j] = InMempool(us[j])
    BY <1>2 DEF InFlight
  <2> QED BY <2>1, <2>3, <2>4, <1>3
<1>7. /\ Sum(InFlight(us)) + InMempool(ts[i]) = Sum(InFlight(ts)) + InMempool(us[i])
      /\ InMempool(ts[i]) <= Sum(InFlight(ts))
  BY <1>6, SumExcept
<1> QED BY <1>2, <1>3, <1>4, <1>5, <1>7

------------------------------------------------------------------------------
(* The plan.                                                               *)

\* Every address has a first row.
LEMMA FirstRowIs ==
  ASSUME unpaid \subseteq Credits, NEW a \in Addresses
  PROVE  FirstRow(a) \in DOMAIN FarmerRows /\ IsFirstRow(FirstRow(a), a) /\ FirstRow(a) \in Nat
<1>1. PICK c \in unpaid : a = PayTo[Owner[c]]
  BY DEF Addresses
<1>2. PICK j \in DOMAIN FarmerRows : FarmerRows[j] = Owner[c]
  BY <1>1, PaymentsAssumption DEF PaymentsAssumption, ToSet
<1>3. DOMAIN FarmerRows \subseteq Nat
  BY PaymentsAssumption DEF PaymentsAssumption
<1> DEFINE T == {i \in DOMAIN FarmerRows : PayTo[FarmerRows[i]] = a}
<1>4. T \subseteq Nat /\ T # {}
  BY <1>1, <1>2, <1>3
<1>5. PICK i \in T : \A k \in T : i <= k
  BY <1>4, Least
<1>6. i \in DOMAIN FarmerRows /\ IsFirstRow(i, a)
  BY <1>5 DEF IsFirstRow
<1> QED BY <1>3, <1>6 DEF FirstRow

\* Every address with points is in the order once.
LEMMA AddressOrderIs ==
  ASSUME unpaid \subseteq Credits, IsFiniteSet(unpaid)
  PROVE  /\ Cardinality(Addresses) \in Nat
         /\ AddressOrder \in [1..Cardinality(Addresses) -> Addresses]
         /\ \A a \in Addresses : \E k \in DOMAIN AddressOrder : AddressOrder[k] = a
         /\ \A j, k \in DOMAIN AddressOrder : j # k => AddressOrder[j] # AddressOrder[k]
<1>1. IsFiniteSet(Addresses)
  <2> DEFINE f == [c \in unpaid |-> PayTo[Owner[c]]]
  <2>1. f \in Surjection(unpaid, Addresses)
    BY DEF Surjection, Addresses
  <2> HIDE DEF f
  <2> QED BY <2>1, FS_Surjection
<1> DEFINE n == Cardinality(Addresses)
           rank == [a \in Addresses |-> FirstRow(a)]
<1>2. n \in Nat
  BY <1>1, FS_CardinalityType
<1>3. /\ \A a \in Addresses : rank[a] \in Nat
      /\ \A a, b \in Addresses : rank[a] = rank[b] => a = b
  BY FirstRowIs DEF IsFirstRow
<1> HIDE DEF rank
<1>4. PICK o : Arranges(o, Addresses, rank)
  BY <1>1, <1>3, SortedExists
<1> DEFINE InOrder(order) ==
             /\ \A a \in Addresses : \E k \in DOMAIN order : order[k] = a
             /\ \A j, k \in DOMAIN order : j < k => FirstRow(order[j]) < FirstRow(order[k])
<1>5. o \in [1..n -> Addresses] /\ InOrder(o)
  BY <1>4 DEF Arranges, rank
<1>6. AddressOrder \in [1..n -> Addresses] /\ InOrder(AddressOrder)
  BY <1>5 DEF AddressOrder
<1>7. ASSUME NEW j \in DOMAIN AddressOrder, NEW k \in DOMAIN AddressOrder, j # k
      PROVE  AddressOrder[j] # AddressOrder[k]
  <2>1. \A i \in DOMAIN AddressOrder : i \in Nat /\ FirstRow(AddressOrder[i]) \in Nat
    BY <1>2, <1>6, FirstRowIs
  <2>2. j < k \/ k < j
    BY <2>1, <1>7
  <2> QED BY <2>1, <2>2, <1>6
<1> QED BY <1>2, <1>6, <1>7

\* Points of finitely many credits; some credits have some points.
LEMMA PointsType ==
  ASSUME NEW S, S \subseteq Credits, IsFiniteSet(S)
  PROVE  Points(S) \in Nat /\ (S # {} => Points(S) > 0) /\ (S = {} => Points(S) = 0)
<1>1. Weight \in [Credits -> Nat \ {0}]
  BY PaymentsAssumption DEF PaymentsAssumption
<1>2. \A c \in S : Weight[c] \in Nat /\ Weight[c] > 0
  BY <1>1
<1>3. Points(S) \in Nat /\ (S = {} => Points(S) = 0)
  BY <1>2, SumOverType DEF Points
<1>4. ASSUME NEW c \in S PROVE Points(S) > 0
  <2>1. IsFiniteSet(S \ {c})
    BY FS_Subset
  <2>2. SumOver(Weight, S \ {c}) \in Nat /\ SumOver(Weight, S) = Weight[c] + SumOver(Weight, S \ {c})
    BY <2>1, <1>2, SumOverType, SumOverRemove
  <2> QED BY <2>2, <1>2 DEF Points
<1> QED BY <1>3, <1>4

\* What is kept as a fee and what is paid per point are parts of the total.
LEMMA PlanAmounts ==
  ASSUME unpaid \subseteq Credits, IsFiniteSet(unpaid), unpaid # {}, NEW total \in Nat
  PROVE  /\ PoolFee(total) \in Target /\ MojoPerPoint(total) \in Nat
         /\ PoolFee(total).amount + Points(unpaid) * MojoPerPoint(total) <= total
<1> DEFINE fee == (total * PoolFeePercent) \div 100
           points == Points(unpaid)
           mojo == (total - fee) \div points
<1>1. PoolFeePercent \in 0..99
  BY PaymentsAssumption DEF PaymentsAssumption
<1>2. points \in Nat /\ points > 0
  BY PointsType
<1>3. fee \in Nat /\ fee <= total
  <2>1. total * PoolFeePercent \in Nat /\ total * PoolFeePercent <= total * 100
    BY <1>1
  <2> QED BY <2>1
<1> HIDE DEF fee, points
<1>4. mojo \in Nat /\ points * mojo <= total - fee
  <2> DEFINE x == total - fee
  <2>1. x \in Nat
    BY <1>3
  <2> HIDE DEF x
  <2>2. (x \div points) \in Nat /\ points * (x \div points) <= x
    BY <2>1, <1>2
  <2> QED BY <2>2 DEF x
<1> HIDE DEF mojo
<1>5. fee + points * mojo <= total
  <2>1. points * mojo \in Nat
    BY <1>2, <1>4
  <2> QED BY <2>1, <1>3, <1>4
<1> QED BY <1>3, <1>4, <1>5 DEF PoolFee, Target, MojoPerPoint, fee, points, mojo

\* The credits of one address after the other are the unpaid credits, each once.
Mine(k) == CreditsTo(AddressOrder[k], unpaid)

\* Every unpaid credit belongs to one place in the order of the addresses.
LEMMA MineIs ==
  ASSUME unpaid \subseteq Credits, IsFiniteSet(unpaid)
  PROVE  /\ \A k \in DOMAIN AddressOrder : Mine(k) \subseteq unpaid /\ IsFiniteSet(Mine(k))
         /\ \A j, k \in DOMAIN AddressOrder : j # k => Mine(j) \cap Mine(k) = {}
         /\ \A c \in unpaid : \E k \in DOMAIN AddressOrder : c \in Mine(k)
<1>1. \A k : Mine(k) \subseteq unpaid
  BY DEF Mine, CreditsTo
<1>2. \A k : IsFiniteSet(Mine(k))
  BY <1>1, FS_Subset
<1>3. \A j, k \in DOMAIN AddressOrder : j # k => AddressOrder[j] # AddressOrder[k]
  BY AddressOrderIs
<1>4. ASSUME NEW c \in unpaid PROVE \E k \in DOMAIN AddressOrder : c \in Mine(k)
  <2>1. PayTo[Owner[c]] \in Addresses
    BY DEF Addresses
  <2>2. PICK k \in DOMAIN AddressOrder : AddressOrder[k] = PayTo[Owner[c]]
    BY <2>1, AddressOrderIs
  <2> QED BY <2>2 DEF Mine, CreditsTo
<1> QED BY <1>1, <1>2, <1>3, <1>4 DEF Mine, CreditsTo

\* The points of all addresses are the points of all unpaid credits.
MyPoints == [k \in DOMAIN AddressOrder |-> Points(Mine(k))]

\* The order of the addresses leaves no points out.
LEMMA PointsInOrder ==
  ASSUME unpaid \subseteq Credits, IsFiniteSet(unpaid)
  PROVE  MyPoints \in Seq(Nat) /\ Sum(MyPoints) = Points(unpaid)
<1> DEFINE n == Cardinality(Addresses)
           first(k) == {c \in unpaid : \E j \in 1..k : c \in Mine(j)}
           f == [k \in 0..n |-> Points(first(k))]
<1>1. n \in Nat /\ DOMAIN AddressOrder = 1..n
  BY AddressOrderIs
<1>2. \A k \in 1..n : Points(Mine(k)) \in Nat
  BY <1>1, MineIs, PointsType
<1>3. MyPoints \in Seq(Nat) /\ Len(MyPoints) = n /\ \A k \in 1..n : MyPoints[k] = Points(Mine(k))
  <2>1. MyPoints = [k \in 1..n |-> Points(Mine(k))]
    BY <1>1 DEF MyPoints
  <2> HIDE DEF n
  <2> QED BY <2>1, <1>1, <1>2
<1>4. \A k : IsFiniteSet(first(k)) /\ first(k) \subseteq unpaid
  BY FS_Subset
<1>5. f[0] = 0
  <2>1. first(0) = {}
    OBVIOUS
  <2> QED BY <2>1, <1>1, <1>4, PointsType
<1>6. ASSUME NEW k \in 1..n PROVE f[k] = f[k - 1] + MyPoints[k]
  <2> HIDE DEF n
  <2>1. k \in 1..n /\ k - 1 \in 0..n /\ k \in 0..n /\ \A j : j \in 1..k <=> (j \in 1..(k - 1) \/ j = k)
    BY <1>1
  <2>2. first(k) = first(k - 1) \cup Mine(k)
    BY <2>1, <1>1, MineIs
  <2>3. \A j \in 1..(k - 1) : j \in DOMAIN AddressOrder /\ j # k
    BY <1>1
  <2>4. first(k - 1) \cap Mine(k) = {}
    BY <2>1, <2>3, <1>1, MineIs
  <2>5. \A c \in unpaid : Weight[c] \in Nat
    BY PaymentsAssumption DEF PaymentsAssumption
  <2>6. IsFiniteSet(Mine(k)) /\ Mine(k) \subseteq unpaid
    BY <1>1, MineIs
  <2>7. Points(first(k - 1) \cup Mine(k)) = Points(first(k - 1)) + Points(Mine(k))
    <3> HIDE DEF first
    <3>1. \A c \in first(k - 1) \cup Mine(k) : Weight[c] \in Nat
      BY <2>5, <2>6, <1>4
    <3> QED BY <3>1, <2>4, <2>6, <1>4, SumOverUnion DEF Points
  <2> HIDE DEF first
  <2> QED BY <2>1, <2>2, <2>7, <1>3
<1>7. f[n] = Points(unpaid)
  <2>1. first(n) = unpaid
    BY <1>1, MineIs
  <2> HIDE DEF first
  <2> QED BY <2>1, <1>1
<1>8. \A k \in 0..n : Points(first(k)) \in Nat
  <2> HIDE DEF first
  <2> QED BY <1>4, PointsType
<1> HIDE DEF first
<1>9. f \in [0..n -> Nat]
  BY <1>8
<1> HIDE DEF f
<1>10. Adds(f, MyPoints, n)
  BY <1>5, <1>6, <1>9 DEF Adds
<1> HIDE DEF n
<1> QED BY <1>3, <1>7, <1>10, SumIs

\* The additions: the pool's fee and one target per address with points.
LEMMA AdditionsAre ==
  ASSUME unpaid \subseteq Credits, IsFiniteSet(unpaid), unpaid # {}, NEW total \in Nat
  PROVE  /\ Additions(total) \in Payment /\ Additions(total) # <<>>
         /\ Amount(Additions(total)) <= total
         /\ CreditsIn(Additions(total)) = unpaid
         /\ \A i, j \in DOMAIN Additions(total) :
              i # j => Additions(total)[i].credits \cap Additions(total)[j].credits = {}
<1> DEFINE n == Cardinality(Addresses)
           mojo == MojoPerPoint(total)
           t(k) == [to |-> AddressOrder[k], amount |-> Points(Mine(k)) * mojo, credits |-> Mine(k)]
           rest == [k \in 1..n |-> t(k)]
           all == Additions(total)
<1>1. n \in Nat /\ DOMAIN AddressOrder = 1..n
  BY AddressOrderIs
<1>2. mojo \in Nat /\ PoolFee(total) \in Target
  BY PlanAmounts
<1>3. ASSUME NEW k \in 1..n PROVE t(k) \in Target
  <2>1. Points(Mine(k)) \in Nat /\ Mine(k) \subseteq Credits
    BY <1>1, MineIs, PointsType
  <2>2. Points(Mine(k)) * mojo \in Nat
    <3> DEFINE x == Points(Mine(k))
    <3>1. x \in Nat
      BY <2>1
    <3> HIDE DEF x, mojo
    <3>2. x * mojo \in Nat
      BY <3>1, <1>2
    <3> QED BY <3>2 DEF x
  <2>3. AddressOrder[k] \in {PayTo[g] : g \in ToSet(FarmerRows)}
    <3>1. AddressOrder[k] \in Addresses
      BY <1>1, AddressOrderIs
    <3> QED BY <3>1, PaymentsAssumption DEF PaymentsAssumption, Addresses
  <2> QED BY <2>1, <2>2, <2>3 DEF Target
<1>4. all = <<PoolFee(total)>> \o rest
  BY <1>1 DEF Additions, Mine
<1> HIDE DEF all, n, mojo
<1>5. rest \in Seq(Target) /\ Len(rest) = n
  <2> HIDE DEF t
  <2> QED BY <1>1, <1>3
<1>6. /\ all \in Seq(Target) /\ Len(all) = n + 1
      /\ all[1] = PoolFee(total) /\ \A k \in 1..n : all[k + 1] = t(k)
  <2> HIDE DEF t
  <2> QED BY <1>1, <1>2, <1>4, <1>5
<1>7. Amount(all) = PoolFee(total).amount + Points(unpaid) * mojo
  <2> DEFINE due == [k \in 1..n |-> t(k).amount]
  <2>1. due \in Seq(Nat) /\ Len(due) = n
    <3>1. \A k \in 1..n : t(k).amount \in Nat
      BY <1>3 DEF Target
    <3> HIDE DEF t
    <3> QED BY <3>1, <1>1
  <2>2. \A k \in 1..n : due[k] = MyPoints[k] * mojo
    BY <1>1 DEF MyPoints
  <2>3. MyPoints \in Seq(Nat) /\ Len(MyPoints) = n /\ Sum(MyPoints) = Points(unpaid)
    <3>1. MyPoints \in Seq(Nat) /\ DOMAIN MyPoints = 1..n
      BY <1>1, PointsInOrder DEF MyPoints
    <3> QED BY <3>1, <1>1, PointsInOrder
  <2>4. Amounts(all) = <<PoolFee(total).amount>> \o due
    <3>1. /\ DOMAIN all = 1..(n + 1) /\ all[1].amount = PoolFee(total).amount
          /\ \A i \in 1..(n + 1) : i # 1 => (i - 1 \in 1..n /\ all[i].amount = due[i - 1])
      <4>1. \A i \in 1..(n + 1) : i # 1 => i - 1 \in 1..n /\ (i - 1) + 1 = i
        BY <1>1
      <4> HIDE DEF t
      <4> QED BY <4>1, <1>6, <1>1
    <3> HIDE DEF due
    <3> QED BY <3>1, <2>1, <1>1 DEF Amounts
  <2> HIDE DEF due
  <2>5. Sum(due) = Points(unpaid) * mojo
    BY <2>1, <2>2, <2>3, <1>2, SumScaled
  <2>6. PoolFee(total).amount \in Nat
    BY <1>2 DEF Target
  <2>7. <<PoolFee(total).amount>> \in Seq(Nat) /\ Sum(<<PoolFee(total).amount>>) = PoolFee(total).amount
    BY <2>6, SumOne
  <2> QED BY <2>1, <2>4, <2>5, <2>7, SumConcat DEF Amount
<1>8. PoolFee(total).credits = {} /\ \A k \in 1..n : t(k).credits = Mine(k)
  BY DEF PoolFee
<1>9. \A i \in DOMAIN all : i = 1 \/ \E k \in 1..n : i = k + 1
  <2>1. ASSUME NEW i \in 1..(n + 1), i # 1 PROVE i - 1 \in 1..n /\ i = (i - 1) + 1
    BY <1>1, <2>1
  <2> QED BY <2>1, <1>6
<1>10. CreditsIn(all) = unpaid
  <2>1. ASSUME NEW c \in CreditsIn(all) PROVE c \in unpaid
    <3>1. PICK i \in DOMAIN all : c \in all[i].credits
      BY DEF CreditsIn
    <3> HIDE DEF t
    <3> QED BY <3>1, <1>1, <1>6, <1>8, <1>9, MineIs, SMTT(20)
  <2>2. ASSUME NEW c \in unpaid PROVE c \in CreditsIn(all)
    <3>1. PICK k \in 1..n : c \in Mine(k)
      BY <1>1, MineIs
    <3>2. k + 1 \in DOMAIN all
      BY <1>1, <1>6
    <3>3. c \in all[k + 1].credits
      BY <3>1, <1>6, <1>8
    <3> QED BY <3>2, <3>3 DEF CreditsIn
  <2> QED BY <2>1, <2>2
<1>11. ASSUME NEW i \in DOMAIN all, NEW j \in DOMAIN all, i # j
       PROVE  all[i].credits \cap all[j].credits = {}
  <2>1. i = 1 \/ \E k \in 1..n : i = k + 1 /\ all[i].credits = Mine(k)
    <3> HIDE DEF t
    <3> QED BY <1>6, <1>8, <1>9
  <2>2. j = 1 \/ \E k \in 1..n : j = k + 1 /\ all[j].credits = Mine(k)
    <3> HIDE DEF t
    <3> QED BY <1>6, <1>8, <1>9
  <2>3. all[1].credits = {}
    BY <1>6, <1>8
  <2> HIDE DEF t
  <2> QED BY <2>1, <2>2, <2>3, <1>1, <1>11, MineIs
<1>12. all \in Payment /\ all # <<>>
  <2>1. Len(all) # 0
    BY <1>1, <1>6
  <2> QED BY <2>1, <1>6 DEF Payment
<1>13. Amount(all) <= total
  BY <1>7, PlanAmounts DEF mojo
<1> QED BY <1>10, <1>11, <1>12, <1>13 DEF all

\* A list that is cut into sub-lists: each within the limit, in all the list.
LEMMA SubListsAre ==
  ASSUME NEW list \in Payment, list # <<>>
  PROVE  /\ InSubLists(list) \in Seq(Payment)
         /\ Owed(InSubLists(list)) = Amount(list)
         /\ \A p \in DOMAIN InSubLists(list) :
              /\ Len(InSubLists(list)[p]) \in 1..MaxAdditions
              /\ \A i \in DOMAIN InSubLists(list)[p] :
                   /\ (p - 1) * MaxAdditions + i \in DOMAIN list
                   /\ InSubLists(list)[p][i] = list[(p - 1) * MaxAdditions + i]
         /\ \A k \in DOMAIN list : \E p \in DOMAIN InSubLists(list) :
              \E i \in DOMAIN InSubLists(list)[p] : k = (p - 1) * MaxAdditions + i
<1> DEFINE n == Len(list)
           m == MaxAdditions
           q == (n + m - 1) \div m
           c == [p \in 0..q |-> Cut(n, p)]
           parts == InSubLists(list)
<1>1. list \in Seq(Target) /\ n \in Nat \ {0} /\ DOMAIN list = 1..n
  BY DEF Payment
<1>2. m \in Nat \ {0}
  BY PaymentsAssumption DEF PaymentsAssumption
<1>3. DOMAIN parts = 1..q /\ \A p \in 1..q : parts[p] = SubSeq(list, Cut(n, p - 1) + 1, Cut(n, p))
  BY DEF InSubLists
<1> HIDE DEF n, m
<1>4. q \in Nat \ {0} /\ (q - 1) * m < n /\ n <= q * m
  BY <1>1, <1>2, Ceiling
<1> HIDE DEF q, parts
<1>5. ASSUME NEW p \in 1..q
      PROVE  /\ p \in Nat /\ p - 1 \in Nat /\ p * m \in Nat /\ (p - 1) * m \in Nat
             /\ p * m = (p - 1) * m + m
             /\ (p - 1) * m < n /\ Cut(n, p - 1) = (p - 1) * m
             /\ Cut(n, p) \in Nat /\ Cut(n, p) <= n /\ Cut(n, p) <= p * m /\ Cut(n, p - 1) < Cut(n, p)
             /\ (Cut(n, p) = p * m \/ Cut(n, p) = n)
  <2>1. p \in Nat /\ p - 1 \in Nat /\ p * m \in Nat /\ (p - 1) * m \in Nat /\ p * m = (p - 1) * m + m
    BY <1>2, <1>4
  <2>2. (p - 1) * m <= (q - 1) * m
    <3>1. p - 1 <= q - 1 /\ q - 1 \in Nat
      BY <1>4
    <3> DEFINE a == p - 1
               b == q - 1
    <3>2. a \in Nat /\ b \in Nat /\ a <= b
      BY <2>1, <3>1
    <3> HIDE DEF a, b
    <3>3. b * m = a * m + (b - a) * m /\ (b - a) * m >= 0 /\ a * m \in Nat
      BY <3>2, <1>2
    <3>4. a * m <= b * m
      BY <3>2, <3>3, <1>2
    <3> QED BY <3>4 DEF a, b
  <2> DEFINE y == (p - 1) * m
             z == p * m
             w == (q - 1) * m
  <2>3. y \in Nat /\ z \in Nat /\ z = y + m /\ y < n
    <3>1. w \in Int
      BY <1>4, <1>2
    <3>2. y \in Nat /\ z \in Nat /\ z = y + m /\ y <= w /\ w < n
      BY <2>1, <2>2, <1>4
    <3> HIDE DEF y, z, w
    <3> QED BY <3>1, <3>2, <1>1
  <2>4. Cut(n, p - 1) = IF y <= n THEN y ELSE n
    BY DEF Cut, m
  <2>5. Cut(n, p) = IF z <= n THEN z ELSE n
    BY DEF Cut, m
  <2> HIDE DEF y, z
  <2>6. /\ Cut(n, p - 1) = y /\ Cut(n, p) \in Nat /\ Cut(n, p) <= n /\ Cut(n, p) <= z /\ Cut(n, p - 1) < Cut(n, p)
        /\ (Cut(n, p) = z \/ Cut(n, p) = n)
    BY <2>3, <2>4, <2>5, <1>1, <1>2
  <2> QED BY <2>1, <2>3, <2>6 DEF y, z
<1>6. ASSUME NEW p \in 1..q
      PROVE  /\ parts[p] \in Payment
             /\ Len(parts[p]) = Cut(n, p) - (p - 1) * m
             /\ DOMAIN parts[p] = 1..(Cut(n, p) - (p - 1) * m)
             /\ \A i \in DOMAIN parts[p] : parts[p][i] = list[(p - 1) * m + i] /\ (p - 1) * m + i \in 1..n
  <2> DEFINE a == (p - 1) * m
             b == Cut(n, p)
  <2>1. a \in Nat /\ b \in Nat /\ a < b /\ b <= n /\ parts[p] = SubSeq(list, a + 1, b)
    BY <1>3, <1>5
  <2> HIDE DEF a, b
  <2>2. \A i \in (a + 1)..b : i \in 1..n /\ list[i] \in Target
    BY <1>1, <2>1
  <2>3. parts[p] = [i \in 1..(b - a) |-> list[a + i]]
    BY <2>1, <1>1
  <2>4. \A i \in 1..(b - a) : a + i \in (a + 1)..b
    BY <2>1
  <2>5. b - a \in Nat
    BY <2>1
  <2>6. parts[p] \in Seq(Target) /\ Len(parts[p]) = b - a /\ DOMAIN parts[p] = 1..(b - a)
    BY <2>2, <2>3, <2>4, <2>5
  <2> QED BY <2>2, <2>3, <2>4, <2>6 DEF a, b, Payment
<1>7. parts \in Seq(Payment) /\ Len(parts) = q
  <2>1. parts = [p \in 1..q |-> parts[p]]
    BY <1>3 DEF parts, InSubLists
  <2> QED BY <2>1, <1>4, <1>6
<1>8. Owed(parts) = Amount(list)
  <2> DEFINE s == Amounts(list)
             t == AmountsOf(parts)
  <2>1. s \in Seq(Nat) /\ Len(s) = n /\ \A i \in 1..n : s[i] = list[i].amount
    <3>1. s \in Seq(Nat) /\ DOMAIN s = 1..n
      BY <1>1, AmountType DEF Amounts
    <3> QED BY <3>1, <1>1 DEF Amounts
  <2>2. t \in Seq(Nat) /\ Len(t) = q /\ Owed(parts) = Sum(t)
    <3>1. t \in Seq(Nat) /\ DOMAIN t = 1..q
      BY <1>3, <1>7, OwedType DEF AmountsOf
    <3> QED BY <3>1, <1>4, <1>7, OwedType
  <2>3. c \in [0..q -> 0..n] /\ c[0] = 0 /\ c[q] = n
    <3>1. Cut(n, 0) = 0
      <4>1. 0 * m = 0
        BY <1>2
      <4> QED BY <4>1, <1>1 DEF Cut, m
    <3>2. \A p \in 0..q : p = 0 \/ p \in 1..q
      BY <1>4
    <3>3. \A p \in 0..q : Cut(n, p) \in 0..n
      BY <3>1, <3>2, <1>1, <1>5
    <3>4. Cut(n, q) = n
      <4> DEFINE z == q * m
      <4>1. z \in Nat /\ n <= z /\ Cut(n, q) = IF z <= n THEN z ELSE n
        BY <1>2, <1>4 DEF Cut, m
      <4> HIDE DEF z
      <4> QED BY <4>1, <1>1
    <3> QED BY <3>1, <3>3, <3>4, <1>4
  <2>4. ASSUME NEW p \in 1..q
        PROVE  c[p - 1] <= c[p] /\ t[p] = Sum(SubSeq(s, c[p - 1] + 1, c[p]))
    <3>1. c[p - 1] = (p - 1) * m /\ c[p] = Cut(n, p)
      <4>1. p - 1 \in 0..q /\ p \in 0..q
        BY <1>4
      <4> QED BY <4>1, <1>5
    <3> DEFINE a == (p - 1) * m
               b == Cut(n, p)
    <3>2. a \in Nat /\ b \in Nat /\ a < b /\ b <= n
      BY <1>5
    <3>3. DOMAIN parts[p] = 1..(b - a) /\ \A i \in DOMAIN parts[p] : parts[p][i] = list[a + i] /\ a + i \in 1..n
      BY <1>6
    <3>4. t[p] = Sum(Amounts(parts[p]))
      BY <1>3 DEF AmountsOf, Amount
    <3> HIDE DEF a, b, s
    <3>5. Amounts(parts[p]) = [i \in 1..(b - a) |-> s[a + i]]
      BY <3>3, <2>1 DEF Amounts
    <3>6. SubSeq(s, a + 1, b) = [i \in 1..(b - a) |-> s[a + i]]
      <4>1. s \in Seq(Nat) /\ Len(s) = n /\ n \in Nat
        BY <2>1, <1>1
      <4> QED BY <4>1, <3>2 DEF SubSeq
    <3>7. c[p - 1] = a /\ c[p] = b
      BY <3>1 DEF a, b
    <3> HIDE DEF c, t
    <3>8. t[p] = Sum(SubSeq(s, a + 1, b))
      BY <3>4, <3>5, <3>6, Zenon
    <3> QED BY <3>2, <3>7, <3>8
  <2> HIDE DEF s, t, c
  <2>5. /\ c \in [0..Len(t) -> 0..Len(s)] /\ c[0] = 0 /\ c[Len(t)] = Len(s)
        /\ \A p \in 1..Len(t) : c[p - 1] <= c[p] /\ t[p] = Sum(SubSeq(s, c[p - 1] + 1, c[p]))
    BY <2>1, <2>2, <2>3, <2>4
  <2>6. Sum(t) = Sum(s)
    BY <2>1, <2>2, <2>5, SumPieces
  <2> QED BY <2>2, <2>6 DEF s, Amount
<1>9. ASSUME NEW p \in 1..q PROVE Len(parts[p]) \in 1..m
  <2> DEFINE a == (p - 1) * m
             b == Cut(n, p)
  <2>1. Len(parts[p]) = b - a /\ a \in Nat /\ b \in Nat /\ a < b /\ b <= a + m
    BY <1>5, <1>6
  <2> HIDE DEF a, b
  <2> QED BY <2>1, <1>2
<1>10. ASSUME NEW k \in 1..n
       PROVE  \E p \in 1..q : \E i \in DOMAIN parts[p] : k = (p - 1) * m + i
  <2>1. PICK p \in {p \in Nat : k <= p * m} : \A r \in {r \in Nat : k <= r * m} : p <= r
    <3> DEFINE T == {p \in Nat : k <= p * m}
    <3>1. k <= q * m
      <4> DEFINE z == q * m
      <4>1. z \in Nat /\ n <= z
        BY <1>2, <1>4
      <4> HIDE DEF z
      <4>2. k <= z
        BY <4>1, <1>1
      <4> QED BY <4>2 DEF z
    <3>2. T \subseteq Nat /\ T # {}
      BY <3>1, <1>4
    <3> QED BY <3>2, Least
  <2>2. p \in Nat /\ k <= p * m
    BY <2>1
  <2>3. p # 0
    <3>1. 0 * m = 0
      BY <1>2
    <3> QED BY <3>1, <2>2, <1>1
  <2>4. p - 1 \in Nat /\ ~ (k <= (p - 1) * m)
    <3>1. p - 1 \in Nat /\ ~ (p <= p - 1)
      BY <2>2, <2>3
    <3> QED BY <3>1, <2>1
  <2>5. p <= q
    <3> DEFINE z == q * m
    <3>1. z \in Nat /\ n <= z
      BY <1>2, <1>4
    <3> HIDE DEF z
    <3>2. k <= z
      BY <3>1, <1>1
    <3> QED BY <3>2, <2>1, <1>4 DEF z
  <2>6. p \in 1..q
    BY <2>2, <2>3, <2>5, <1>4
  <2> DEFINE a == (p - 1) * m
             z == p * m
             b == Cut(n, p)
  <2>7. a \in Nat /\ a < k /\ k <= b
    <3>1. a \in Nat /\ z \in Nat /\ b \in Nat /\ (b = z \/ b = n) /\ k <= z /\ ~ (k <= a)
      BY <2>2, <2>4, <2>6, <1>5
    <3> HIDE DEF a, b, z
    <3> QED BY <3>1, <1>1
  <2>8. DOMAIN parts[p] = 1..(b - a) /\ b \in Nat
    BY <2>6, <1>5, <1>6
  <2> HIDE DEF a, b
  <2>9. k - a \in DOMAIN parts[p] /\ k = a + (k - a)
    BY <2>7, <2>8, <1>1
  <2> QED BY <2>6, <2>9 DEF a
<1>11. DOMAIN parts = 1..q
  BY <1>3
<1>12. \A p \in DOMAIN parts : \A i \in DOMAIN parts[p] : (p - 1) * m + i \in DOMAIN list /\ parts[p][i] = list[(p - 1) * m + i]
  BY <1>1, <1>6, <1>11
<1>13. \A k \in DOMAIN list : \E p \in DOMAIN parts : \E i \in DOMAIN parts[p] : k = (p - 1) * m + i
  BY <1>1, <1>10, <1>11
<1>14. \A p \in DOMAIN parts : Len(parts[p]) \in 1..m
  BY <1>9, <1>11
<1> QED
  BY <1>7, <1>8, <1>12, <1>13, <1>14 DEF parts, m

\* No credit outside K is in two payments of the list.
Apart(payments, K) ==
  \A p, q \in DOMAIN payments : p # q => CreditsIn(payments[p]) \cap CreditsIn(payments[q]) \subseteq K

\* The plan of a payout promises no more than it was made from, and pays every
\* unpaid credit in exactly one target.
LEMMA PlanIs ==
  ASSUME unpaid \subseteq Credits, IsFiniteSet(unpaid), unpaid # {}, NEW total \in Nat,
         NEW payments, payments = PlanPayments(total)
  PROVE  /\ payments \in Seq(Payment) /\ Owed(payments) <= total
         /\ \A p \in DOMAIN payments : Len(payments[p]) \in 1..MaxAdditions
         /\ \A p, q \in DOMAIN payments : \A i \in DOMAIN payments[p], j \in DOMAIN payments[q] :
              <<p, i>> # <<q, j>> => payments[p][i].credits \cap payments[q][j].credits = {}
         /\ CreditsOf(payments) = unpaid
         /\ Apart(payments, {})
<1> DEFINE all == Additions(total)
           at(p, i) == (p - 1) * MaxAdditions + i
<1>1. /\ all \in Payment /\ all # <<>> /\ Amount(all) <= total /\ CreditsIn(all) = unpaid
      /\ \A i, j \in DOMAIN all : i # j => all[i].credits \cap all[j].credits = {}
  BY AdditionsAre
<1>2. payments = InSubLists(all)
  BY DEF PlanPayments
<1> HIDE DEF all
<1>3. /\ payments \in Seq(Payment) /\ Owed(payments) = Amount(all)
      /\ \A p \in DOMAIN payments : Len(payments[p]) \in 1..MaxAdditions
      /\ \A p \in DOMAIN payments : \A i \in DOMAIN payments[p] :
           at(p, i) \in DOMAIN all /\ payments[p][i] = all[at(p, i)]
      /\ \A k \in DOMAIN all : \E p \in DOMAIN payments : \E i \in DOMAIN payments[p] : k = at(p, i)
  BY <1>1, <1>2, SubListsAre
<1>4. ASSUME NEW p \in DOMAIN payments, NEW q \in DOMAIN payments,
             NEW i \in DOMAIN payments[p], NEW j \in DOMAIN payments[q], at(p, i) = at(q, j)
      PROVE  p = q /\ i = j
  <2> DEFINE m == MaxAdditions
  <2>1. m \in Nat /\ m > 0
    BY PaymentsAssumption DEF PaymentsAssumption
  <2>2. p \in Nat /\ q \in Nat
    BY <1>3, SMTT(20)
  <2>3. i \in 1..m /\ j \in 1..m
    <3>1. payments[p] \in Seq(Target) /\ payments[q] \in Seq(Target)
      BY <1>3 DEF Payment
    <3>2. Len(payments[p]) \in 1..m /\ Len(payments[q]) \in 1..m
      BY <1>3
    <3>3. i \in 1..Len(payments[p]) /\ j \in 1..Len(payments[q])
      BY <3>1
    <3> HIDE DEF m
    <3> QED BY <2>1, <3>2, <3>3
  <2>4. (p - 1) * m + i = (q - 1) * m + j
    BY <1>4
  <2> HIDE DEF m, at
  <2>5. ASSUME NEW a \in Int, NEW b \in Int, NEW x \in 1..m, NEW y \in 1..m,
               a * m + x = b * m + y, a < b
        PROVE  FALSE
    <3>1. b * m = a * m + (b - a) * m /\ a * m \in Int /\ (b - a) * m \in Int
      BY <2>1
    <3>2. (b - a) * m >= m
      <4>1. b - a >= 1 /\ b - a \in Nat
        BY <2>5
      <4> DEFINE d == b - a
      <4> HIDE DEF d
      <4>2. d * m = (d - 1) * m + m /\ (d - 1) * m >= 0
        BY <4>1, <2>1 DEF d
      <4> QED BY <4>1, <4>2, <2>1 DEF d
    <3> DEFINE u == a * m
               v == b * m
               w == (b - a) * m
    <3>3. u \in Int /\ w \in Int /\ v = u + w /\ w >= m /\ u + x = v + y
      BY <3>1, <3>2, <2>5
    <3> HIDE DEF u, v, w
    <3> QED BY <3>3, <2>1
  <2>6. p - 1 \in Int /\ q - 1 \in Int
    BY <2>2
  <2>7. ~ (p - 1 < q - 1) /\ ~ (q - 1 < p - 1)
    BY <2>3, <2>4, <2>5, <2>6
  <2>8. p = q
    BY <2>2, <2>7
  <2>9. (p - 1) * m \in Int
    BY <2>1, <2>2
  <2> DEFINE u == (p - 1) * m
  <2>10. u \in Int /\ u + i = u + j
    BY <2>4, <2>8, <2>9
  <2> HIDE DEF u
  <2> QED BY <2>3, <2>8, <2>10
<1> HIDE DEF at
<1>5. ASSUME NEW p \in DOMAIN payments, NEW q \in DOMAIN payments,
             NEW i \in DOMAIN payments[p], NEW j \in DOMAIN payments[q], <<p, i>> # <<q, j>>
      PROVE  payments[p][i].credits \cap payments[q][j].credits = {}
  <2>1. at(p, i) # at(q, j)
    BY <1>4, <1>5
  <2> QED BY <2>1, <1>1, <1>3
<1>6. CreditsOf(payments) = unpaid
  <2>1. ASSUME NEW c \in CreditsOf(payments) PROVE c \in unpaid
    <3>1. PICK p \in DOMAIN payments : c \in CreditsIn(payments[p])
      BY DEF CreditsOf
    <3>2. PICK i \in DOMAIN payments[p] : c \in payments[p][i].credits
      BY <3>1 DEF CreditsIn
    <3> QED BY <3>2, <1>1, <1>3 DEF CreditsIn
  <2>2. ASSUME NEW c \in unpaid PROVE c \in CreditsOf(payments)
    <3>1. PICK k \in DOMAIN all : c \in all[k].credits
      BY <1>1 DEF CreditsIn
    <3>2. PICK p \in DOMAIN payments : \E i \in DOMAIN payments[p] : k = at(p, i)
      BY <1>3
    <3>3. PICK i \in DOMAIN payments[p] : k = at(p, i)
      BY <3>2
    <3>4. c \in CreditsIn(payments[p])
      BY <3>1, <3>3, <1>3 DEF CreditsIn
    <3> QED BY <3>4 DEF CreditsOf
  <2> QED BY <2>1, <2>2
<1>7. Apart(payments, {})
  <2> SUFFICES ASSUME NEW p \in DOMAIN payments, NEW q \in DOMAIN payments, p # q,
                      NEW c \in CreditsIn(payments[p]), c \in CreditsIn(payments[q])
               PROVE  FALSE
    BY DEF Apart
  <2>1. PICK i \in DOMAIN payments[p] : c \in payments[p][i].credits
    BY DEF CreditsIn
  <2>2. PICK j \in DOMAIN payments[q] : c \in payments[q][j].credits
    BY DEF CreditsIn
  <2> QED BY <2>1, <2>2, <1>5
<1> QED BY <1>1, <1>3, <1>5, <1>6, <1>7

------------------------------------------------------------------------------
(* Where credits are.                                                      *)

\* Credits and amounts of a list of payments, when one is added or taken away.
LEMMA CreditsConcat ==
  ASSUME NEW ps \in Seq(Payment), NEW qs \in Seq(Payment), NEW K
  PROVE  /\ CreditsOf(ps \o qs) = CreditsOf(ps) \cup CreditsOf(qs)
         /\ (Apart(ps, K) /\ Apart(qs, K) /\ CreditsOf(ps) \cap CreditsOf(qs) \subseteq K)
              => Apart(ps \o qs, K)
<1> DEFINE all == ps \o qs
           m == Len(ps)
           n == Len(qs)
<1>1. /\ m \in Nat /\ n \in Nat /\ DOMAIN ps = 1..m /\ DOMAIN qs = 1..n /\ DOMAIN all = 1..(m + n)
      /\ \A i \in 1..m : all[i] = ps[i]
      /\ \A i \in 1..n : all[m + i] = qs[i]
  OBVIOUS
<1> HIDE DEF all, m, n
<1>2. \A i \in DOMAIN all : (i \in DOMAIN ps /\ all[i] = ps[i]) \/ (i - m \in DOMAIN qs /\ all[i] = qs[i - m])
  <2> SUFFICES ASSUME NEW i \in 1..(m + n), i \notin 1..m
               PROVE  i - m \in 1..n /\ all[i] = qs[i - m]
    BY <1>1
  <2>1. i - m \in 1..n /\ m + (i - m) = i
    BY <1>1
  <2> QED BY <2>1, <1>1
<1>3. \A i \in DOMAIN ps : i \in DOMAIN all /\ all[i] = ps[i]
  BY <1>1
<1>4. \A i \in DOMAIN qs : m + i \in DOMAIN all /\ all[m + i] = qs[i]
  BY <1>1
<1>5. CreditsOf(all) = CreditsOf(ps) \cup CreditsOf(qs)
  BY <1>2, <1>3, <1>4 DEF CreditsOf
<1>6. ASSUME Apart(ps, K), Apart(qs, K), CreditsOf(ps) \cap CreditsOf(qs) \subseteq K PROVE Apart(all, K)
  <2> SUFFICES ASSUME NEW i \in DOMAIN all, NEW j \in DOMAIN all, i # j
               PROVE  CreditsIn(all[i]) \cap CreditsIn(all[j]) \subseteq K
    BY DEF Apart
  <2>1. \A p \in DOMAIN ps, q \in DOMAIN qs : CreditsIn(ps[p]) \cap CreditsIn(qs[q]) \subseteq K
    BY <1>6 DEF CreditsOf
  <2>2. CASE i \in DOMAIN ps /\ all[i] = ps[i] /\ j \in DOMAIN ps /\ all[j] = ps[j]
    BY <2>2, <1>6 DEF Apart
  <2>3. CASE i - m \in DOMAIN qs /\ all[i] = qs[i - m] /\ j - m \in DOMAIN qs /\ all[j] = qs[j - m]
    <3>1. i - m # j - m
      BY <1>1
    <3> QED BY <2>3, <3>1, <1>6 DEF Apart
  <2>4. CASE i \in DOMAIN ps /\ all[i] = ps[i] /\ j - m \in DOMAIN qs /\ all[j] = qs[j - m]
    BY <2>4, <2>1
  <2>5. CASE i - m \in DOMAIN qs /\ all[i] = qs[i - m] /\ j \in DOMAIN ps /\ all[j] = ps[j]
    BY <2>5, <2>1
  <2> QED BY <1>2, <2>2, <2>3, <2>4, <2>5
<1> QED BY <1>5, <1>6 DEF all

\* The credits of a list with one payment are that payment's.
LEMMA CreditsOne ==
  ASSUME NEW p \in Payment, NEW K
  PROVE  CreditsOf(<<p>>) = CreditsIn(p) /\ Apart(<<p>>, K) /\ <<p>> \in Seq(Payment)
<1>1. DOMAIN <<p>> = {1} /\ <<p>>[1] = p
  OBVIOUS
<1> QED BY <1>1 DEF CreditsOf, Apart

\* A payment that is added brings its credits; the list stays apart when they are
\* not in it yet.
LEMMA CreditsAppend ==
  ASSUME NEW ps \in Seq(Payment), NEW p \in Payment, NEW K
  PROVE  /\ CreditsOf(Append(ps, p)) = CreditsOf(ps) \cup CreditsIn(p)
         /\ (Apart(ps, K) /\ CreditsOf(ps) \cap CreditsIn(p) \subseteq K) => Apart(Append(ps, p), K)
<1> DEFINE q == <<p>>
<1>1. Append(ps, p) = ps \o q
  OBVIOUS
<1>2. CreditsOf(q) = CreditsIn(p) /\ Apart(q, K) /\ q \in Seq(Payment)
  BY CreditsOne
<1> HIDE DEF q
<1>3. /\ CreditsOf(ps \o q) = CreditsOf(ps) \cup CreditsOf(q)
      /\ Apart(ps, K) /\ Apart(q, K) /\ CreditsOf(ps) \cap CreditsOf(q) \subseteq K => Apart(ps \o q, K)
  BY <1>2, CreditsConcat
<1> QED BY <1>1, <1>2, <1>3

\* A payment that is taken from the front takes its credits with it.
LEMMA CreditsTail ==
  ASSUME NEW ps \in Seq(Payment), ps # <<>>, NEW K
  PROVE  /\ CreditsOf(ps) = CreditsIn(Head(ps)) \cup CreditsOf(Tail(ps))
         /\ Apart(ps, K) => Apart(Tail(ps), K) /\ CreditsIn(Head(ps)) \cap CreditsOf(Tail(ps)) \subseteq K
<1> DEFINE n == Len(ps)
           t == Tail(ps)
<1>1. /\ n \in Nat /\ DOMAIN ps = 1..n /\ 1 \in 1..n /\ DOMAIN t = 1..(n - 1) /\ Head(ps) = ps[1]
      /\ \A i \in 1..(n - 1) : t[i] = ps[i + 1]
  OBVIOUS
<1> HIDE DEF n, t
<1>2. \A i \in DOMAIN t : i + 1 \in DOMAIN ps /\ i + 1 # 1 /\ t[i] = ps[i + 1]
  BY <1>1
<1>3. \A i \in DOMAIN ps : i = 1 \/ (i - 1 \in DOMAIN t /\ t[i - 1] = ps[i])
  <2> SUFFICES ASSUME NEW i \in 1..n, i # 1 PROVE i - 1 \in 1..(n - 1) /\ t[i - 1] = ps[i]
    BY <1>1
  <2>1. i - 1 \in 1..(n - 1) /\ (i - 1) + 1 = i
    BY <1>1
  <2> QED BY <2>1, <1>1
<1>4. CreditsOf(ps) = CreditsIn(ps[1]) \cup CreditsOf(t)
  <2>1. ASSUME NEW c \in CreditsOf(ps) PROVE c \in CreditsIn(ps[1]) \cup CreditsOf(t)
    <3>1. PICK i \in DOMAIN ps : c \in CreditsIn(ps[i])
      BY DEF CreditsOf
    <3> QED BY <3>1, <1>3 DEF CreditsOf
  <2>2. CreditsIn(ps[1]) \subseteq CreditsOf(ps)
    BY <1>1 DEF CreditsOf
  <2>3. CreditsOf(t) \subseteq CreditsOf(ps)
    BY <1>2 DEF CreditsOf
  <2> QED BY <2>1, <2>2, <2>3
<1>5. ASSUME Apart(ps, K) PROVE Apart(t, K) /\ CreditsIn(ps[1]) \cap CreditsOf(t) \subseteq K
  <2>1. \A i, j \in DOMAIN t : i # j => i + 1 # j + 1
    BY <1>1
  <2>2. Apart(t, K)
    BY <1>2, <1>5, <2>1 DEF Apart
  <2>3. 1 \in DOMAIN ps
    BY <1>1
  <2>4. CreditsIn(ps[1]) \cap CreditsOf(t) \subseteq K
    BY <1>2, <1>5, <2>3 DEF Apart, CreditsOf
  <2> QED BY <2>2, <2>4
<1> QED BY <1>1, <1>4, <1>5 DEF t

\* What the transactions pay.
TargetsOf(ts) == [i \in DOMAIN ts |-> ts[i].targets]

\* The targets of transactions are a list of payments.
LEMMA TargetsType ==
  ASSUME NEW ts \in Seq(Tx)
  PROVE  /\ TargetsOf(ts) \in Seq(Payment) /\ Len(TargetsOf(ts)) = Len(ts) /\ DOMAIN TargetsOf(ts) = DOMAIN ts
         /\ \A i \in DOMAIN ts : TargetsOf(ts)[i] = ts[i].targets
<1>1. \A i \in DOMAIN ts : ts[i].targets \in Payment
  <2>1. \A i \in DOMAIN ts : ts[i] \in Tx
    OBVIOUS
  <2> QED BY <2>1 DEF Tx
<1> QED BY <1>1 DEF TargetsOf

\* A transaction that is sent adds its targets to what was paid.
LEMMA TargetsAppend ==
  ASSUME NEW ts \in Seq(Tx), NEW t \in Tx
  PROVE  Append(ts, t) \in Seq(Tx) /\ TargetsOf(Append(ts, t)) = Append(TargetsOf(ts), t.targets)
BY DEF TargetsOf

\* What transactions pay are the credits of their targets.
LEMMA CreditsPaidIs == \A ts : CreditsPaid(ts) = CreditsOf(TargetsOf(ts))
BY DEF CreditsPaid, CreditsOf, TargetsOf

\* A payment that was sent and is still in hand is in the last transaction;
\* the hand is empty while the loop looks for a payment.
Held == spc \in {"send", "backoff"}
HeldCredits == IF Held THEN CreditsIn(hand) ELSE {}

HandInv ==
  /\ spc \in {"check", "get"} => hand = <<>>
  /\ spc = "confirm" => txs # <<>> /\ hand = TargetsOf(txs)[Len(txs)]

\* A credit whose points were cleared when they should have been is in one place:
\* in one transaction, in one payment on the queue, in the payment in hand or in
\* the points; while the points are being cleared it is in them as well.
OnceInv ==
  /\ Apart(TargetsOf(txs), kept) /\ Apart(pending, kept)
  /\ CreditsPaid(txs) \cap CreditsOf(pending) \subseteq kept
  /\ HeldCredits \cap (CreditsPaid(txs) \cup CreditsOf(pending)) \subseteq kept
  /\ cpc # "clearing" => unpaid \cap (CreditsPaid(txs) \cup CreditsOf(pending) \cup HeldCredits) \subseteq kept

\* What is promised, and what a payout that has read the funds is about to
\* promise, is covered.
Promising == Promised + (IF cpc \in {"lockwait", "reading"} THEN claimed ELSE 0)
CoverInv == strained \/ Promising <= funds

\* Every credit that has left the points, and while they are being cleared every
\* credit that is about to, is somewhere else.
Elsewhere == CreditsOf(pending) \cup CreditsIn(hand) \cup dropped \cup CreditsPaid(txs)
AccountInv == earned = unpaid \cup Elsewhere /\ (cpc = "clearing" => unpaid \subseteq Elsewhere)

\* The types, and that only finitely many credits wait to be paid.
TypeInv == TypeOK /\ IsFiniteSet(unpaid)

\* The inductive invariant of the payout.
PayInv ==
  TypeInv /\ HandInv /\ AccountInv /\ OnceInv /\ CoverInv /\ PlanSound

\* What the invariant says of the transactions, with the operators of this module.
LEMMA TypeFacts ==
  ASSUME TypeInv
  PROVE  /\ txs \in Seq(Tx) /\ Sum(InFlight(txs)) \in Nat /\ Committed = Sum(InFlight(txs))
         /\ pending \in Seq(Payment) /\ Owed(pending) \in Nat
         /\ hand \in Payment /\ Amount(hand) \in Nat
         /\ claimed \in Nat /\ funds \in Nat /\ fresh \in Nat /\ fresh <= funds
         /\ Promised \in Nat /\ Promising \in Nat
<1>1. txs \in Seq(Tx) /\ pending \in Seq(Payment) /\ hand \in Payment /\ claimed \in Nat
      /\ funds \in Nat /\ fresh \in Nat /\ fresh <= funds
  BY DEF TypeInv, TypeOK, Tx
<1>2. Sum(InFlight(txs)) \in Nat /\ Committed = Sum(InFlight(txs))
  BY <1>1, InFlightType DEF Committed, InFlight
<1>3. Owed(pending) \in Nat /\ Amount(hand) \in Nat
  BY <1>1, OwedType, AmountType
<1>4. Promised \in Nat
  BY <1>2, <1>3 DEF Promised
<1>5. Promising \in Nat
  BY <1>1, <1>4 DEF Promising
<1> QED BY <1>1, <1>2, <1>3, <1>4, <1>5

\* An empty payment or list has no credits and comes to nothing.
LEMMA CreditsInEmpty == CreditsIn(<<>>) = {} /\ CreditsOf(<<>>) = {} /\ <<>> \in Payment /\ Amount(<<>>) = 0
<1>1. Amounts(<<>>) = <<>>
  BY DEF Amounts
<1> QED BY <1>1, SumEmpty DEF CreditsIn, CreditsOf, Payment, Amount

\* Nothing has been earned, and nothing promised.
LEMMA InitPay == Init => PayInv
<1> SUFFICES ASSUME Init PROVE PayInv
  OBVIOUS
<1>1. TypeInv
  <2>1. IsFiniteSet(unpaid)
    BY FS_EmptySet DEF Init
  <2>2. pending \in Seq(Payment) /\ hand \in Payment
    BY DEF Init, Payment
  <2>3. txs \in Seq([targets : Payment, state : {"mempool", "confirmed", "buried"}])
    BY DEF Init
  <2>4. rewards \in 0..MaxRewards /\ faults \in 0..MaxFaults
    BY PaymentsAssumption DEF Init, PaymentsAssumption
  <2>5. plan \in [claimed : Nat, payments : Seq(Payment)]
    BY DEF Init
  <2>6. /\ earned \subseteq Credits /\ unpaid \subseteq Credits
        /\ billed \subseteq Credits /\ dropped \subseteq Credits /\ kept \subseteq Credits
    BY DEF Init
  <2>7. /\ cpc \in {"check", "coins", "lockwait", "reading", "clearing"}
        /\ spc \in {"check", "get", "send", "backoff", "confirm"}
        /\ claimed \in Nat /\ funds \in Nat /\ fresh \in 0..funds
    BY DEF Init
  <2>8. readable \in BOOLEAN /\ nodeSynced \in BOOLEAN /\ walletSynced \in BOOLEAN /\ strained \in BOOLEAN
    BY DEF Init
  <2> QED BY <2>1, <2>2, <2>3, <2>4, <2>5, <2>6, <2>7, <2>8 DEF TypeInv, TypeOK
<1>2. HandInv
  BY DEF Init, HandInv
<1>3. TargetsOf(txs) = <<>> /\ CreditsPaid(txs) = {}
  BY DEF Init, TargetsOf, CreditsPaid
<1>4. AccountInv
  BY <1>3, CreditsInEmpty DEF Init, AccountInv, Elsewhere
<1>5. OnceInv
  BY <1>3, CreditsInEmpty DEF Init, OnceInv, HeldCredits, Held, Apart
<1>6. CoverInv
  <2>1. Sum(InFlight(txs)) = 0
    <3>1. InFlight(txs) = <<>>
      BY DEF Init, InFlight
    <3> QED BY <3>1, SumEmpty
  <2>2. Promised = 0
    BY <2>1, OwedEmpty DEF Promised, Committed, InFlight, Init
  <2> QED BY <2>2 DEF Init, CoverInv, Promising
<1>7. PlanSound
  BY CreditsInEmpty, OwedEmpty DEF Init, PlanSound
<1> QED BY <1>1, <1>2, <1>4, <1>5, <1>6, <1>7 DEF PayInv

\* A step that moves no credit.
LEMMA BooksFrame ==
  ASSUME PayInv, UNCHANGED <<earned, unpaid, pending, HeldCredits, CreditsIn(hand), dropped, kept, plan>>,
         UNCHANGED TargetsOf(txs), cpc' = "clearing" <=> cpc = "clearing"
  PROVE  AccountInv' /\ OnceInv' /\ PlanSound'
<1>1. CreditsPaid(txs)' = CreditsPaid(txs)
  BY CreditsPaidIs
<1>2. AccountInv'
  BY <1>1 DEF PayInv, AccountInv, Elsewhere
<1>3. OnceInv'
  BY <1>1 DEF PayInv, OnceInv
<1>4. PlanSound'
  BY DEF PayInv, PlanSound
<1> QED BY <1>2, <1>3, <1>4

\* A step that promises nothing.
LEMMA CoverFrame ==
  ASSUME PayInv, UNCHANGED <<Promising, funds, strained>>
  PROVE  CoverInv'
BY DEF PayInv, CoverInv

\* Promising less with the funds as they were.
LEMMA CoverLess ==
  ASSUME PayInv, Promised' \in Nat, Promised' <= Promised, UNCHANGED <<funds, strained>>,
         (cpc' = cpc /\ claimed' = claimed) \/ cpc' = "check"
  PROVE  CoverInv'
<1>1. Promised \in Nat /\ funds \in Nat /\ claimed \in Nat
  BY TypeFacts DEF PayInv
<1>2. CASE strained
  BY <1>2 DEF CoverInv
<1>3. CASE ~strained
  <2>1. Promising <= funds
    BY <1>3 DEF PayInv, CoverInv
  <2> DEFINE before == IF cpc \in {"lockwait", "reading"} THEN claimed ELSE 0
             after == IF cpc' \in {"lockwait", "reading"} THEN claimed' ELSE 0
             p == Promised
             q == Promised'
  <2>2. before \in Nat /\ after \in Nat /\ after <= before
    BY <1>1
  <2>3. Promising = p + before /\ Promising' = q + after
    BY DEF Promising
  <2>4. p \in Nat /\ q \in Nat /\ q <= p
    BY <1>1
  <2> HIDE DEF before, after, p, q
  <2>5. q + after <= funds
    BY <2>1, <2>2, <2>3, <2>4, <1>1
  <2> QED BY <2>3, <2>5 DEF CoverInv
<1> QED BY <1>2, <1>3

\* create_payment_loop, and the credits.
LEMMA PayEarn ==
  ASSUME PayInv, NEW c \in Credits, EarnCredit(c)
  PROVE  PayInv'
<1>1. /\ cpc # "clearing" /\ c \notin earned /\ earned' = earned \cup {c} /\ unpaid' = unpaid \cup {c}
      /\ UNCHANGED <<readable, cpc, claimed, pending, spc, hand, nodeSynced, walletSynced, funds, fresh, txs, rewards,
                     billed, plan, dropped, kept, strained, faults>>
  BY DEF EarnCredit, LockFree, creator, submitter, sync, chain, history
<1>2. TypeInv'
  <2>1. IsFiniteSet(unpaid')
    BY <1>1, FS_AddElement DEF PayInv, TypeInv
  <2> QED BY <1>1, <2>1 DEF PayInv, TypeInv, TypeOK
<1>3. HandInv'
  BY <1>1 DEF PayInv, HandInv
<1>4. CreditsPaid(txs)' = CreditsPaid(txs) /\ HeldCredits' = HeldCredits
  BY <1>1 DEF HeldCredits, Held
<1>5. AccountInv'
  BY <1>1, <1>4 DEF PayInv, AccountInv, Elsewhere
<1>6. c \notin CreditsPaid(txs) \cup CreditsOf(pending) \cup HeldCredits
  BY <1>1 DEF PayInv, AccountInv, Elsewhere, HeldCredits
<1>7. OnceInv'
  <2>1. (Apart(TargetsOf(txs), kept) /\ Apart(pending, kept))'
    BY <1>1 DEF PayInv, OnceInv
  <2> QED BY <1>1, <1>4, <1>6, <2>1 DEF PayInv, OnceInv
<1>8. CoverInv'
  BY <1>1 DEF PayInv, CoverInv, Promising, Promised, Committed
<1>9. PlanSound'
  BY <1>1 DEF PayInv, PlanSound
<1> QED BY <1>2, <1>3, <1>5, <1>7, <1>8, <1>9 DEF PayInv

\* create_payment_loop up to the lock: the plan is not made yet, but the funds that
\* it will be made from are read.
LEMMA PayCreate ==
  ASSUME PayInv, CheckQueue \/ GetCoins \/ TakeLock
  PROVE  PayInv'
<1>1. /\ cpc # "clearing" /\ cpc' \in {"check", "coins", "lockwait", "reading"}
      /\ UNCHANGED <<earned, unpaid, readable, pending, spc, hand, nodeSynced, walletSynced, funds, fresh, txs, rewards,
                     billed, plan, dropped, kept, faults>>
  BY DEF CheckQueue, GetCoins, TakeLock, creator, submitter, sync, chain, history
<1>2. /\ claimed' \in Nat /\ strained' \in BOOLEAN
      /\ strained => strained'
      /\ (cpc' \in {"lockwait", "reading"}) =>
           \/ cpc = "coins" /\ claimed' = funds /\ (strained' \/ ~ (Promised > 0))
           \/ cpc \in {"lockwait", "reading"} /\ claimed' = claimed /\ strained' = strained
      /\ (cpc' \notin {"lockwait", "reading"}) => strained' = strained
  BY TypeFacts DEF CheckQueue, GetCoins, TakeLock, history, PayInv, TypeInv, TypeOK
<1>3. TypeInv'
  BY <1>1, <1>2 DEF PayInv, TypeInv, TypeOK
<1>4. HandInv'
  BY <1>1 DEF PayInv, HandInv
<1>5. AccountInv' /\ OnceInv' /\ PlanSound'
  <2>1. UNCHANGED <<HeldCredits, CreditsIn(hand), TargetsOf(txs)>>
    BY <1>1 DEF HeldCredits, Held
  <2> QED BY <1>1, <2>1, BooksFrame
<1>6. CoverInv'
  <2>1. Promised' = Promised /\ Promised \in Nat /\ funds \in Nat /\ claimed \in Nat
    BY <1>1, TypeFacts DEF PayInv, Promised, Committed
  <2>2. CASE cpc' \in {"lockwait", "reading"}
    <3>1. CASE cpc = "coins" /\ claimed' = funds /\ (strained' \/ ~ (Promised > 0))
      <4>1. strained' \/ Promised = 0
        BY <3>1, <2>1
      <4> QED BY <1>1, <2>1, <2>2, <3>1, <4>1 DEF CoverInv, Promising
    <3>2. CASE cpc \in {"lockwait", "reading"} /\ claimed' = claimed /\ strained' = strained
      BY <1>1, <2>1, <2>2, <3>2 DEF PayInv, CoverInv, Promising
    <3> QED BY <1>2, <2>2, <3>1, <3>2
  <2>3. CASE cpc' \notin {"lockwait", "reading"}
    BY <1>1, <1>2, <2>1, <2>3 DEF PayInv, CoverInv, Promising
  <2> QED BY <2>2, <2>3
<1> QED BY <1>3, <1>4, <1>5, <1>6 DEF PayInv

\* The plan is queued: it promises what was claimed, and holds each unpaid credit once.
LEMMA PayPut ==
  ASSUME PayInv, PutPayments
  PROVE  PayInv'
<1>1. /\ cpc = "reading"
      /\ UNCHANGED <<earned, unpaid, readable, spc, hand, nodeSynced, walletSynced, funds, fresh, txs, rewards,
                     dropped, kept, strained, faults>>
  BY DEF PutPayments, creator, submitter, sync, chain, history
<1>2. HandInv'
  BY <1>1 DEF PayInv, HandInv
<1>3. UNCHANGED <<HeldCredits, CreditsIn(hand), TargetsOf(txs), CreditsPaid(txs)>>
  BY <1>1 DEF HeldCredits, Held
<1>4. CASE unpaid = {} \/ ~readable
  <2>1. cpc' = "check" /\ claimed' = 0 /\ UNCHANGED <<pending, billed, plan>>
    BY <1>4 DEF PutPayments, history
  <2>2. TypeInv'
    BY <1>1, <2>1 DEF PayInv, TypeInv, TypeOK
  <2>3. AccountInv' /\ OnceInv' /\ PlanSound'
    BY <1>1, <1>3, <2>1, BooksFrame
  <2>4. CoverInv'
    <3>1. Promised' = Promised /\ Promised \in Nat /\ funds \in Nat /\ claimed \in Nat
      BY <1>1, <2>1, TypeFacts DEF PayInv, Promised, Committed
    <3> QED BY <1>1, <2>1, <3>1 DEF PayInv, CoverInv, Promising
  <2> QED BY <1>2, <2>2, <2>3, <2>4 DEF PayInv
<1>5. CASE unpaid # {} /\ readable
  <2> DEFINE new == PlanPayments(claimed)
  <2>1. /\ cpc' = "clearing" /\ pending' = pending \o new /\ billed' = billed \cup unpaid /\ claimed' = claimed
        /\ plan' = [claimed |-> claimed, payments |-> new]
    BY <1>5 DEF PutPayments
  <2>2. /\ pending \in Seq(Payment) /\ claimed \in Nat /\ Owed(pending) \in Nat /\ funds \in Nat
        /\ Promised \in Nat /\ Committed \in Nat /\ Amount(hand) \in Nat
    BY TypeFacts DEF PayInv
  <2>3. unpaid \subseteq Credits /\ IsFiniteSet(unpaid)
    BY DEF PayInv, TypeInv, TypeOK
  <2>4. /\ new \in Seq(Payment) /\ Owed(new) <= claimed
        /\ \A p \in DOMAIN new : Len(new[p]) \in 1..MaxAdditions
        /\ \A p, q \in DOMAIN new : \A i \in DOMAIN new[p], j \in DOMAIN new[q] :
             <<p, i>> # <<q, j>> => new[p][i].credits \cap new[q][j].credits = {}
        /\ CreditsOf(new) = unpaid
        /\ Apart(new, {})
    BY <1>5, <2>2, <2>3, PlanIs
  <2> HIDE DEF new
  <2>5. Owed(pending') = Owed(pending) + Owed(new) /\ Owed(new) \in Nat
    BY <2>1, <2>2, <2>4, OwedConcat, OwedType
  <2>6. CreditsOf(pending') = CreditsOf(pending) \cup unpaid
    BY <2>1, <2>2, <2>4, CreditsConcat
  <2>7. TypeInv'
    <3>1. pending' \in Seq(Payment) /\ plan' \in [claimed : Nat, payments : Seq(Payment)] /\ billed' \subseteq Credits
      BY <2>1, <2>2, <2>4 DEF PayInv, TypeInv, TypeOK
    <3>2. claimed' \in Nat /\ cpc' = "clearing"
      BY <2>1, <2>2
    <3> QED BY <1>1, <3>1, <3>2 DEF PayInv, TypeInv, TypeOK
  <2>8. AccountInv'
    <3>1. Elsewhere' = Elsewhere \cup unpaid
      BY <1>1, <1>3, <2>6 DEF Elsewhere
    <3> QED BY <1>1, <2>1, <3>1 DEF PayInv, AccountInv
  <2>9. OnceInv'
    <3>1. unpaid \cap (CreditsPaid(txs) \cup CreditsOf(pending) \cup HeldCredits) \subseteq kept
      BY <1>1 DEF PayInv, OnceInv
    <3>2. Apart(pending, kept) /\ Apart(new, kept)
      BY <2>4 DEF PayInv, OnceInv, Apart
    <3>3. Apart(pending \o new, kept)
      BY <2>2, <2>4, <3>1, <3>2, CreditsConcat
    <3>4. Apart(TargetsOf(txs), kept)' /\ Apart(pending, kept)'
      BY <1>1, <1>3, <2>1, <3>3 DEF PayInv, OnceInv
    <3> QED BY <1>1, <1>3, <2>1, <2>6, <3>1, <3>4 DEF PayInv, OnceInv
  <2>10. CoverInv'
    <3>1. Promised' = Promised + Owed(new)
      BY <1>1, <2>2, <2>5 DEF Promised, Committed
    <3> QED BY <1>1, <2>1, <2>2, <2>4, <2>5, <3>1 DEF PayInv, CoverInv, Promising
  <2>11. PlanSound'
    <3>1. plan'.payments = new /\ plan'.claimed = claimed /\ unpaid' = unpaid
      BY <1>1, <2>1
    <3> QED BY <3>1, <2>4 DEF PlanSound
  <2> QED BY <1>2, <2>7, <2>8, <2>9, <2>10, <2>11 DEF PayInv
<1> QED BY <1>4, <1>5

\* The points are cleared: each credit has been queued.
LEMMA PayClear ==
  ASSUME PayInv, ClearPoints
  PROVE  PayInv'
<1>1. /\ cpc = "clearing" /\ unpaid' = {} /\ cpc' = "check" /\ claimed' = 0
      /\ UNCHANGED <<earned, readable, pending, spc, hand, nodeSynced, walletSynced, funds, fresh, txs, rewards,
                     billed, plan, dropped, kept, strained, faults>>
  BY DEF ClearPoints, creator, submitter, sync, chain, history
<1>2. TypeInv'
  BY <1>1, FS_EmptySet DEF PayInv, TypeInv, TypeOK
<1>3. HandInv'
  BY <1>1 DEF PayInv, HandInv
<1>4. CreditsPaid(txs)' = CreditsPaid(txs) /\ HeldCredits' = HeldCredits
  BY <1>1 DEF HeldCredits, Held
<1>5. AccountInv'
  BY <1>1, <1>4 DEF PayInv, AccountInv, Elsewhere
<1>6. OnceInv'
  <2>1. (Apart(TargetsOf(txs), kept) /\ Apart(pending, kept))'
    BY <1>1 DEF PayInv, OnceInv
  <2> QED BY <1>1, <1>4, <2>1 DEF PayInv, OnceInv
<1>7. CoverInv'
  BY <1>1 DEF PayInv, CoverInv, Promising, Promised, Committed
<1>8. PlanSound'
  BY <1>1 DEF PayInv, PlanSound
<1> QED BY <1>2, <1>3, <1>5, <1>6, <1>7, <1>8 DEF PayInv

\* submit_payment_loop.
LEMMA PayGet ==
  ASSUME PayInv, GetPayment
  PROVE  PayInv'
<1>1. /\ spc = "get" /\ pending # <<>> /\ hand' = Head(pending) /\ pending' = Tail(pending) /\ spc' = "send"
      /\ UNCHANGED <<earned, unpaid, readable, cpc, claimed, nodeSynced, walletSynced, funds, fresh, txs, rewards,
                     billed, plan, dropped, kept, strained, faults>>
  BY DEF GetPayment, creator, sync, chain, history
<1>2. pending \in Seq(Payment) /\ Head(pending) \in Payment /\ Tail(pending) \in Seq(Payment)
  <2>1. pending \in Seq(Payment)
    BY DEF PayInv, TypeInv, TypeOK
  <2> HIDE DEF Payment
  <2> QED BY <2>1, <1>1
<1>3. TypeInv'
  BY <1>1, <1>2 DEF PayInv, TypeInv, TypeOK
<1>4. HandInv'
  BY <1>1 DEF HandInv
<1>5. hand = <<>> /\ CreditsIn(hand) = {} /\ HeldCredits = {}
  BY <1>1, CreditsInEmpty DEF PayInv, HandInv, HeldCredits, Held
<1>6. /\ CreditsOf(pending) = CreditsIn(hand') \cup CreditsOf(pending')
      /\ Apart(pending', kept) /\ CreditsIn(hand') \cap CreditsOf(pending') \subseteq kept
  BY <1>1, <1>2, CreditsTail DEF PayInv, OnceInv
<1>7. CreditsPaid(txs)' = CreditsPaid(txs) /\ HeldCredits' = CreditsIn(hand')
  BY <1>1 DEF HeldCredits, Held
<1>8. AccountInv'
  <2>1. Elsewhere' = Elsewhere
    BY <1>1, <1>5, <1>6, <1>7 DEF Elsewhere
  <2> QED BY <1>1, <2>1 DEF PayInv, AccountInv
<1>9. OnceInv'
  <2>1. Apart(TargetsOf(txs), kept)' /\ Apart(pending, kept)'
    BY <1>1, <1>6 DEF PayInv, OnceInv
  <2> QED BY <1>1, <1>6, <1>7, <2>1 DEF PayInv, OnceInv
<1>10. CoverInv'
  <2>1. Owed(pending) = Amount(hand') + Owed(pending') /\ Amount(hand') \in Nat /\ Owed(pending') \in Nat
    BY <1>1, <1>2, OwedTail, OwedType, AmountType
  <2>2. Committed \in Nat /\ Committed' = Committed
    BY <1>1, TypeFacts DEF PayInv, Committed
  <2>3. Promised' = Promised
    BY <1>1, <2>1, <2>2 DEF Promised
  <2> QED BY <1>1, <2>3, CoverFrame DEF Promising
<1>11. PlanSound'
  BY <1>1 DEF PayInv, PlanSound
<1> QED BY <1>3, <1>4, <1>8, <1>9, <1>10, <1>11 DEF PayInv

\* The wallet has created the transaction, whether or not the loop gets to know.
LEMMA WalletSent ==
  ASSUME PayInv, spc = "send", WalletSends, spc' \in {"confirm", "check"}, hand' \in {hand, <<>>},
         UNCHANGED <<earned, unpaid, pending, cpc, claimed, plan, dropped, kept, strained, funds>>
  PROVE  /\ txs' \in Seq(Tx) /\ hand' \in Payment /\ TargetsOf(txs') = Append(TargetsOf(txs), hand)
         /\ AccountInv' /\ OnceInv' /\ CoverInv' /\ PlanSound'
<1> DEFINE t == [targets |-> hand, state |-> "mempool"]
<1>1. /\ txs \in Seq(Tx) /\ t \in Tx /\ pending \in Seq(Payment) /\ hand \in Payment /\ hand' \in Payment
      /\ Amount(hand) \in Nat /\ Owed(pending) \in Nat /\ Sum(InFlight(txs)) \in Nat /\ Committed = Sum(InFlight(txs))
  BY TypeFacts, CreditsInEmpty DEF PayInv, Tx
<1>2. txs' = Append(txs, t)
  BY DEF WalletSends
<1>3. txs' \in Seq(Tx) /\ TargetsOf(txs') = Append(TargetsOf(txs), hand)
  BY <1>1, <1>2, TargetsAppend
<1>4. TargetsOf(txs) \in Seq(Payment)
  BY <1>1, TargetsType
<1>5. CreditsPaid(txs)' = CreditsPaid(txs) \cup CreditsIn(hand)
  BY <1>1, <1>3, <1>4, CreditsAppend, CreditsPaidIs
<1>6. HeldCredits = CreditsIn(hand) /\ HeldCredits' = {} /\ CreditsIn(hand)' \in {CreditsIn(hand), {}}
  BY CreditsInEmpty DEF HeldCredits, Held
<1>7. AccountInv'
  <2>1. Elsewhere' = Elsewhere
    BY <1>5, <1>6 DEF Elsewhere
  <2> QED BY <2>1 DEF PayInv, AccountInv
<1>8. OnceInv'
  <2>1. Apart(TargetsOf(txs), kept) /\ CreditsOf(TargetsOf(txs)) \cap CreditsIn(hand) \subseteq kept
    BY <1>6, CreditsPaidIs DEF PayInv, OnceInv
  <2>2. Apart(Append(TargetsOf(txs), hand), kept)
    BY <1>1, <1>4, <2>1, CreditsAppend
  <2>3. Apart(TargetsOf(txs), kept)' /\ Apart(pending, kept)'
    BY <1>3, <2>2 DEF PayInv, OnceInv
  <2> QED BY <1>5, <1>6, <2>3 DEF PayInv, OnceInv
<1>9. CoverInv'
  <2>1. Committed' = Committed + Amount(hand)
    <3>1. Sum(InFlight(txs')) = Sum(InFlight(txs)) + InMempool(t)
      BY <1>1, <1>2, InFlightAppend
    <3>2. InMempool(t) = Amount(hand)
      BY DEF InMempool
    <3>3. Committed' = Sum(InFlight(txs'))
      BY DEF Committed, InFlight
    <3> QED BY <1>1, <3>1, <3>2, <3>3
  <2>2. Promised' = Promised
    BY <1>1, <2>1 DEF Promised
  <2> QED BY <2>2, CoverFrame DEF Promising
<1>10. PlanSound'
  BY DEF PayInv, PlanSound
<1> QED BY <1>1, <1>3, <1>7, <1>8, <1>9, <1>10

\* A transaction is sent: what the hand held is in the mempool now.
LEMMA PaySend ==
  ASSUME PayInv, SendPayment
  PROVE  PayInv'
<1>1. /\ spc = "send" /\ WalletSends /\ spc' = "confirm"
      /\ UNCHANGED <<earned, unpaid, readable, cpc, claimed, pending, hand, nodeSynced, walletSynced, funds, fresh,
                     rewards, billed, plan, dropped, kept, strained, faults>>
  BY DEF SendPayment, creator, sync, history
<1>2. /\ txs' \in Seq(Tx) /\ TargetsOf(txs') = Append(TargetsOf(txs), hand)
      /\ AccountInv' /\ OnceInv' /\ CoverInv' /\ PlanSound'
  BY <1>1, WalletSent
<1>3. TypeInv'
  <2>1. txs' \in Seq([targets : Payment, state : {"mempool", "confirmed", "buried"}])
    BY <1>2 DEF Tx
  <2> QED BY <1>1, <2>1 DEF PayInv, TypeInv, TypeOK
<1>4. HandInv'
  <2>1. txs \in Seq(Tx) /\ hand \in Payment
    BY TypeFacts DEF PayInv
  <2>2. TargetsOf(txs) \in Seq(Payment) /\ Len(txs') = Len(TargetsOf(txs')) /\ Len(txs') # 0
    <3>1. TargetsOf(txs) \in Seq(Payment) /\ Len(txs') = Len(TargetsOf(txs'))
      BY <1>2, <2>1, TargetsType
    <3>2. Len(txs') # 0
      BY <1>1, <2>1 DEF WalletSends
    <3> QED BY <3>1, <3>2
  <2>3. TargetsOf(txs')[Len(txs')] = hand
    BY <1>2, <2>1, <2>2
  <2>4. txs' # <<>>
    BY <2>2
  <2> QED BY <1>1, <2>3, <2>4 DEF HandInv
<1> QED BY <1>2, <1>3, <1>4 DEF PayInv

\* The payment is forgotten: dropped, or already with the wallet.
LEMMA PaySendLost ==
  ASSUME PayInv, SendLost
  PROVE  PayInv'
<1>1. /\ spc = "send" /\ spc' = "check" /\ hand' = <<>> /\ faults' = faults + 1 /\ faults < MaxFaults
      /\ UNCHANGED <<earned, unpaid, readable, cpc, claimed, pending, nodeSynced, walletSynced, funds, fresh,
                     rewards, billed, plan, kept, strained>>
  BY DEF SendLost, Fault, creator, sync
<1>2. faults' \in 0..MaxFaults
  BY <1>1, PaymentsAssumption DEF PayInv, TypeInv, TypeOK, PaymentsAssumption
<1>3. HandInv'
  BY <1>1 DEF HandInv
<1>4. CASE WalletSends /\ UNCHANGED dropped
  <2>1. txs' \in Seq(Tx) /\ hand' \in Payment /\ AccountInv' /\ OnceInv' /\ CoverInv' /\ PlanSound'
    BY <1>1, <1>4, WalletSent
  <2>2. TypeInv'
    <3>1. txs' \in Seq([targets : Payment, state : {"mempool", "confirmed", "buried"}])
      BY <2>1 DEF Tx
    <3> QED BY <1>1, <1>2, <1>4, <2>1, <3>1 DEF PayInv, TypeInv, TypeOK
  <2> QED BY <1>3, <2>1, <2>2 DEF PayInv
<1>5. CASE dropped' = dropped \cup CreditsIn(hand) /\ UNCHANGED txs
  <2>1. HeldCredits = CreditsIn(hand) /\ HeldCredits' = {} /\ CreditsIn(hand)' = {} /\ hand' \in Payment
    BY <1>1, CreditsInEmpty DEF HeldCredits, Held
  <2>2. CreditsPaid(txs)' = CreditsPaid(txs)
    BY <1>5
  <2>3. AccountInv'
    <3>1. Elsewhere' = Elsewhere
      BY <1>1, <1>5, <2>1, <2>2 DEF Elsewhere
    <3> QED BY <1>1, <3>1 DEF PayInv, AccountInv
  <2>4. OnceInv'
    <3>1. Apart(TargetsOf(txs), kept)' /\ Apart(pending, kept)'
      BY <1>1, <1>5 DEF PayInv, OnceInv
    <3> QED BY <1>1, <2>1, <2>2, <3>1 DEF PayInv, OnceInv
  <2>5. CoverInv'
    <3>1. /\ Committed' = Committed /\ Owed(pending)' = Owed(pending) /\ Committed \in Nat
          /\ Owed(pending) \in Nat /\ Amount(hand) \in Nat /\ funds \in Nat /\ claimed \in Nat
      BY <1>1, <1>5, TypeFacts DEF PayInv, Committed
    <3>2. Promised' \in Nat /\ Promised \in Nat /\ Promised' <= Promised
      BY <1>1, <3>1 DEF Promised
    <3> QED BY <1>1, <3>2, CoverLess
  <2>6. PlanSound'
    BY <1>1 DEF PayInv, PlanSound
  <2>7. TypeInv'
    <3>1. CreditsIn(hand) \subseteq Credits
      <4>1. hand \in Seq(Target)
        BY DEF PayInv, TypeInv, TypeOK, Payment
      <4>2. \A i \in DOMAIN hand : hand[i] \in Target
        BY <4>1
      <4> QED BY <4>2 DEF CreditsIn, Target
    <3>2. dropped' \subseteq Credits
      BY <1>5, <3>1 DEF PayInv, TypeInv, TypeOK
    <3> QED BY <1>1, <1>2, <1>5, <2>1, <3>2 DEF PayInv, TypeInv, TypeOK
  <2> QED BY <1>3, <2>3, <2>4, <2>5, <2>6, <2>7 DEF PayInv
<1> QED BY <1>4, <1>5 DEF SendLost

\* A payment that was refused goes back to the queue.
LEMMA PayRequeue ==
  ASSUME PayInv, Requeue
  PROVE  PayInv'
<1>1. /\ spc = "backoff" /\ pending' = Append(pending, hand) /\ hand' = <<>> /\ spc' = "check"
      /\ UNCHANGED <<earned, unpaid, readable, cpc, claimed, nodeSynced, walletSynced, funds, fresh, txs, rewards,
                     billed, plan, dropped, kept, strained, faults>>
  BY DEF Requeue, creator, sync, chain, history
<1>2. pending \in Seq(Payment) /\ hand \in Payment /\ pending' \in Seq(Payment) /\ hand' \in Payment
  BY <1>1, TypeFacts, CreditsInEmpty DEF PayInv
<1>3. TypeInv'
  BY <1>1, <1>2 DEF PayInv, TypeInv, TypeOK
<1>4. HandInv'
  BY <1>1 DEF HandInv
<1>5. HeldCredits = CreditsIn(hand) /\ HeldCredits' = {} /\ CreditsIn(hand)' = {}
  BY <1>1, CreditsInEmpty DEF HeldCredits, Held
<1>6. CreditsOf(pending') = CreditsOf(pending) \cup CreditsIn(hand) /\ Apart(pending', kept)
  BY <1>1, <1>2, <1>5, CreditsAppend DEF PayInv, OnceInv
<1>7. CreditsPaid(txs)' = CreditsPaid(txs)
  BY <1>1
<1>8. AccountInv'
  <2>1. Elsewhere' = Elsewhere
    BY <1>1, <1>5, <1>6, <1>7 DEF Elsewhere
  <2> QED BY <1>1, <2>1 DEF PayInv, AccountInv
<1>9. OnceInv'
  <2>1. Apart(TargetsOf(txs), kept)' /\ Apart(pending, kept)'
    BY <1>1, <1>6 DEF PayInv, OnceInv
  <2> QED BY <1>1, <1>5, <1>6, <1>7, <2>1 DEF PayInv, OnceInv
<1>10. CoverInv'
  <2>1. Owed(pending') = Owed(pending) + Amount(hand) /\ Owed(pending) \in Nat /\ Amount(hand) \in Nat
    BY <1>1, <1>2, OwedAppend, OwedType, AmountType
  <2>2. Committed \in Nat /\ Committed' = Committed
    BY <1>1, TypeFacts DEF PayInv, Committed
  <2>3. Promised' = Promised
    BY <1>1, <2>1, <2>2 DEF Promised
  <2> QED BY <1>1, <2>3, CoverFrame DEF Promising
<1>11. PlanSound'
  BY <1>1 DEF PayInv, PlanSound
<1> QED BY <1>3, <1>4, <1>8, <1>9, <1>10, <1>11 DEF PayInv

\* Waiting ends, with a buried transaction or with a failure to ask about it.
LEMMA PayWaited ==
  ASSUME PayInv, PaymentBuried \/ PollFails
  PROVE  PayInv'
<1>1. /\ spc = "confirm" /\ spc' = "check" /\ hand' = <<>>
      /\ UNCHANGED <<earned, unpaid, readable, cpc, claimed, pending, nodeSynced, walletSynced, funds, fresh, txs,
                     rewards, billed, plan, dropped, kept, strained>>
  BY DEF PaymentBuried, PollFails, creator, sync, chain, history
<1>2. faults' \in 0..MaxFaults
  <2>1. faults' = faults \/ (faults' = faults + 1 /\ faults < MaxFaults)
    BY DEF PaymentBuried, PollFails, Fault
  <2> QED BY <2>1, PaymentsAssumption DEF PayInv, TypeInv, TypeOK, PaymentsAssumption
<1>3. TypeInv'
  BY <1>1, <1>2, CreditsInEmpty DEF PayInv, TypeInv, TypeOK
<1>4. HandInv'
  BY <1>1 DEF HandInv
<1>5. HeldCredits = {} /\ HeldCredits' = {} /\ CreditsIn(hand)' = {} /\ CreditsPaid(txs)' = CreditsPaid(txs)
  BY <1>1, CreditsInEmpty DEF HeldCredits, Held
<1>6. CreditsIn(hand) \subseteq CreditsPaid(txs)
  <2>1. txs \in Seq(Tx) /\ txs # <<>> /\ hand = TargetsOf(txs)[Len(txs)]
    BY <1>1, TypeFacts DEF PayInv, HandInv
  <2>2. Len(txs) \in DOMAIN txs
    BY <2>1
  <2> QED BY <2>1, <2>2 DEF CreditsPaid, TargetsOf
<1>7. AccountInv'
  <2>1. Elsewhere' = Elsewhere
    BY <1>1, <1>5, <1>6 DEF Elsewhere
  <2> QED BY <1>1, <2>1 DEF PayInv, AccountInv
<1>8. OnceInv'
  <2>1. Apart(TargetsOf(txs), kept)' /\ Apart(pending, kept)'
    BY <1>1 DEF PayInv, OnceInv
  <2> QED BY <1>1, <1>5, <2>1 DEF PayInv, OnceInv
<1>9. CoverInv'
  <2>1. Promised' = Promised
    BY <1>1 DEF Promised, Committed
  <2> QED BY <1>1, <2>1, CoverFrame DEF Promising
<1>10. PlanSound'
  BY <1>1 DEF PayInv, PlanSound
<1> QED BY <1>3, <1>4, <1>7, <1>8, <1>9, <1>10 DEF PayInv

\* The points are not reset, and remembered as kept.
LEMMA PayClearFails ==
  ASSUME PayInv, ClearFails
  PROVE  PayInv'
<1>1. /\ cpc = "clearing" /\ cpc' = "check" /\ claimed' = 0 /\ kept' = kept \cup unpaid
      /\ faults' = faults + 1 /\ faults < MaxFaults
      /\ UNCHANGED <<earned, unpaid, readable, pending, spc, hand, nodeSynced, walletSynced, funds, fresh, txs,
                     rewards, billed, plan, dropped, strained>>
  BY DEF ClearFails, Fault, submitter, sync, chain
<1>2. faults' \in 0..MaxFaults
  BY <1>1, PaymentsAssumption DEF PayInv, TypeInv, TypeOK, PaymentsAssumption
<1>3. TypeInv'
  BY <1>1, <1>2 DEF PayInv, TypeInv, TypeOK
<1>4. HandInv'
  BY <1>1 DEF PayInv, HandInv
<1>5. HeldCredits' = HeldCredits /\ CreditsPaid(txs)' = CreditsPaid(txs)
  BY <1>1 DEF HeldCredits, Held
<1>6. AccountInv'
  <2>1. Elsewhere' = Elsewhere
    BY <1>1, <1>5 DEF Elsewhere
  <2> QED BY <1>1, <2>1 DEF PayInv, AccountInv
<1>7. OnceInv'
  <2>1. Apart(TargetsOf(txs), kept)' /\ Apart(pending, kept)'
    BY <1>1 DEF PayInv, OnceInv, Apart
  <2> QED BY <1>1, <1>5, <2>1 DEF PayInv, OnceInv
<1>8. CoverInv'
  <2>1. Promised' = Promised /\ Promised \in Nat
    BY <1>1, TypeFacts DEF PayInv, Promised, Committed
  <2> QED BY <1>1, <2>1, CoverLess
<1>9. PlanSound'
  BY <1>1 DEF PayInv, PlanSound
<1> QED BY <1>3, <1>4, <1>6, <1>7, <1>8, <1>9 DEF PayInv

\* Queue and hand are gone; what was in them is dropped, or in a transaction.
LEMMA PayCrash ==
  ASSUME PayInv, Crash
  PROVE  PayInv'
<1>1. /\ cpc' = "check" /\ claimed' = 0 /\ spc' = "check" /\ hand' = <<>> /\ pending' = <<>>
      /\ dropped' = dropped \cup CreditsOf(pending) \cup (IF spc = "confirm" THEN {} ELSE CreditsIn(hand))
      /\ kept' = kept \cup (IF cpc = "clearing" THEN unpaid ELSE {})
      /\ faults' = faults + 1 /\ faults < MaxFaults
      /\ UNCHANGED <<earned, unpaid, readable, nodeSynced, walletSynced, funds, fresh, txs, rewards, billed, plan, strained>>
  BY DEF Crash, Fault, sync, chain
<1>2. faults' \in 0..MaxFaults
  BY <1>1, PaymentsAssumption DEF PayInv, TypeInv, TypeOK, PaymentsAssumption
<1>3. txs \in Seq(Tx) /\ pending \in Seq(Payment) /\ hand \in Payment
  BY TypeFacts DEF PayInv
<1>4. ASSUME NEW p \in Payment PROVE CreditsIn(p) \subseteq Credits
  <2>1. p \in Seq(Target)
    BY DEF Payment
  <2>2. \A i \in DOMAIN p : p[i] \in Target
    BY <2>1
  <2> QED BY <2>2 DEF CreditsIn, Target
<1>5. TypeInv'
  <2>1. CreditsOf(pending) \subseteq Credits
    BY <1>3, <1>4 DEF CreditsOf
  <2>2. dropped' \subseteq Credits /\ kept' \subseteq Credits
    BY <1>1, <1>3, <1>4, <2>1 DEF PayInv, TypeInv, TypeOK
  <2>3. pending' \in Seq(Payment) /\ hand' \in Payment
    BY <1>1, CreditsInEmpty
  <2> QED BY <1>1, <1>2, <2>2, <2>3 DEF PayInv, TypeInv, TypeOK
<1>6. HandInv'
  BY <1>1 DEF HandInv
<1>7. /\ HeldCredits' = {} /\ CreditsIn(hand)' = {} /\ CreditsOf(pending)' = {}
      /\ CreditsPaid(txs)' = CreditsPaid(txs)
  BY <1>1, CreditsInEmpty DEF HeldCredits, Held
<1>8. spc = "confirm" => CreditsIn(hand) \subseteq CreditsPaid(txs)
  <2> SUFFICES ASSUME spc = "confirm" PROVE CreditsIn(hand) \subseteq CreditsPaid(txs)
    OBVIOUS
  <2>1. txs # <<>> /\ hand = TargetsOf(txs)[Len(txs)]
    BY DEF PayInv, HandInv
  <2>2. Len(txs) \in DOMAIN txs
    BY <2>1, <1>3
  <2> QED BY <2>1, <2>2 DEF CreditsPaid, TargetsOf
<1>9. AccountInv'
  <2>1. Elsewhere' = Elsewhere
    BY <1>1, <1>7, <1>8 DEF Elsewhere
  <2> QED BY <1>1, <2>1 DEF PayInv, AccountInv
<1>10. OnceInv'
  <2>1. kept \subseteq kept'
    BY <1>1
  <2>2. Apart(TargetsOf(txs), kept)'
    BY <1>1, <2>1 DEF PayInv, OnceInv, Apart
  <2>3. Apart(pending, kept)'
    BY <1>1 DEF Apart
  <2>4. (unpaid \cap CreditsPaid(txs)) \subseteq kept'
    BY <1>1 DEF PayInv, OnceInv
  <2> QED BY <1>1, <1>7, <2>2, <2>3, <2>4 DEF PayInv, OnceInv
<1>11. CoverInv'
  <2>1. Promised' = Committed
    <3>1. Owed(pending') = 0 /\ Committed' = Committed
      BY <1>1, OwedEmpty DEF Committed
    <3>2. Committed \in Nat
      BY TypeFacts DEF PayInv
    <3> QED BY <1>1, <3>1, <3>2 DEF Promised
  <2>2. Promised' \in Nat /\ Promised' <= Promised
    BY <2>1, TypeFacts DEF PayInv, Promised
  <2> QED BY <1>1, <2>2, CoverLess
<1>12. PlanSound'
  BY <1>1 DEF PayInv, PlanSound
<1> QED BY <1>5, <1>6, <1>9, <1>10, <1>11, <1>12 DEF PayInv

------------------------------------------------------------------------------
(* Node, wallet and chain, and the steps that are about neither credits nor *)
(* promises.                                                               *)

\* No credit moves; funds only grow, or strain the promises.
LEMMA PayQuiet ==
  ASSUME PayInv,
         CheckSync \/ SendRefused \/ UnreadableInstructions \/ LosesSync \/ RegainsSync \/ RewardsBuried
           \/ RewardArrives \/ RewardsReorged
  PROVE  PayInv'
<1>1. /\ UNCHANGED <<earned, unpaid, pending, hand, cpc, claimed, txs, billed, plan, dropped, kept>>
      /\ spc' = spc \/ (spc = "check" /\ spc' = "get") \/ (spc = "send" /\ spc' = "backoff")
  BY DEF CheckSync, SendRefused, UnreadableInstructions, LosesSync, RegainsSync, RewardsBuried, RewardArrives,
         RewardsReorged, creator, submitter, sync, chain, history
<1>2. readable' \in BOOLEAN /\ nodeSynced' \in BOOLEAN /\ walletSynced' \in BOOLEAN /\ strained' \in BOOLEAN
  BY DEF CheckSync, SendRefused, UnreadableInstructions, LosesSync, RegainsSync, RewardsBuried, RewardArrives,
         RewardsReorged, sync, chain, history, PayInv, TypeInv, TypeOK
<1>3. faults' \in 0..MaxFaults
  <2>1. faults' = faults \/ (faults' = faults + 1 /\ faults < MaxFaults)
    BY DEF CheckSync, SendRefused, UnreadableInstructions, LosesSync, RegainsSync, RewardsBuried, RewardArrives,
           RewardsReorged, Fault
  <2> QED BY <2>1, PaymentsAssumption DEF PayInv, TypeInv, TypeOK, PaymentsAssumption
<1>4. /\ Promised' = Promised /\ Promising' = Promising /\ Promised \in Nat /\ claimed \in Nat
      /\ Promised <= Promising /\ Promising <= Promised + claimed
  <2>1. Held' = Held /\ (spc \in {"send", "backoff"})' = (spc \in {"send", "backoff"})
    BY <1>1 DEF Held
  <2>2. Promised' = Promised /\ Promised \in Nat /\ claimed \in Nat
    BY <1>1, <2>1, TypeFacts DEF PayInv, Promised, Committed
  <2> QED BY <1>1, <2>2 DEF Promising
<1>5. rewards' \in 0..MaxRewards /\ funds' \in Nat /\ fresh' \in 0..funds' /\ CoverInv'
  <2>1. /\ funds \in Nat /\ fresh \in Nat /\ fresh <= funds /\ Promising \in Nat /\ Reward \in Nat /\ MaxRewards \in Nat
        /\ rewards \in 0..MaxRewards
    BY TypeFacts, PaymentsAssumption DEF PayInv, TypeInv, TypeOK, PaymentsAssumption
  <2>2. CASE UNCHANGED <<funds, rewards, strained>> /\ (fresh' = fresh \/ fresh' = 0)
    BY <1>4, <2>1, <2>2, CoverFrame
  <2>3. CASE RewardArrives
    <3>1. rewards' = rewards + 1 /\ rewards < MaxRewards /\ funds' = funds + Reward /\ fresh' = fresh + Reward
          /\ strained' = strained
      BY <2>3 DEF RewardArrives, history
    <3>2. CoverInv'
      BY <1>4, <2>1, <3>1 DEF PayInv, CoverInv
    <3> QED BY <2>1, <3>1, <3>2
  <2>4. CASE RewardsReorged
    <3>1. rewards' = rewards /\ funds' = funds - fresh /\ fresh' = 0
          /\ strained' = (strained \/ Promised + claimed > funds')
      BY <2>4 DEF RewardsReorged
    <3>2. Promised + claimed > funds' \/ Promising' <= funds'
      BY <1>4, <2>1, <3>1
    <3>3. CoverInv'
      <4>1. strained' \/ ~ (Promised + claimed > funds')
        BY <3>1
      <4> QED BY <3>2, <4>1 DEF CoverInv
    <3> QED BY <2>1, <3>1, <3>3
  <2>5. (UNCHANGED <<funds, rewards, strained>> /\ (fresh' = fresh \/ fresh' = 0)) \/ RewardArrives \/ RewardsReorged
    BY DEF CheckSync, SendRefused, UnreadableInstructions, LosesSync, RegainsSync, RewardsBuried, chain, history
  <2> QED BY <2>2, <2>3, <2>4, <2>5
<1>6. TypeInv'
  <2>1. spc' \in {"check", "get", "send", "backoff", "confirm"}
    BY <1>1 DEF PayInv, TypeInv, TypeOK
  <2> QED BY <1>1, <1>2, <1>3, <1>5, <2>1 DEF PayInv, TypeInv, TypeOK
<1>7. HandInv'
  BY <1>1 DEF PayInv, HandInv
<1>8. AccountInv' /\ OnceInv' /\ PlanSound'
  <2>1. UNCHANGED <<HeldCredits, CreditsIn(hand), TargetsOf(txs)>>
    BY <1>1 DEF HeldCredits, Held
  <2> QED BY <1>1, <2>1, BooksFrame
<1> QED BY <1>5, <1>6, <1>7, <1>8 DEF PayInv

\* A transaction that changes its state pays what it paid before.
LEMMA PayTx ==
  ASSUME PayInv, NEW i \in DOMAIN txs, TxConfirmed(i) \/ TxReorged(i) \/ TxBuried(i)
  PROVE  PayInv'
<1>1. UNCHANGED <<earned, unpaid, readable, cpc, claimed, pending, spc, hand, nodeSynced, walletSynced, rewards,
                  billed, plan, dropped, kept, strained>>
  BY DEF TxConfirmed, TxReorged, TxBuried, creator, submitter, sync, history
<1>2. txs \in Seq(Tx) /\ funds \in Nat /\ fresh \in Nat /\ fresh <= funds /\ Committed = Sum(InFlight(txs)) /\ Committed \in Nat
  BY TypeFacts DEF PayInv
<1>3. faults' \in 0..MaxFaults
  <2>1. faults' = faults \/ (faults' = faults + 1 /\ faults < MaxFaults)
    BY DEF TxConfirmed, TxReorged, TxBuried, Fault
  <2> QED BY <2>1, PaymentsAssumption DEF PayInv, TypeInv, TypeOK, PaymentsAssumption
<1>4. PICK s \in {"mempool", "confirmed", "buried"} : txs' = [txs EXCEPT ![i].state = s]
  BY DEF TxConfirmed, TxReorged, TxBuried
<1>5. /\ txs' \in Seq(Tx) /\ DOMAIN txs' = DOMAIN txs /\ Len(txs') = Len(txs)
      /\ \A j \in DOMAIN txs : txs'[j].targets = txs[j].targets
      /\ txs'[i].state = s
      /\ Sum(InFlight(txs')) + InMempool(txs[i]) = Sum(InFlight(txs)) + InMempool(txs'[i])
      /\ InMempool(txs[i]) <= Sum(InFlight(txs))
  <2>1. Moved(txs', txs, i, s)
    BY <1>4 DEF Moved
  <2> QED BY <2>1, <1>2, InFlightChange
<1>6. TargetsOf(txs') = TargetsOf(txs)
  BY <1>5 DEF TargetsOf
<1>7. Amount(txs[i].targets) \in Nat
  <2>1. txs[i].targets \in Payment
    <3>1. txs[i] \in Tx
      BY <1>2
    <3> QED BY <3>1 DEF Tx
  <2> QED BY <2>1, AmountType
<1>8. Committed' = Sum(InFlight(txs'))
  BY DEF Committed, InFlight
<1> DEFINE a == Amount(txs[i].targets)
<1>9. \/ funds' = funds - a /\ a <= funds /\ Committed' + a = Committed
         /\ fresh' = (IF fresh <= funds' THEN fresh ELSE funds')
      \/ funds' = funds + a /\ Committed' = Committed + a /\ fresh' = fresh
      \/ funds' = funds /\ Committed' = Committed /\ fresh' = fresh
  <2>1. /\ InMempool(txs[i]) = IF txs[i].state = "mempool" THEN a ELSE 0
        /\ InMempool(txs'[i]) = IF s = "mempool" THEN a ELSE 0
    BY <1>5 DEF InMempool
  <2>2. CASE TxConfirmed(i)
    <3>1. txs[i].state = "mempool" /\ s # "mempool" /\ a <= funds /\ funds' = funds - a
          /\ fresh' = (IF fresh <= funds' THEN fresh ELSE funds')
      <4>1. Moved(txs', txs, i, "confirmed")
        BY <2>2 DEF TxConfirmed, Moved
      <4>2. txs'[i].state = "confirmed"
        BY <1>2, <4>1, InFlightChange
      <4> QED BY <2>2, <4>2, <1>5 DEF TxConfirmed
    <3> HIDE DEF a
    <3> QED BY <3>1, <2>1, <1>2, <1>5, <1>7, <1>8 DEF a
  <2>3. CASE TxReorged(i)
    <3>1. txs[i].state # "mempool" /\ s = "mempool" /\ funds' = funds + a /\ fresh' = fresh
      <4>1. Moved(txs', txs, i, "mempool")
        BY <2>3 DEF TxReorged, Moved
      <4>2. txs'[i].state = "mempool"
        BY <1>2, <4>1, InFlightChange
      <4> QED BY <2>3, <4>2, <1>5 DEF TxReorged
    <3> QED BY <3>1, <2>1, <1>2, <1>5, <1>7, <1>8
  <2>4. CASE TxBuried(i)
    <3>1. txs[i].state # "mempool" /\ s # "mempool" /\ funds' = funds /\ fresh' = fresh
      <4>1. Moved(txs', txs, i, "buried")
        BY <2>4 DEF TxBuried, Moved
      <4>2. txs'[i].state = "buried"
        BY <1>2, <4>1, InFlightChange
      <4> QED BY <2>4, <4>2, <1>5 DEF TxBuried
    <3>2. Committed' + 0 = Committed + 0 /\ Committed' \in Nat
      BY <3>1, <2>1, <1>2, <1>5, <1>8, InFlightType
    <3> QED BY <3>1, <3>2, <1>2
  <2> QED BY <2>2, <2>3, <2>4
<1>10. Committed' \in Nat
  BY <1>5, <1>8, InFlightType
<1> HIDE DEF a
<1>11. a \in Nat
  BY <1>7 DEF a
<1>12. funds' \in Nat /\ fresh' \in 0..funds'
  BY <1>2, <1>9, <1>11
<1>13. TypeInv'
  <2>1. txs' \in Seq([targets : Payment, state : {"mempool", "confirmed", "buried"}])
    BY <1>5 DEF Tx
  <2> QED BY <1>1, <1>3, <1>12, <2>1 DEF PayInv, TypeInv, TypeOK
<1>14. HandInv'
  <2>1. txs # <<>> => txs' # <<>>
    BY <1>2, <1>5
  <2> QED BY <1>1, <1>5, <1>6, <2>1 DEF PayInv, HandInv
<1>15. AccountInv' /\ OnceInv' /\ PlanSound'
  <2>1. UNCHANGED <<HeldCredits, CreditsIn(hand), TargetsOf(txs)>>
    BY <1>1, <1>6 DEF HeldCredits, Held
  <2> QED BY <1>1, <2>1, BooksFrame
<1>16. CoverInv'
  <2> DEFINE other == Owed(pending) + (IF spc \in {"send", "backoff"} THEN Amount(hand) ELSE 0)
             next == IF cpc \in {"lockwait", "reading"} THEN claimed ELSE 0
  <2>1. other \in Nat /\ next \in Nat
    BY TypeFacts DEF PayInv
  <2>2. Promising = (other + Committed) + next
    BY DEF Promising, Promised
  <2>3. Promising' = (other + Committed') + next
    BY <1>1 DEF Promising, Promised
  <2> HIDE DEF other, next
  <2>4. strained \/ Promising <= funds
    BY DEF PayInv, CoverInv
  <2>5. ASSUME Promising <= funds PROVE Promising' <= funds'
    <3> DEFINE k == Committed
               l == Committed'
    <3>1. k \in Nat /\ l \in Nat /\ funds \in Nat /\ (other + k) + next <= funds
      BY <2>2, <2>5, <1>2, <1>10
    <3>2. \/ funds' = funds - a /\ l + a = k
          \/ funds' = funds + a /\ l = k + a
          \/ funds' = funds /\ l = k
      BY <1>9
    <3> HIDE DEF k, l
    <3>3. (other + l) + next <= funds'
      BY <3>1, <3>2, <2>1, <1>11
    <3> QED BY <3>3, <2>3 DEF l
  <2> QED BY <2>4, <2>5, <1>1 DEF CoverInv
<1> QED BY <1>13, <1>14, <1>15, <1>16 DEF PayInv

\* Every step preserves the invariant.
LEMMA NextPay == PayInv /\ [Next]_vars => PayInv'
<1> SUFFICES ASSUME PayInv, [Next]_vars PROVE PayInv'
  OBVIOUS
<1>1. ASSUME NEW c \in Credits, EarnCredit(c) PROVE PayInv'
  BY <1>1, PayEarn
<1>2. CASE Create
  BY <1>2, PayCreate, PayPut, PayClear DEF Create
<1>3. CASE Submit
  BY <1>3, PayQuiet, PayGet, PaySend, PayRequeue, PayWaited DEF Submit
<1>4. CASE Failure
  BY <1>4, PaySendLost, PayWaited, PayClearFails, PayCrash, PayQuiet DEF Failure
<1>5. CASE Chain
  BY <1>5, PayQuiet, PayTx DEF Chain
<1>6. CASE UNCHANGED vars
  <2>1. UNCHANGED <<earned, unpaid, readable, cpc, claimed, pending, spc, hand, nodeSynced, walletSynced, funds, fresh,
                    txs, rewards, billed, plan, dropped, kept, strained, faults>>
    BY <1>6 DEF vars, creator, submitter, sync, chain, history
  <2>2. TypeInv' /\ HandInv'
    BY <2>1 DEF PayInv, TypeInv, TypeOK, HandInv
  <2>3. AccountInv' /\ OnceInv' /\ PlanSound'
    <3>1. UNCHANGED <<HeldCredits, CreditsIn(hand), TargetsOf(txs)>>
      BY <2>1 DEF HeldCredits, Held
    <3> QED BY <2>1, <3>1, BooksFrame
  <2>4. CoverInv'
    <3>1. Promising' = Promising
      BY <2>1 DEF Promising, Promised, Committed
    <3> QED BY <2>1, <3>1, CoverFrame
  <2> QED BY <2>2, <2>3, <2>4 DEF PayInv
<1> QED BY <1>1, <1>2, <1>3, <1>4, <1>5, <1>6 DEF Next
------------------------------------------------------------------------------
(* The theorems.                                                           *)

\* The invariant that carries the theorems: where each credit is, what is
\* promised, and that the plan was sound.
THEOREM PayInvariance == Spec => []PayInv
<1>1. Init => PayInv
  BY InitPay
<1>2. PayInv /\ [Next]_vars => PayInv'
  BY NextPay
<1> QED BY <1>1, <1>2, PTL DEF Spec

\* The variables keep their types.
THEOREM PaymentsTypeCorrect == Spec => []TypeOK
<1>1. PayInv => TypeOK
  BY DEF PayInv, TypeInv
<1> QED BY <1>1, PayInvariance, PTL

\* Two transactions pay for the same credit only if a failure of
\* clear_farmer_points, or a restart just before it, kept its points.
THEOREM NeverPaidTwice == Spec => []PaidTwiceOnlyIfKept
<1>1. PayInv => PaidTwiceOnlyIfKept
  <2> SUFFICES ASSUME PayInv, NEW c \in Credits, NEW i \in DOMAIN txs, NEW j \in DOMAIN txs, i # j,
                      c \in CreditsIn(txs[i].targets), c \in CreditsIn(txs[j].targets)
               PROVE  c \in kept
    BY DEF PaidTwiceOnlyIfKept, PaidTwice
  <2>1. Apart(TargetsOf(txs), kept)
    BY DEF PayInv, OnceInv
  <2>2. txs \in Seq(Tx)
    BY TypeFacts DEF PayInv
  <2>3. DOMAIN TargetsOf(txs) = DOMAIN txs /\ TargetsOf(txs)[i] = txs[i].targets /\ TargetsOf(txs)[j] = txs[j].targets
    BY <2>2, TargetsType
  <2> QED BY <2>1, <2>3 DEF Apart
<1> QED BY <1>1, PayInvariance, PTL

\* No credit is lost between the store, the queue, the hands of submit_payment_loop
\* and the transactions, but for those that were dropped.
THEOREM CreditsAlwaysAccounted == Spec => []EveryCreditAccounted
<1>1. PayInv => EveryCreditAccounted
  BY DEF PayInv, AccountInv, Elsewhere, EveryCreditAccounted, CreditsPaid
<1> QED BY <1>1, PayInvariance, PTL

\* What create_payment_loop promises stays within the coins it was made from.
THEOREM PromisesAlwaysCovered == Spec => []PromisesCovered
<1>1. PayInv => PromisesCovered
  <2> SUFFICES ASSUME PayInv, ~strained PROVE Promised <= funds
    BY DEF PromisesCovered
  <2>1. Promising <= funds /\ Promised \in Nat /\ claimed \in Nat /\ funds \in Nat /\ Promising \in Nat
    BY TypeFacts DEF PayInv, CoverInv
  <2>2. Promised <= Promising
    BY <2>1 DEF Promising
  <2> QED BY <2>1, <2>2
<1> QED BY <1>1, PayInvariance, PTL

\* Every plan of a payout pays each credit it takes up once, in sub-lists within
\* the limit, and no more than the amount it was made from.
THEOREM PlansAlwaysSound == Spec => []PlanSound
<1>1. PayInv => PlanSound
  BY DEF PayInv
<1> QED BY <1>1, PayInvariance, PTL

\* Only the transaction that submit_payment_loop waits for is not buried.
LastInv == \A i \in DOMAIN txs : txs[i].state # "buried" => spc = "confirm" /\ i = Len(txs)

\* Without the failures that forget what was sent, every step keeps that so.
LEMMA NextLast ==
  ASSUME Faults \cap {"send", "poll", "crash", "reorg"} = {}, PayInv, LastInv, [Next]_vars
  PROVE  LastInv'
<1>1. txs \in Seq(Tx)
  BY TypeFacts DEF PayInv
<1>2. CASE SendPayment
  <2> DEFINE t == [targets |-> hand, state |-> "mempool"]
  <2>1. spc = "send" /\ spc' = "confirm" /\ txs' = Append(txs, t)
    BY <1>2 DEF SendPayment, WalletSends
  <2>2. \A i \in DOMAIN txs : txs[i].state = "buried"
    BY <2>1 DEF LastInv
  <2> HIDE DEF t
  <2>3. /\ Len(txs') = Len(txs) + 1
        /\ \A i \in DOMAIN txs' : i # Len(txs') => i \in DOMAIN txs /\ txs'[i] = txs[i]
    BY <1>1, <2>1
  <2> QED BY <2>1, <2>2, <2>3 DEF LastInv
<1>3. CASE PaymentBuried
  <2>1. spc = "confirm" /\ Last(txs).state = "buried" /\ txs' = txs
    BY <1>3 DEF PaymentBuried, chain
  <2>2. \A i \in DOMAIN txs : txs[i].state = "buried"
    BY <2>1 DEF LastInv, Last
  <2> QED BY <2>1, <2>2 DEF LastInv
<1>4. ASSUME NEW i \in DOMAIN txs, TxConfirmed(i) \/ TxBuried(i) PROVE LastInv'
  <2>1. spc' = spc /\ txs[i].state # "buried"
    BY <1>4 DEF TxConfirmed, TxBuried, submitter
  <2>2. spc = "confirm" /\ i = Len(txs)
    BY <2>1 DEF LastInv
  <2>3. PICK s \in {"mempool", "confirmed", "buried"} : Moved(txs', txs, i, s)
    BY <1>4 DEF TxConfirmed, TxBuried, Moved
  <2>4. DOMAIN txs' = DOMAIN txs /\ Len(txs') = Len(txs) /\ \A j \in DOMAIN txs : j # i => txs'[j] = txs[j]
    BY <1>1, <2>3, InFlightChange
  <2> QED BY <2>1, <2>2, <2>4 DEF LastInv
<1>5. ~ SendLost /\ ~ PollFails /\ ~ Crash /\ ~ RewardsReorged /\ \A i \in DOMAIN txs : ~ TxReorged(i)
  BY DEF SendLost, PollFails, Crash, RewardsReorged, TxReorged, Fault
<1>6. CASE (\E c \in Credits : EarnCredit(c)) \/ Create
  BY <1>6 DEF EarnCredit, Create, CheckQueue, GetCoins, TakeLock, PutPayments, ClearPoints, submitter, chain, LastInv
<1>7. CASE CheckSync \/ GetPayment \/ SendRefused \/ Requeue
  <2>1. spc # "confirm" /\ txs' = txs
    BY <1>7 DEF CheckSync, GetPayment, SendRefused, Requeue, chain
  <2> QED BY <2>1 DEF LastInv
<1>8. CASE ClearFails \/ UnreadableInstructions \/ LosesSync \/ RegainsSync \/ RewardArrives \/ RewardsBuried
  BY <1>8 DEF ClearFails, UnreadableInstructions, LosesSync, RegainsSync, RewardArrives, RewardsBuried, submitter,
              chain, LastInv
<1>9. CASE UNCHANGED vars
  BY <1>9 DEF vars, submitter, chain, LastInv
<1> QED BY <1>2, <1>3, <1>4, <1>5, <1>6, <1>7, <1>8, <1>9 DEF Next, Submit, Failure, Chain

\* The loop gives the wallet one transaction at a time, as long as no restart, no
\* error of the wallet or of the poll makes it forget one, and no reorg takes one back.
THEOREM AlwaysOneTransaction ==
  ASSUME Faults \cap {"send", "poll", "crash", "reorg"} = {}
  PROVE  Spec => []OneTransactionAtATime
<1>1. Init => LastInv
  BY DEF Init, LastInv
<1>2. PayInv /\ LastInv /\ [Next]_vars => LastInv'
  BY NextLast
<1>3. LastInv => OneTransactionAtATime
  <2> SUFFICES ASSUME LastInv PROVE Cardinality(Unburied) <= 1
    BY DEF OneTransactionAtATime
  <2>1. Unburied \subseteq {Len(txs)}
    BY DEF LastInv, Unburied
  <2>2. IsFiniteSet({Len(txs)}) /\ Cardinality({Len(txs)}) = 1
    BY FS_Singleton
  <2> QED BY <2>1, <2>2, FS_Subset
<1> QED BY <1>1, <1>2, <1>3, PayInvariance, PTL DEF Spec
==============================================================================
