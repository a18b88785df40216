------------------------------- MODULE Payments -------------------------------
(***************************************************************************)
(* From points to coins: create_payment_loop plans a payout and puts it on *)
(* the queue pending_payments, submit_payment_loop takes one transaction   *)
(* at a time from the queue, has the wallet send it and waits until it is  *)
(* buried.  Full node, wallet and chain are external.                      *)
(*                                                                         *)
(* A step is the code between two awaits that can suspend.  The sleeps of  *)
(* the loops are not timed: a loop that sleeps has merely not yet taken    *)
(* its next step.  Points are the sets of credits they are the sum of.     *)
(***************************************************************************)
EXTENDS Naturals, Sequences, FiniteSets, SequencesExt, Sums

CONSTANTS
  Credits,       \* the partials that are credited in a behaviour
  Weight,        \* Weight[c]: the points of credit c
  Owner,         \* Owner[c]: the farmer who earns credit c
  FarmerRows,    \* the rows of table farmer, in the order SELECT returns them
  PayTo,         \* PayTo[f]: the puzzle hash in f's payout instructions
  PoolAddress,   \* pool_fee_puzzle_hash
  Reward,        \* mojos of one absorbed block reward
  MinPayout,     \* calculate_pool_reward(1): no payout below this amount
  PoolFeePercent,  \* 100 * pool_fee
  MaxAdditions,  \* config max_additions_per_transaction
  MaxRewards,    \* bound on absorbed rewards
  Faults,        \* the kinds of failure that may happen, see FaultKinds
  MaxFaults      \* bound on the number of failures

\* send:   send_transaction_multi raises something other than ValueError
\* wallet: send_transaction_multi raises ValueError although funds suffice
\* poll:   get_transaction raises
\* clear:  clear_farmer_points raises
\* crash:  the process is restarted
\* reorg:  coins or transactions that are not buried leave the chain
\* sync:   node or wallet are out of sync for a while
\* format: a farmer's payout instructions cannot be read by the payout
FaultKinds == {"send", "wallet", "poll", "clear", "crash", "reorg", "sync", "format"}

\* Credits belong to farmers of the table and are worth something; a transaction has
\* room for the pool's fee and one farmer.
ASSUME PaymentsAssumption ==
  /\ Faults \subseteq FaultKinds /\ MaxFaults \in Nat
  /\ FarmerRows \in Seq(ToSet(FarmerRows)) /\ Owner \in [Credits -> ToSet(FarmerRows)]
  /\ Weight \in [Credits -> Nat \ {0}]
  /\ Reward \in Nat \ {0} /\ MinPayout \in Nat \ {0} /\ MaxRewards \in Nat
  /\ PoolFeePercent \in 0..99
  /\ MaxAdditions \in Nat /\ MaxAdditions >= 2

VARIABLES
  earned,     \* history: credits earned so far
  unpaid,     \* store: the credits in the points columns
  readable,   \* store: every row's payout_instructions is plain hex
  cpc,        \* where create_payment_loop is
  claimed,    \* total_amount_claimed as the loop has read it
  pending,    \* pending_payments: a queue of transactions to make
  spc,        \* where submit_payment_loop is
  hand,       \* payment_targets of submit_payment_loop
  nodeSynced, \* blockchain_state["sync"]["synced"]
  walletSynced,
  funds,      \* unspent mojos at the pool's target address
  fresh,      \* the part of funds that is not buried yet
  txs,        \* the transactions the wallet has created, oldest first
  rewards,    \* history: rewards absorbed so far
  billed,     \* history: credits that were put on pending_payments
  plan,       \* history: the last plan and the amount it was made from
  dropped,    \* history: credits whose payment the process has forgotten
  strained,   \* history: money was promised twice, or taken away by a reorg
  kept,       \* history: credits whose points outlived the queueing of their payment
  faults      \* history: number of failures

creator == <<cpc, claimed>>
submitter == <<spc, hand>>
sync == <<nodeSynced, walletSynced>>
chain == <<funds, fresh, txs, rewards>>
history == <<billed, plan, dropped, kept, strained>>
vars == <<earned, unpaid, readable, creator, pending, submitter, sync, chain, history, faults>>

Target == [to : {PayTo[f] : f \in ToSet(FarmerRows)} \cup {PoolAddress}, amount : Nat, credits : SUBSET Credits]
Payment == Seq(Target)

TypeOK ==
  /\ earned \subseteq Credits /\ unpaid \subseteq Credits /\ readable \in BOOLEAN
  /\ cpc \in {"check", "coins", "lockwait", "reading", "clearing"}
  /\ claimed \in Nat
  /\ pending \in Seq(Payment)
  /\ spc \in {"check", "get", "send", "backoff", "confirm"}
  /\ hand \in Payment
  /\ nodeSynced \in BOOLEAN /\ walletSynced \in BOOLEAN
  /\ funds \in Nat /\ fresh \in 0..funds
  /\ txs \in Seq([targets : Payment, state : {"mempool", "confirmed", "buried"}])
  /\ rewards \in 0..MaxRewards
  /\ billed \subseteq Credits /\ dropped \subseteq Credits /\ kept \subseteq Credits /\ strained \in BOOLEAN
  /\ plan \in [claimed : Nat, payments : Seq(Payment)]
  /\ faults \in 0..MaxFaults

------------------------------------------------------------------------------
(* The plan of a payout.                                                   *)

Points(S) == SumOver(Weight, S)
CreditsTo(a, S) == {c \in S : PayTo[Owner[c]] = a}

Amounts(targets) == [i \in DOMAIN targets |-> targets[i].amount]
Amount(targets) == Sum(Amounts(targets))
CreditsIn(targets) == UNION {targets[i].credits : i \in DOMAIN targets}

\* The same of a list of payments.
Owed(payments) == Sum([p \in DOMAIN payments |-> Amount(payments[p])])
CreditsOf(payments) == UNION {CreditsIn(payments[p]) : p \in DOMAIN payments}

InMempool(tx) == IF tx.state = "mempool" THEN Amount(tx.targets) ELSE 0
Committed == Sum([i \in DOMAIN txs |-> InMempool(txs[i])])

\* What is to be paid from the pool's coins: payments on the queue, in the hands
\* of submit_payment_loop and in the mempool.
Promised ==
  Owed(pending) + (IF spc \in {"send", "backoff"} THEN Amount(hand) ELSE 0) + Committed

Unburied == {i \in DOMAIN txs : txs[i].state # "buried"}

\* get_farmer_points_and_payout_instructions: one entry per puzzle hash, in the
\* order of first appearance.  Farmers without points are left out.
Addresses == {PayTo[Owner[c]] : c \in unpaid}

IsFirstRow(i, a) ==
  PayTo[FarmerRows[i]] = a /\ \A j \in DOMAIN FarmerRows : PayTo[FarmerRows[j]] = a => i <= j
FirstRow(a) == CHOOSE i \in DOMAIN FarmerRows : IsFirstRow(i, a)

AddressOrder ==
  CHOOSE order \in [1..Cardinality(Addresses) -> Addresses] :
    /\ \A a \in Addresses : \E k \in DOMAIN order : order[k] = a
    /\ \A j, k \in DOMAIN order : j < k => FirstRow(order[j]) < FirstRow(order[k])

\* Mutant: the fee is paid on top of the points instead of out of the total.
MojoPerPointOfAll(total) == total \div Points(unpaid)

\* Mutant: the fee is a percentage, and is used as if it were a fraction.
MojoPerPointWholeFee(total) == (total - total * PoolFeePercent) \div Points(unpaid)

MojoPerPoint(total) == (total - (total * PoolFeePercent) \div 100) \div Points(unpaid)

PoolFee(total) == [to |-> PoolAddress, amount |-> (total * PoolFeePercent) \div 100, credits |-> {}]

Additions(total) ==
  <<PoolFee(total)>> \o
    [k \in DOMAIN AddressOrder |->
       LET mine == CreditsTo(AddressOrder[k], unpaid)
       IN  [to |-> AddressOrder[k], amount |-> Points(mine) * MojoPerPoint(total), credits |-> mine]]

\* additions_sub_list is cut off whenever it has MaxAdditions entries; the first
\* one starts with the pool's fee.
Cut(n, p) == IF p * MaxAdditions <= n THEN p * MaxAdditions ELSE n
InSubLists(list) ==
  [p \in 1..((Len(list) + MaxAdditions - 1) \div MaxAdditions) |->
     SubSeq(list, Cut(Len(list), p - 1) + 1, Cut(Len(list), p))]

PlanPayments(total) == InSubLists(Additions(total))

------------------------------------------------------------------------------
(* create_payment_loop, and the credits that compete with it for the lock. *)

\* Mutant: points are added and cleared without the store's lock.
NoLock == TRUE

LockFree == cpc \notin {"reading", "clearing"}

\* check_and_confirm_partial adds points while it holds the store's lock.
EarnCredit(c) ==
  /\ c \notin earned
  /\ LockFree
  /\ earned' = earned \cup {c}
  /\ unpaid' = unpaid \cup {c}
  /\ UNCHANGED <<readable, creator, pending, submitter, sync, chain, history, faults>>

\* Node in sync and nothing on the queue: ask the node for the coins.
CheckQueue ==
  /\ cpc = "check"
  /\ nodeSynced
  /\ pending = <<>>
  /\ cpc' = "coins"
  /\ UNCHANGED <<earned, unpaid, readable, claimed, pending, submitter, sync, chain, history, faults>>

\* Mutant: exactly one reward is not enough for a payout.
GetCoinsAbove ==
  /\ cpc = "coins"
  /\ IF funds > MinPayout
       THEN cpc' = "lockwait" /\ claimed' = funds /\ strained' = (strained \/ Promised > 0)
       ELSE cpc' = "check" /\ UNCHANGED <<claimed, strained>>
  /\ UNCHANGED <<earned, unpaid, readable, pending, submitter, sync, chain, billed, plan, dropped, kept, faults>>

\* All unspent coins of the target address, whatever their age, and whatever
\* payment in hand or in the mempool they are to be spent by.
GetCoins ==
  /\ cpc = "coins"
  /\ IF funds >= MinPayout
       THEN cpc' = "lockwait" /\ claimed' = funds /\ strained' = (strained \/ Promised > 0)
       ELSE cpc' = "check" /\ UNCHANGED <<claimed, strained>>
  /\ UNCHANGED <<earned, unpaid, readable, pending, submitter, sync, chain, billed, plan, dropped, kept, faults>>

TakeLock ==
  /\ cpc = "lockwait"
  /\ cpc' = "reading"
  /\ UNCHANGED <<earned, unpaid, readable, claimed, pending, submitter, sync, chain, history, faults>>

\* Read the points, split the amount, put the payments on the queue.  An
\* instruction that cannot be read ends the round, whosever points it is for.
PutPayments ==
  /\ cpc = "reading"
  /\ IF unpaid = {} \/ ~readable
       THEN /\ cpc' = "check" /\ claimed' = 0
            /\ UNCHANGED <<pending, history>>
       ELSE /\ cpc' = "clearing"
            /\ pending' = pending \o PlanPayments(claimed)
            /\ plan' = [claimed |-> claimed, payments |-> PlanPayments(claimed)]
            /\ billed' = billed \cup unpaid
            /\ UNCHANGED <<claimed, dropped, kept, strained>>
  /\ UNCHANGED <<earned, unpaid, readable, submitter, sync, chain, faults>>

\* Mutant: the points are not reset after the payments were queued.
ClearPointsForgotten ==
  /\ cpc = "clearing"
  /\ cpc' = "check" /\ claimed' = 0
  /\ UNCHANGED <<earned, unpaid, readable, pending, submitter, sync, chain, history, faults>>

ClearPoints ==
  /\ cpc = "clearing"
  /\ unpaid' = {}
  /\ cpc' = "check" /\ claimed' = 0
  /\ UNCHANGED <<earned, readable, pending, submitter, sync, chain, history, faults>>

------------------------------------------------------------------------------
(* submit_payment_loop.                                                    *)

\* log_in has answered; the loop waits for a payment only if all is in sync.
CheckSync ==
  /\ spc = "check"
  /\ nodeSynced /\ walletSynced
  /\ spc' = "get"
  /\ UNCHANGED <<earned, unpaid, readable, creator, pending, hand, sync, chain, history, faults>>

GetPayment ==
  /\ spc = "get"
  /\ pending # <<>>
  /\ hand' = Head(pending)
  /\ pending' = Tail(pending)
  /\ spc' = "send"
  /\ UNCHANGED <<earned, unpaid, readable, creator, sync, chain, history, faults>>

\* What the wallet can spend: the coins no transaction of its own spends yet.
Spendable == IF Committed < funds THEN funds - Committed ELSE 0

WalletSends == txs' = Append(txs, [targets |-> hand, state |-> "mempool"])

SendPayment ==
  /\ spc = "send"
  /\ Amount(hand) <= Spendable
  /\ WalletSends
  /\ spc' = "confirm"
  /\ UNCHANGED <<earned, unpaid, readable, creator, pending, hand, sync, funds, fresh, rewards, history, faults>>

\* ValueError: back on the queue after a pause, behind what is there by then.
SendRefused ==
  /\ spc = "send"
  /\ Amount(hand) > Spendable \/ "wallet" \in Faults
  /\ spc' = "backoff"
  /\ UNCHANGED <<earned, unpaid, readable, creator, pending, hand, sync, chain, history, faults>>

\* Mutant: the coroutine that puts the payment back is never awaited.
RequeueForgotten ==
  /\ spc = "backoff"
  /\ hand' = <<>>
  /\ spc' = "check"
  /\ UNCHANGED <<earned, unpaid, readable, creator, pending, sync, chain, history, faults>>

Requeue ==
  /\ spc = "backoff"
  /\ pending' = Append(pending, hand)
  /\ hand' = <<>>
  /\ spc' = "check"
  /\ UNCHANGED <<earned, unpaid, readable, creator, sync, chain, history, faults>>

\* Mutant: waiting ends with the first confirmation.
PaymentConfirmed ==
  /\ spc = "confirm"
  /\ Last(txs).state # "mempool"
  /\ spc' = "check"
  /\ hand' = <<>>
  /\ UNCHANGED <<earned, unpaid, readable, creator, pending, sync, chain, history, faults>>

\* The transaction this loop waits for is the last one the wallet created.
PaymentBuried ==
  /\ spc = "confirm"
  /\ Last(txs).state = "buried"
  /\ spc' = "check"
  /\ hand' = <<>>
  /\ UNCHANGED <<earned, unpaid, readable, creator, pending, sync, chain, history, faults>>

------------------------------------------------------------------------------
(* Failures of the node, the wallet, the store and the process.            *)

Fault(kind) == kind \in Faults /\ faults < MaxFaults /\ faults' = faults + 1

\* An exception outside the inner try: the payment is forgotten.  The wallet
\* may have created the transaction all the same.
SendLost ==
  /\ spc = "send" /\ Fault("send")
  /\ spc' = "check" /\ hand' = <<>>
  /\ \/ /\ Amount(hand) <= Spendable /\ WalletSends
        /\ UNCHANGED dropped
     \/ /\ dropped' = dropped \cup CreditsIn(hand)
        /\ UNCHANGED txs
  /\ UNCHANGED <<earned, unpaid, readable, creator, pending, sync, funds, fresh, rewards, billed, plan, kept, strained>>

PollFails ==
  /\ spc = "confirm" /\ Fault("poll")
  /\ spc' = "check" /\ hand' = <<>>
  /\ UNCHANGED <<earned, unpaid, readable, creator, pending, sync, chain, history>>

\* The lock is released, the payments stay on the queue, the points too.
ClearFails ==
  /\ cpc = "clearing" /\ Fault("clear")
  /\ cpc' = "check" /\ claimed' = 0
  /\ kept' = kept \cup unpaid
  /\ UNCHANGED <<earned, unpaid, readable, pending, submitter, sync, chain, billed, plan, dropped, strained>>

\* Queue and loops live in memory; store, wallet and chain survive.
Crash ==
  /\ Fault("crash")
  /\ cpc' = "check" /\ claimed' = 0
  /\ spc' = "check" /\ hand' = <<>>
  /\ pending' = <<>>
  /\ dropped' = dropped \cup CreditsOf(pending) \cup (IF spc = "confirm" THEN {} ELSE CreditsIn(hand))
  /\ kept' = kept \cup (IF cpc = "clearing" THEN unpaid ELSE {})
  /\ UNCHANGED <<earned, unpaid, readable, sync, chain, billed, plan, strained>>

\* A puzzle hash with a prefix passes validate_payout_instructions and is stored.
UnreadableInstructions ==
  /\ Fault("format")
  /\ readable' = FALSE
  /\ UNCHANGED <<earned, unpaid, creator, pending, submitter, sync, chain, history>>

------------------------------------------------------------------------------
(* Node, wallet and chain.                                                 *)

\* get_peak_loop notes the state of the node and of the wallet.
LosesSync ==
  /\ Fault("sync")
  /\ \E n, w \in BOOLEAN : nodeSynced' = n /\ walletSynced' = w
  /\ UNCHANGED <<earned, unpaid, readable, creator, pending, submitter, chain, history>>

RegainsSync ==
  /\ ~ (nodeSynced /\ walletSynced)
  /\ nodeSynced' = TRUE /\ walletSynced' = TRUE
  /\ UNCHANGED <<earned, unpaid, readable, creator, pending, submitter, chain, history, faults>>

RewardArrives ==
  /\ rewards < MaxRewards
  /\ rewards' = rewards + 1
  /\ funds' = funds + Reward
  /\ fresh' = fresh + Reward
  /\ UNCHANGED <<earned, unpaid, readable, creator, pending, submitter, sync, txs, history, faults>>

RewardsBuried ==
  /\ fresh > 0
  /\ fresh' = 0
  /\ UNCHANGED <<earned, unpaid, readable, creator, pending, submitter, sync, funds, txs, rewards, history, faults>>

RewardsReorged ==
  /\ fresh > 0 /\ Fault("reorg")
  /\ funds' = funds - fresh
  /\ fresh' = 0
  /\ strained' = (strained \/ Promised + claimed > funds')
  /\ UNCHANGED <<earned, unpaid, readable, creator, pending, submitter, sync, txs, rewards,
                 billed, plan, dropped, kept>>

\* The wallet spends the oldest coins first.
TxConfirmed(i) ==
  /\ txs[i].state = "mempool"
  /\ Amount(txs[i].targets) <= funds
  /\ txs' = [txs EXCEPT ![i].state = "confirmed"]
  /\ funds' = funds - Amount(txs[i].targets)
  /\ fresh' = IF fresh <= funds' THEN fresh ELSE funds'
  /\ UNCHANGED <<earned, unpaid, readable, creator, pending, submitter, sync, rewards, history, faults>>

TxReorged(i) ==
  /\ txs[i].state = "confirmed" /\ Fault("reorg")
  /\ txs' = [txs EXCEPT ![i].state = "mempool"]
  /\ funds' = funds + Amount(txs[i].targets)
  /\ UNCHANGED <<earned, unpaid, readable, creator, pending, submitter, sync, fresh, rewards, history>>

TxBuried(i) ==
  /\ txs[i].state = "confirmed"
  /\ txs' = [txs EXCEPT ![i].state = "buried"]
  /\ UNCHANGED <<earned, unpaid, readable, creator, pending, submitter, sync, funds, fresh, rewards, history, faults>>

------------------------------------------------------------------------------
Init ==
  /\ earned = {} /\ unpaid = {} /\ readable = TRUE
  /\ cpc = "check" /\ claimed = 0
  /\ pending = <<>>
  /\ spc = "check" /\ hand = <<>>
  /\ nodeSynced = TRUE /\ walletSynced = TRUE
  /\ funds = 0 /\ fresh = 0 /\ txs = <<>> /\ rewards = 0
  /\ billed = {} /\ dropped = {} /\ kept = {} /\ strained = FALSE
  /\ plan = [claimed |-> 0, payments |-> <<>>]
  /\ faults = 0

Create == CheckQueue \/ GetCoins \/ TakeLock \/ PutPayments \/ ClearPoints
Submit == CheckSync \/ GetPayment \/ SendPayment \/ SendRefused \/ Requeue \/ PaymentBuried
Failure == SendLost \/ PollFails \/ ClearFails \/ Crash \/ UnreadableInstructions \/ LosesSync \/ RewardsReorged
Chain ==
  \/ RegainsSync \/ RewardArrives \/ RewardsBuried
  \/ \E i \in DOMAIN txs : TxConfirmed(i) \/ TxReorged(i) \/ TxBuried(i)

Next == (\E c \in Credits : EarnCredit(c)) \/ Create \/ Submit \/ Failure \/ Chain

Spec == Init /\ [][Next]_vars

\* Both loops run on; node and wallet get back in sync; a wallet that has the funds
\* does not refuse for ever; the chain includes the transactions it is given and
\* buries them.
Fairness ==
  /\ WF_vars(Create)
  /\ SF_vars(CheckSync) /\ WF_vars(GetPayment)
  /\ WF_vars(SendPayment \/ SendRefused) /\ SF_vars(SendPayment) /\ WF_vars(Requeue) /\ WF_vars(PaymentBuried)
  /\ WF_vars(RegainsSync)
  /\ WF_vars(\E i \in DOMAIN txs : TxConfirmed(i) \/ TxBuried(i))

FairSpec == Spec /\ Fairness

------------------------------------------------------------------------------
(* Properties.                                                             *)

PaidTwice ==
  {c \in Credits : \E i, j \in DOMAIN txs :
     i # j /\ c \in CreditsIn(txs[i].targets) /\ c \in CreditsIn(txs[j].targets)}

\* Two transactions pay for the same credit only if the failure of clear_farmer_
\* points, or a restart just before it, kept its points (create_payment_loop,
\* lines 409-437): no order of the loops, the confirmations and the wallet's
\* failures makes a payout take up what another one has taken up.
PaidTwiceOnlyIfKept == PaidTwice \subseteq kept

\* Every credit is in the store's points, on the queue, in the hands of
\* submit_payment_loop, in a transaction, or among those it has dropped after an
\* error of the wallet; requeueing and clearing points lose none.
EveryCreditAccounted ==
  earned = unpaid \cup CreditsOf(pending) \cup CreditsIn(hand) \cup dropped
             \cup UNION {CreditsIn(txs[i].targets) : i \in DOMAIN txs}

\* A plan pays every credit it takes up in exactly one target, stays within
\* the limit of targets and never promises more than it was made from.
PlanSound ==
  LET payments == plan.payments
  IN  /\ Owed(payments) <= plan.claimed
      /\ \A p \in DOMAIN payments : Len(payments[p]) \in 1..MaxAdditions
      /\ \A p, q \in DOMAIN payments : \A i \in DOMAIN payments[p], j \in DOMAIN payments[q] :
           <<p, i>> # <<q, j>> => payments[p][i].credits \cap payments[q][j].credits = {}
      /\ cpc = "clearing" => CreditsOf(payments) = unpaid

\* The wallet is given a new transaction only when the previous one is buried.
OneTransactionAtATime == Cardinality(Unburied) <= 1

\* What the pool has promised to pay, with the fee, is covered by its unspent
\* coins, through refusals, retries, lost payments, restarts and reorgs of
\* transactions; unless coins were counted that are to be spent by a payment
\* in hand or in the mempool (line 377 looks at the queue only), or a reorg took
\* away coins that line 385 counted before they were buried.
PromisesCovered == strained \/ Promised <= funds

Paid(c) == \E i \in DOMAIN txs : txs[i].state = "buried" /\ c \in CreditsIn(txs[i].targets)

\* A billed credit is paid, however often its payment is refused and goes back
\* behind others, unless more is promised than there is.
BilledIsPaid == \A c \in Credits : []<>(c \in billed => Paid(c) \/ Promised > funds)

\* Points do not wait for ever while there is enough to pay out, unless more is
\* promised than there is, or one farmer's instructions stop every payout.
PayoutsGoOn == []<>(unpaid = {} \/ funds < MinPayout \/ Promised > funds \/ ~readable)

\* The payout keeps the promises of the ledger, with any failure: each credit is
\* its own proof, and a payout settles exactly what was billed.
Ledger == INSTANCE PointLedger
  WITH ProofOf <- [c \in Credits |-> c], unpaid <- unpaid, settled <- billed \ unpaid

LedgerSpec == Ledger!Spec
===============================================================================
