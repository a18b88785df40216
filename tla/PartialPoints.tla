---------------------------- MODULE PartialPoints ----------------------------
(***************************************************************************)
(* From POST /partial to a farmer's points, and from points to a payout.   *)
(*                                                                         *)
(*   post_partial / process_partial   one coroutine per HTTP request;      *)
(*   pending_point_partials           the queue of accepted partials;      *)
(*   confirm_partials_loop            takes one partial at a time, sleeps  *)
(*                                    until it is old enough and starts    *)
(*   check_and_confirm_partial        one task per partial, which credits; *)
(*   create_payment_loop              reads and clears the points;         *)
(*   store.lock                       the one asyncio lock of the store.   *)
(*                                                                         *)
(* A step is the code between two awaits that can suspend.  asyncio runs   *)
(* one coroutine at a time, so such a piece of code is atomic; putting on  *)
(* an unbounded asyncio.Queue never suspends.                              *)
(*                                                                         *)
(* Data abstraction: a farmer's points counter is the set of requests      *)
(* (partials) it is the sum of.  Every request belongs to one farmer, so   *)
(* the counters of all farmers together are the one set `unpaid`.          *)
(***************************************************************************)
EXTENDS Naturals, Sequences, FiniteSets

CONSTANTS
  Requests,       \* HTTP requests POST /partial; each is received at most once
  Farmers,        \* registered farmers (launcher ids known to the store)
  Proofs,         \* proofs of space
  SignagePoints,  \* signage points and ends of sub slots
  Difficulties,   \* the difficulties that a farmer record can hold
  Sender,         \* Sender[r]: the farmer whose launcher id request r carries
  ProofOf,        \* ProofOf[r]: the proof in request r; duplicates share it
  SPOf,           \* SPOf[p]: the signage point that proof p answers
  Quality,        \* Quality[p]: the highest difficulty proof p is good enough for
  PartialTimeLimit,   \* config partial_time_limit
  ConfirmationDelay,  \* config partial_confirmation_delay
  WakeMargin,     \* the 5 seconds by which the confirm loop wakes early
  RetryDelay,     \* the 10 seconds before the second signage point query
  MaxHandling,    \* bound on the time from receipt to the last signage point query
  RecentCapacity, \* capacity of the LRU cache recent_points_added
  MaxTime,        \* bound of the clock
  MaxCrashes      \* bound on process restarts

\* Requests have a sender and a proof, proofs a signage point and a quality.
ASSUME ShapeAssumption ==
  /\ Sender \in [Requests -> Farmers]
  /\ ProofOf \in [Requests -> Proofs]
  /\ SPOf \in [Proofs -> SignagePoints]
  /\ Difficulties \subseteq Nat \ {0}
  /\ Quality \in [Proofs -> Nat]

\* All durations and bounds are natural numbers of seconds.
ASSUME TimeAssumption ==
  /\ PartialTimeLimit \in Nat /\ ConfirmationDelay \in Nat
  /\ WakeMargin \in Nat /\ RetryDelay \in Nat /\ MaxHandling \in Nat
  /\ MaxTime \in Nat /\ MaxCrashes \in Nat
  /\ RetryDelay <= MaxHandling

\* A partial is confirmed only after every copy of it has become too late to
\* be accepted (300 - 5 - 10 > 25 with the example configuration).
ASSUME DelayAssumption ==
  ConfirmationDelay > WakeMargin + MaxHandling + PartialTimeLimit

\* The cache of recent proofs is not exceeded (20000 entries in the code).
ASSUME CapacityAssumption ==
  /\ IsFiniteSet(Proofs)
  /\ RecentCapacity \in Nat
  /\ Cardinality(Proofs) <= RecentCapacity

VARIABLES
  now,        \* time.time()
  spSeen,     \* spSeen[s]: the node has received s
  spTime,     \* spTime[s]: when it did ("time_received"), once seen
  spReverted, \* spReverted[s]: s is not on the node's current chain
  hpc,        \* hpc[r]: where the HTTP handler of r is
  received,   \* received[r]: time_received_partial
  worth,      \* worth[r]: farmer_record.difficulty as the handler read it
  queue,      \* pending_point_partials
  cpc,        \* cpc[r]: where the confirmation of r is
  recent,     \* keys of recent_points_added
  payer,      \* where create_payment_loop is
  difficulty, \* store: difficulty column of table farmer
  partials,   \* store: table partial; 0 when r has no row
  unpaid,     \* store: points column of table farmer, as a set of requests
  billed,     \* history: requests whose points were put on pending_payments
  crashes     \* history: number of restarts

chainVars == <<spSeen, spTime, spReverted>>
handlerVars == <<hpc, received, worth>>
confirmVars == <<queue, cpc, recent>>
payerVars == <<payer, billed>>
storeVars == <<difficulty, partials, unpaid>>
vars == <<now, chainVars, handlerVars, confirmVars, payerVars, storeVars, crashes>>

HandlerPC == {"idle", "query", "retry", "lockwait", "adjust", "done"}
ConfirmPC == {"none", "queued", "sleeping", "spcheck", "validate", "lockwait",
              "reading", "adding", "credited", "dropped"}
PayerPC   == {"idle", "reading", "clearing"}

TypeOK ==
  /\ now \in 0..MaxTime
  /\ spSeen \in [SignagePoints -> BOOLEAN]
  /\ spTime \in [SignagePoints -> 0..MaxTime]
  /\ spReverted \in [SignagePoints -> BOOLEAN]
  /\ hpc \in [Requests -> HandlerPC]
  /\ received \in [Requests -> 0..MaxTime]
  /\ worth \in [Requests -> Difficulties \cup {0}]
  /\ queue \in Seq(Requests)
  /\ cpc \in [Requests -> ConfirmPC]
  /\ recent \subseteq Proofs
  /\ payer \in PayerPC
  /\ billed \subseteq Requests
  /\ difficulty \in [Farmers -> Difficulties]
  /\ partials \in [Requests -> Difficulties \cup {0}]
  /\ unpaid \subseteq Requests
  /\ crashes \in 0..MaxCrashes

SPOfRequest(r) == SPOf[ProofOf[r]]

------------------------------------------------------------------------------
(* The store lock: held by whoever is inside `async with self.store.lock`. *)

LockFree ==
  /\ \A r \in Requests : hpc[r] # "adjust" /\ cpc[r] \notin {"reading", "adding"}
  /\ payer = "idle"

------------------------------------------------------------------------------
(* The HTTP handler: post_partial and process_partial.                     *)

\* post_partial: note the time, read the farmer record.  A request that fails
\* the token, signature or pool contract check is answered with an error.
\* (The bounded clock leaves every partial the time to be confirmed.)
PostPartial(r) ==
  /\ hpc[r] = "idle"
  /\ now + ConfirmationDelay <= MaxTime + WakeMargin
  /\ received' = [received EXCEPT ![r] = now]
  /\ \/ /\ worth' = [worth EXCEPT ![r] = difficulty[Sender[r]]]
        /\ hpc' = [hpc EXCEPT ![r] = "query"]
     \/ /\ hpc' = [hpc EXCEPT ![r] = "done"]
        /\ UNCHANGED worth
  /\ UNCHANGED <<now, chainVars, confirmVars, payerVars, storeVars, crashes>>

\* Mutant: a partial that came too late is accepted all the same.
AcceptableHoweverLate(r) ==
  /\ spSeen[SPOfRequest(r)] /\ ~spReverted[SPOfRequest(r)]
  /\ worth[r] <= Quality[ProofOf[r]]

\* The node answered with a signage point of its chain, the partial came in
\* time and the proof is good enough for the difficulty that was read.
Acceptable(r) ==
  /\ spSeen[SPOfRequest(r)] /\ ~spReverted[SPOfRequest(r)]
  /\ received[r] <= spTime[SPOfRequest(r)] + PartialTimeLimit
  /\ worth[r] <= Quality[ProofOf[r]]

\* What follows a final answer of the node: error, or enqueue.
Conclude(r) ==
  IF Acceptable(r)
    THEN /\ queue' = Append(queue, r)
         /\ cpc' = [cpc EXCEPT ![r] = "queued"]
         /\ hpc' = [hpc EXCEPT ![r] = "lockwait"]
    ELSE /\ hpc' = [hpc EXCEPT ![r] = "done"]
         /\ UNCHANGED <<queue, cpc>>

\* First get_recent_signage_point_or_eos: an unknown signage point is asked
\* for again after RetryDelay.
QuerySignagePoint(r) ==
  /\ hpc[r] = "query"
  /\ IF spSeen[SPOfRequest(r)]
       THEN Conclude(r)
       ELSE /\ hpc' = [hpc EXCEPT ![r] = "retry"]
            /\ UNCHANGED <<queue, cpc>>
  /\ UNCHANGED <<now, chainVars, received, worth, recent, payerVars, storeVars, crashes>>

RetrySignagePoint(r) ==
  /\ hpc[r] = "retry"
  /\ now >= received[r] + RetryDelay
  /\ Conclude(r)
  /\ UNCHANGED <<now, chainVars, received, worth, recent, payerVars, storeVars, crashes>>

AdjustLock(r) ==
  /\ hpc[r] = "lockwait"
  /\ LockFree
  /\ hpc' = [hpc EXCEPT ![r] = "adjust"]
  /\ UNCHANGED <<now, chainVars, received, worth, confirmVars, payerVars, storeVars, crashes>>

\* Mutant: the result is not kept above min_difficulty.
AdjustWithoutFloor(r) ==
  /\ hpc[r] = "adjust"
  /\ \E d \in Difficulties : difficulty' = [difficulty EXCEPT ![Sender[r]] = d \div 5]
  /\ hpc' = [hpc EXCEPT ![r] = "done"]
  /\ UNCHANGED <<now, chainVars, received, worth, confirmVars, payerVars, partials, unpaid, crashes>>

\* Mutant: the lock is acquired by hand and not released.
AdjustKeepsLock(r) ==
  /\ hpc[r] = "adjust"
  /\ \E d \in Difficulties : difficulty' = [difficulty EXCEPT ![Sender[r]] = d]
  /\ UNCHANGED <<now, chainVars, handlerVars, confirmVars, payerVars, partials, unpaid, crashes>>

\* difficulty_function is DifficultyAdjustment's; here it may answer anything.
AdjustDifficulty(r) ==
  /\ hpc[r] = "adjust"
  /\ \E d \in Difficulties : difficulty' = [difficulty EXCEPT ![Sender[r]] = d]
  /\ hpc' = [hpc EXCEPT ![r] = "done"]
  /\ UNCHANGED <<now, chainVars, received, worth, confirmVars, payerVars, partials, unpaid, crashes>>

\* update_difficulty_later writes the suggested difficulty, outside the lock.
UpdateDifficultyLater(f) ==
  /\ \E d \in Difficulties : difficulty' = [difficulty EXCEPT ![f] = d]
  /\ UNCHANGED <<now, chainVars, handlerVars, confirmVars, payerVars, partials, unpaid, crashes>>

------------------------------------------------------------------------------
(* confirm_partials_loop.                                                  *)

ConfirmLoopGet ==
  /\ \A r \in Requests : cpc[r] # "sleeping"
  /\ queue # <<>>
  /\ cpc' = [cpc EXCEPT ![Head(queue)] = "sleeping"]
  /\ queue' = Tail(queue)
  /\ UNCHANGED <<now, chainVars, handlerVars, recent, payerVars, storeVars, crashes>>

ConfirmLoopWake(r) ==
  /\ cpc[r] = "sleeping"
  /\ now + WakeMargin >= received[r] + ConfirmationDelay
  /\ cpc' = [cpc EXCEPT ![r] = "spcheck"]
  /\ UNCHANGED <<now, chainVars, handlerVars, queue, recent, payerVars, storeVars, crashes>>

------------------------------------------------------------------------------
(* check_and_confirm_partial.                                              *)

\* LRUCache.put: over capacity another entry leaves.  Which one is left open.
RecentPut(p) ==
  IF Cardinality(recent \cup {p}) > RecentCapacity
    THEN \E q \in recent \ {p} : recent' = (recent \cup {p}) \ {q}
    ELSE recent' = recent \cup {p}

\* Mutant: the proof is looked up but not remembered.
CheckWithoutMark(r) ==
  /\ cpc[r] = "spcheck"
  /\ spSeen[SPOfRequest(r)] /\ ~spReverted[SPOfRequest(r)]
  /\ cpc' = [cpc EXCEPT ![r] = IF ProofOf[r] \in recent THEN "dropped" ELSE "validate"]
  /\ UNCHANGED <<now, chainVars, handlerVars, queue, recent, payerVars, storeVars, crashes>>

\* The signage point is still on the chain; the proof is looked up and marked
\* in one step, before the singleton is validated.
CheckSignagePoint(r) ==
  /\ cpc[r] = "spcheck"
  /\ spSeen[SPOfRequest(r)] /\ ~spReverted[SPOfRequest(r)]
  /\ IF ProofOf[r] \in recent
       THEN /\ cpc' = [cpc EXCEPT ![r] = "dropped"]
            /\ UNCHANGED recent
       ELSE /\ cpc' = [cpc EXCEPT ![r] = "validate"]
            /\ RecentPut(ProofOf[r])
  /\ UNCHANGED <<now, chainVars, handlerVars, queue, payerVars, storeVars, crashes>>

\* The singleton is assigned to this pool: go on to the store lock.
ValidateSingleton(r) ==
  /\ cpc[r] = "validate"
  /\ cpc' = [cpc EXCEPT ![r] = "lockwait"]
  /\ UNCHANGED <<now, chainVars, handlerVars, queue, recent, payerVars, storeVars, crashes>>

\* Mutant: the credit does not wait for the store lock.
ConfirmWithoutLock(r) ==
  /\ cpc[r] = "lockwait"
  /\ cpc' = [cpc EXCEPT ![r] = "reading"]
  /\ UNCHANGED <<now, chainVars, handlerVars, queue, recent, payerVars, storeVars, crashes>>

ConfirmLock(r) ==
  /\ cpc[r] = "lockwait"
  /\ LockFree
  /\ cpc' = [cpc EXCEPT ![r] = "reading"]
  /\ UNCHANGED <<now, chainVars, handlerVars, queue, recent, payerVars, storeVars, crashes>>

ReadFarmerRecord(r) ==
  /\ cpc[r] = "reading"
  /\ cpc' = [cpc EXCEPT ![r] = "adding"]
  /\ UNCHANGED <<now, chainVars, handlerVars, queue, recent, payerVars, storeVars, crashes>>

\* Mutant: the points are the farmer's difficulty at confirmation time.
AddCurrentDifficulty(r) ==
  /\ cpc[r] = "adding"
  /\ partials' = [partials EXCEPT ![r] = difficulty[Sender[r]]]
  /\ unpaid' = unpaid \cup {r}
  /\ cpc' = [cpc EXCEPT ![r] = "credited"]
  /\ UNCHANGED <<now, chainVars, handlerVars, queue, recent, payerVars, difficulty, crashes>>

\* store.add_partial: the row and the points are one transaction.
AddPartial(r) ==
  /\ cpc[r] = "adding"
  /\ partials' = [partials EXCEPT ![r] = worth[r]]
  /\ unpaid' = unpaid \cup {r}
  /\ cpc' = [cpc EXCEPT ![r] = "credited"]
  /\ UNCHANGED <<now, chainVars, handlerVars, queue, recent, payerVars, difficulty, crashes>>

\* The ways out without a credit: signage point gone, singleton invalid or not
\* a member, record not a member, or an exception of the node or the store.
DropPartial(r) ==
  /\ cpc[r] \in {"spcheck", "validate", "reading", "adding"}
  /\ cpc' = [cpc EXCEPT ![r] = "dropped"]
  /\ UNCHANGED <<now, chainVars, handlerVars, queue, recent, payerVars, storeVars, crashes>>

------------------------------------------------------------------------------
(* create_payment_loop, the part under the store lock.                     *)

\* Mutant: the payout does not wait for the store lock.
PaymentWithoutLock ==
  /\ payer = "idle"
  /\ payer' = "reading"
  /\ UNCHANGED <<now, chainVars, handlerVars, confirmVars, billed, storeVars, crashes>>

PaymentLock ==
  /\ payer = "idle"
  /\ LockFree
  /\ payer' = "reading"
  /\ UNCHANGED <<now, chainVars, handlerVars, confirmVars, billed, storeVars, crashes>>

\* Read the points of all farmers; put the payments on pending_payments.
PaymentPut ==
  /\ payer = "reading"
  /\ IF unpaid = {}
       THEN /\ payer' = "idle"
            /\ UNCHANGED billed
       ELSE /\ payer' = "clearing"
            /\ billed' = billed \cup unpaid
  /\ UNCHANGED <<now, chainVars, handlerVars, confirmVars, storeVars, crashes>>

\* store.clear_farmer_points: UPDATE farmer SET points=0, for every farmer.
ClearFarmerPoints ==
  /\ payer = "clearing"
  /\ unpaid' = {}
  /\ payer' = "idle"
  /\ UNCHANGED <<now, chainVars, handlerVars, confirmVars, billed, difficulty, partials, crashes>>

------------------------------------------------------------------------------
(* The environment: clock, chain and process restarts.                     *)

\* A handler finishes its signage point queries within MaxHandling.
Tick ==
  /\ now < MaxTime
  /\ \A r \in Requests : hpc[r] \in {"query", "retry"} => now < received[r] + MaxHandling
  /\ now' = now + 1
  /\ UNCHANGED <<chainVars, handlerVars, confirmVars, payerVars, storeVars, crashes>>

NodeReceives(s) ==
  /\ ~spSeen[s]
  /\ spSeen' = [spSeen EXCEPT ![s] = TRUE]
  /\ spTime' = [spTime EXCEPT ![s] = now]
  /\ UNCHANGED <<now, spReverted, handlerVars, confirmVars, payerVars, storeVars, crashes>>

\* A reorg takes s off the chain, or brings it back.
Reorg(s) ==
  /\ spSeen[s]
  /\ spReverted' = [spReverted EXCEPT ![s] = ~@]
  /\ UNCHANGED <<now, spSeen, spTime, handlerVars, confirmVars, payerVars, storeVars, crashes>>

\* The process stops (stop() or a crash) and starts again: only the store
\* survives.  Queue, tasks and recent_points_added are in memory.
Crash ==
  /\ crashes < MaxCrashes
  /\ crashes' = crashes + 1
  /\ hpc' = [r \in Requests |-> IF hpc[r] = "idle" THEN "idle" ELSE "done"]
  /\ cpc' = [r \in Requests |-> IF cpc[r] \in {"none", "credited"} THEN cpc[r] ELSE "dropped"]
  /\ queue' = <<>>
  /\ recent' = {}
  /\ payer' = "idle"
  /\ UNCHANGED <<now, chainVars, received, worth, billed, storeVars>>

------------------------------------------------------------------------------
Init ==
  /\ now = 0
  /\ spSeen = [s \in SignagePoints |-> FALSE]
  /\ spTime = [s \in SignagePoints |-> 0]
  /\ spReverted = [s \in SignagePoints |-> FALSE]
  /\ hpc = [r \in Requests |-> "idle"]
  /\ received = [r \in Requests |-> 0]
  /\ worth = [r \in Requests |-> 0]
  /\ queue = <<>>
  /\ cpc = [r \in Requests |-> "none"]
  /\ recent = {}
  /\ payer = "idle"
  /\ billed = {}
  /\ difficulty \in [Farmers -> Difficulties]
  /\ partials = [r \in Requests |-> 0]
  /\ unpaid = {}
  /\ crashes = 0

Handle(r) ==
  \/ PostPartial(r) \/ QuerySignagePoint(r) \/ RetrySignagePoint(r)
  \/ AdjustLock(r) \/ AdjustDifficulty(r)

Confirm(r) ==
  \/ ConfirmLoopWake(r) \/ CheckSignagePoint(r) \/ ValidateSingleton(r)
  \/ ConfirmLock(r) \/ ReadFarmerRecord(r) \/ AddPartial(r) \/ DropPartial(r)

Pay == PaymentLock \/ PaymentPut \/ ClearFarmerPoints

Environment ==
  \/ Tick \/ Crash
  \/ \E s \in SignagePoints : NodeReceives(s) \/ Reorg(s)
  \/ \E f \in Farmers : UpdateDifficultyLater(f)

Next ==
  \/ \E r \in Requests : Handle(r) \/ Confirm(r)
  \/ ConfirmLoopGet
  \/ Pay
  \/ Environment

Spec == Init /\ [][Next]_vars

\* Time passes, the event loop runs every coroutine that can run, and
\* asyncio.Lock serves its waiters in order, so no waiter is passed over
\* forever (strong fairness of the steps that take the lock).
Fairness ==
  /\ WF_vars(Tick)
  /\ WF_vars(ConfirmLoopGet)
  /\ WF_vars(PaymentPut) /\ WF_vars(ClearFarmerPoints)
  /\ \A r \in Requests :
       /\ WF_vars(QuerySignagePoint(r)) /\ WF_vars(RetrySignagePoint(r))
       /\ SF_vars(AdjustLock(r)) /\ WF_vars(AdjustDifficulty(r))
       /\ WF_vars(ConfirmLoopWake(r))
       /\ WF_vars(CheckSignagePoint(r) \/ ValidateSingleton(r) \/ ReadFarmerRecord(r)
                    \/ AddPartial(r) \/ DropPartial(r))
       /\ SF_vars(ConfirmLock(r))

FairSpec == Spec /\ Fairness

------------------------------------------------------------------------------
(* Properties.                                                             *)

Credited == {r \in Requests : cpc[r] = "credited"}

\* No proof of space earns points twice: not through duplicates that are in
\* the pipeline together, and not through a resubmission after a restart has
\* emptied recent_points_added (check_and_confirm_partial, lines 561-567).
NoDoubleCredit ==
  \A r, s \in Credited : ProofOf[r] = ProofOf[s] => r = s

\* Points leave the store only as part of a payout: a credit that is in the
\* partial table but no longer in any farmer's points was put on
\* pending_payments first (create_payment_loop, lines 409-437).
NothingWipedUnbilled ==
  \A r \in Requests : partials[r] # 0 => r \in unpaid \/ r \in billed

\* The points credited are the difficulty the proof was validated against
\* when it was received, whatever became of the farmer's difficulty since
\* (confirm_partials_loop, lines 527-530).
CreditedAsValidated ==
  \A r \in Credited : partials[r] \in 1..Quality[ProofOf[r]]

(* The inductive invariant behind these properties, in named parts.         *)

Active == {"spcheck", "validate", "lockwait", "reading", "adding"}
Marked == {"validate", "lockwait", "reading", "adding"}
Accepted(r) == cpc[r] \in {"queued", "sleeping"} \cup Active
Asking(r) == hpc[r] \in {"query", "retry"}

\* The queue holds each queued request once, and nothing else.
QueueInv ==
  /\ \A i \in 1..Len(queue) : cpc[queue[i]] = "queued"
  /\ \A i, j \in 1..Len(queue) : queue[i] = queue[j] => i = j

\* Until its handler has accepted it, a request is unknown to the pipeline,
\* and the handler is no older than MaxHandling.
HandlerInv ==
  \A r \in Requests :
    /\ hpc[r] = "idle" \/ Asking(r) => cpc[r] = "none"
    /\ Asking(r) => received[r] <= now /\ now <= received[r] + MaxHandling
    /\ Asking(r) => worth[r] \in Difficulties

\* No copy of r's partial that is received from now on can be in time.
TooLateForCopies(r) ==
  spSeen[SPOfRequest(r)] /\ now > spTime[SPOfRequest(r)] + PartialTimeLimit

AgeInv ==
  /\ \A s \in SignagePoints : spSeen[s] => spTime[s] <= now
  /\ \A r \in Requests :
       /\ Accepted(r) => /\ spSeen[SPOfRequest(r)]
                         /\ spTime[SPOfRequest(r)] <= received[r] + MaxHandling
                         /\ worth[r] \in 1..Quality[ProofOf[r]]
       /\ cpc[r] \in Active \cup {"credited"} => TooLateForCopies(r)

\* The proof of a credited partial is remembered, or no copy of it can pass.
DedupeInv ==
  /\ \A r \in Requests : cpc[r] \in Marked => ProofOf[r] \in recent
  /\ \A r, s \in Requests :
       /\ cpc[r] \in Marked \cup {"credited"} /\ cpc[s] \in Marked \cup {"credited"}
       /\ ProofOf[r] = ProofOf[s]
       => r = s
  /\ \A r, s \in Requests :
       cpc[r] = "credited" /\ ProofOf[s] = ProofOf[r] /\ ProofOf[r] \notin recent
         => /\ ~Accepted(s)
            /\ Asking(s) => received[s] > spTime[SPOfRequest(s)] + PartialTimeLimit

\* Points, rows and payouts agree, and the payout has the store to itself.
PointsInv ==
  /\ \A r \in Requests : partials[r] # 0 <=> cpc[r] = "credited"
  /\ Credited = unpaid \cup billed
  /\ payer # "idle" => \A r \in Requests : cpc[r] \notin {"reading", "adding"}
  /\ payer = "clearing" => unpaid \subseteq billed

Inv == TypeOK /\ QueueInv /\ HandlerInv /\ AgeInv /\ DedupeInv /\ PointsInv /\ CreditedAsValidated

\* An accepted partial is credited or dropped in the end; it is never left in
\* the queue, behind a sleeping loop or behind the store lock.
AcceptedIsResolved ==
  \A r \in Requests : (cpc[r] = "queued") ~> (cpc[r] \in {"credited", "dropped"})

\* The pipeline implements the ledger: a payout settles what was billed.
Ledger == INSTANCE PointLedger
  WITH Credits <- Requests, unpaid <- unpaid, settled <- billed \ unpaid

LedgerSpec == Ledger!Spec
==============================================================================
