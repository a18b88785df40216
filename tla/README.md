# Formal model of the Chia reference pool

TLA+ specifications of the pool server in `src/pool`, checked with TLC on small
instances; every safety property of the passing runs is proved with TLAPS for every
value of the constants. Line numbers below refer to `src/pool/pool.py` unless a file is named.

## 1. The system

The pool is one Python process with one asyncio event loop. It serves farmers
over HTTP, talks to a full node and a wallet over RPC and keeps its records in
SQLite or MariaDB. Everything runs as a coroutine: the code between two `await`s
that can suspend is atomic, and anything may happen at an `await`. Five loops
run beside the HTTP handlers (`Pool.start`, 190-220).

| Component | State | Operations | Makes it correct |
|---|---|---|---|
| Partial pipeline (`post_partial`, `process_partial`, `confirm_partials_loop`, `check_and_confirm_partial`) | queue `pending_point_partials`, LRU cache `recent_points_added`, table `partial`, columns `points`, `difficulty` | accept a partial; wait for its confirmation delay; look the signage point up again; mark the proof; validate the singleton; credit under the store's lock | a proof earns points once; a credit is worth what was validated; accepted partials are resolved |
| Payout (`create_payment_loop`, `submit_payment_loop`) | queue `pending_payments`, `points`, wallet transactions | plan payments from the unspent coins, clear the points, send one transaction, wait until it is buried, send refused ones again | no credit is paid twice or lost; a plan is sound; one transaction at a time |
| Farmer records (`add_farmer`, `update_farmer`, `update_difficulty_later`) | table `farmer`, set `farmer_update_blocked`, delayed tasks | register, update entries, change the difficulty after a cooldown | one registration; updates keep points; nobody stays blocked; members only |
| Singleton validation (`get_and_validate_singleton_state`, `singleton.get_singleton_state`) | dictionary `follow_singleton_tasks`, stored tip and membership | walk along the singleton, share a walk, store the buried tip | the stored tip survives reorgs; the answer was true during the call; calls return |
| Difficulty adjustment (`difficulty_adjustment.py`) | difficulty, newest rows of `partial` | compute the next difficulty | moves in the right direction, and not twice on one cause |
| Reward collection (`collect_pool_rewards_loop`, `create_absorb_transaction`) | list `scan_p2_singleton_puzzle_hashes`; what a round has read; chain, records | find coins at the farmers' addresses, read their records, walk to the newest state, push an absorbing bundle | only buried coins are claimed; the bundle pays this pool; every reward is absorbed in the end |
| Peak loop (`get_peak_loop`) | `blockchain_state`, `wallet_synced` | poll node and wallet | - |
| SQLite store | tables, one connection, `lock` | statements and commits on the shared connection | what has returned is durable; points have their partial |
| MariaDB store | tables, pool of connections, `lock` | statements and commits on connections of their own | the same; calls return |
| HTTP queries (`pool_server.py`) | none | `get_login` reads record and partials, the others read once | a response fits together |
| Start-up, utilities (`pool_server.py`, `util.py`) | none | configuration, error responses | - |

**Interaction.** The handlers put accepted partials on a queue that one loop
empties, starting one task per partial. Partials, payouts and registrations
meet at the store's one `asyncio.Lock`; `update_farmer`,
`update_difficulty_later` and the validation of singletons write the record
without it. The payout's two loops are joined by `pending_payments`. Validations
of one launcher id share a walk through `follow_singleton_tasks`. The collector
reads the addresses that `add_farmer` extends and the tips that validations store;
what it absorbs is what payouts are made from. Everybody reads
a state of the chain that `get_peak_loop` refreshes every 30 seconds.

**What is hard here.** Values read before an `await` and used after it; duplicates
of a partial in flight together, or sent again after a restart emptied the
cache; reorgs between acceptance and confirmation; points cleared after payments
were queued in memory; a wallet that refuses or loses a transaction; lock
contention; walks replaced in the dictionary while others wait for them; farmers
who move their singleton while the collector waits; calls that meet between the
statements of one of them.
`PROJECT.json` lists these under `hazards`, each at its line.

## 2. Modules

| Module | Models |
|---|---|
| `PointLedger` | the abstract promise about points: earned once per proof, settled all at once |
| `PartialPoints`, `MCPartialPoints` | partial pipeline, store lock, the payout's critical section, restarts, reorgs |
| `PartialPointsProofs` | its inductive invariant, five properties and the refinement of `PointLedger` |
| `Payments`, `MCPayments` | both payout loops, wallet, chain, eight kinds of failure |
| `Sums` | sums of lists of amounts and of columns of the store |
| `SumsProofs` | the laws of these sums |
| `PaymentsProofs` | the payout implements `PointLedger`; its inductive invariant and six properties |
| `FarmerRecords`, `MCFarmerRecords` | one farmer's record and everybody who writes it |
| `FarmerRecordsProofs` | its inductive invariant and five properties |
| `SingletonValidation`, `MCSingletonValidation` | walks along a singleton over a chain that grows and reorgs |
| `SingletonValidationProofs` | its inductive invariant and four properties |
| `DifficultyAdjustment` | `get_new_difficulty` and the history it is fed |
| `DifficultyAdjustmentProofs` | its inductive invariant and three properties |
| `RewardCollector`, `MCRewardCollector` | from a block's reward to an absorbing spend, for several farmers |
| `RewardCollectorProofs` | its inductive invariant and three properties |
| `PoolStore`, `MCPoolStore` | the two stores, statement by statement |
| `PoolStoreProofs` | its inductive invariant and five properties |

`PointLedger` is the interface at which the modules meet: `PartialPoints` and
`Payments` each contain the other's critical section in a reduced form (a payout
that reads and clears; a credit that is earned under the lock), and each is shown
to implement the ledger. `RewardCollector` has registration and validation as the two
writers of what it reads (`StoreFarmer`, `UpdateSingleton`), and its absorbed rewards
are the `RewardArrives` of `Payments`. `PoolStore` looks inside the calls that are one step
in the other modules, and says which of them may be taken for one. The whole
pool in one state space is beyond TLC.

### Common conventions

* One action per piece of code between two suspension points. A process's
  program counter (`hpc`, `cpc`, `spc`, `pc`) names the `await` it has reached.
* The lock is not a variable: it is held by whoever is between `async with
  self.store.lock` and the end of the block, which `LockFree` reads off the
  program counters.
* Points are sets of credits instead of numbers, so that a lost or doubled credit
  is visible. `Payments` gives credits a weight, where amounts matter.
* Signatures, tokens, puzzle hashes and plots do not appear: whether a check
  passes is a choice of the model. Answers of the node and the wallet are modelled
  from the way the code uses them, and marked external in the map.
* Operators whose comment begins with "Mutant" are plausible mistakes in the
  definition that follows. `PROJECT.json` names, for every checked property, a
  mutant under which TLC finds it violated; nothing else uses them.

### PartialPoints

`hpc[r]` follows the handler of request `r`: `PostPartial` notes the time
(`pool_server.py` 212) and reads the record; `QuerySignagePoint`,
`RetrySignagePoint` ask the node, once more after 10 seconds if it knows nothing;
`Conclude` is what follows the node's answer: an error, or the queue. `AdjustLock`, `AdjustDifficulty` are
the end of `process_partial`, where the function of `DifficultyAdjustment` may
answer anything. `cpc[r]` follows the partial: `ConfirmLoopGet`, `ConfirmLoopWake`
are the loop; `CheckSignagePoint` looks up the signage point and marks the proof in
one step (nothing suspends in between); `ValidateSingleton`, `ConfirmLock`,
`ReadFarmerRecord`, `AddPartial` lead to the credit, and `DropPartial` is every
exit without one, exceptions included. `PaymentLock`, `PaymentPut`,
`ClearFarmerPoints` are the payout's part under the lock. `Crash` keeps the
store and loses queue, tasks and cache.

Durations are constants. `DelayAssumption` is what the defence against duplicates
rests on: `ConfirmationDelay > WakeMargin + MaxHandling + PartialTimeLimit`, in the
example configuration 300 > 5 + `MaxHandling` + 25. `MaxHandling`, the time from the
receipt of a request to the answer that accepts it, is an assumption about the
environment: the code asks the node twice, 10 seconds apart, and bounds neither
these calls nor the reading of the request; 269 seconds are left for them.

### Payments

`cpc` is `create_payment_loop`: `CheckQueue`, `GetCoins`, `TakeLock`,
`PutPayments`, `ClearPoints`. A plan is stated by what it is rather than built up:
`AddressOrder` lists the puzzle hashes that have points in the order in which the store's
query first meets them, farmers who share one merged; `Additions` is the pool's fee and one
target for each of them; `InSubLists` cuts that list after every `MaxAdditions` targets. `spc` is `submit_payment_loop`:
`CheckSync`, `GetPayment`, `SendPayment`/`SendRefused`, `Requeue`,
`PaymentBuried`. Each failure is an action that `Faults` enables and `MaxFaults`
bounds. The wallet spends `funds` and keeps what its unconfirmed transactions
need; `fresh` is the part of the funds that a reorg may take away. `readable` turns
false when a farmer stores instructions that are accepted with a prefix and that the
payout cannot decode. `Promised` adds up what is to be paid: the queue, the
payment in hand, the mempool. History variables record what was billed (`billed`),
forgotten (`dropped`), what kept its points (`kept`), and whether coins were counted twice
or taken away by a reorg (`strained`).

### FarmerRecords

A record is what the table `farmer` holds. `Post...` is `add_farmer`, all of it
under the lock, so a request begins when it has it; `Put...` is `update_farmer`, which reads the record (`base`),
validates and writes it back without the lock; `Later...` is the delayed task.
`StoreRecord` leaves points and difficulty alone when a row exists, as the SQL
does. `Validate` is the validation as its caller sees it: nothing, or an update of
tip and membership. `Confirm...` credits points; payouts and the difficulty adjustment
are single steps under the lock. `granted` are the registrations that succeeded,
`acked` is what responses have reported as updated, `overlapped` says that an
update began while another was running.

### SingletonValidation

The chain is a sequence of spends with heights; a coin is the path of spends that
leads to it, so that after a reorg it is again the same coin if the same
spends are made. `WalkStep` is one round of the loop in `get_singleton_state`;
`Call`, `StartWalk`, `Resume`, `Pop`, `Judge`, `JudgeLeaving`, `StoreTip` are the
caller between its `await`s: join or start a walk, wait for it, remove it from the
dictionary (and wait for what was found there, which may be a later call's walk),
judge the state, store the tip. `Return` forgets locals that nobody can refer to.

### DifficultyAdjustment

`NewDifficulty` is `get_new_difficulty`, as the set of its possible results: it is a
singleton except where floating-point scaling may round down (`Rescaled`), and
empty where `time_taken` is zero and the division raises. `ReceivePartial` asks for
it with the newest rows, `Credit` adds a row when a partial is confirmed, in any
order, `Drop` is a partial that is not credited, `UpdateDifficulty` is PUT /farmer.

### RewardCollector

`pc` is the `await` the loop has reached: `coins` (lines 270-274), `records` (297-299),
`tip` (one farmer's coin record, 323-325), `walk` (inside `create_absorb_transaction`, 335-344),
`push` (349).
`path[f]` is the sequence of spends of `f`'s singleton, a tip is a number of spends. The walk with
threshold 0 is one step: what was spent before the remembered peak stays spent,
unless a reorg intervenes, which `shaken` notes; what is spent later is above the peak
and not walked over. `held` is how old that peak is by the time it is used. `RecordsOf` are the members among the
owners of the coins, in the order of the store's rows.
Heights are relative (ages in blocks, counted as far as the code can tell them
apart), so the chain may grow without bound. A block holds at most one of the events
that matter. `mempool[f]` is the bundle that waits, if any; `Acceptable` is
what the node looks at before it takes one. A farmer may take the singleton out of the pool and
back again (`MayMove`), as the comment at 840-842 expects. `strangers` are farmers whom `add_farmer`
registered although they are no members (first finding); `revoked` are the returns to
this pool that a reorg has undone.

### PoolStore

Each call is a program: statements, `commit`, and for MariaDB `acquire` and `release`, as
in the method it stands for. Any other call may run between two steps. `Conn(c)` is the
connection it uses, SQLite's only one or its own; `open[k]` is the transaction on
connection `k`: its statements and what they do to the points. `View` is what is read there,
`Commit` makes everything open on the connection durable, whoever wrote it. `Raise` leaves the
`with` statement, and `RollBack` says what becomes of what was not committed: a connection of
MariaDB that is returned rolls back, SQLite keeps the statements for the next commit, and
so does the second connection of `update_difficulty`, with the lock of the farmer's row; those
who wait for that row give up in the end (`LockWaitTimeout`). `Newest` is the query's `ORDER BY`
and `LIMIT`: a login response asks for 20 partials (`pool_server.py` 279), `RecentLimit` in the model.
MariaDB's `add_farmer_record` names no columns for its 11 values while the
table has 13 (`mariadb_store.py` 51-64, 98), so the server rejects it (`InsertRejected`); its
`update_difficulty` acquires a second connection that nothing releases (141).

## 3. What the runs check

All runs but the violations finish without error. Bounds are in the `.cfg` files.

| Run | Instance | Shows |
|---|---|---|
| `PartialPoints` | two requests with the same proof, one signage point, clock to 6 (time limit 1, delay 4, margin, retry and handling 1), one restart; difficulties 1 and 3 against qualities 1 and 2 | `NoDoubleCredit`, `CreditedAsValidated`, the inductive `Inv` |
| `PartialPointsLive` | two requests with different proofs, payouts in between, fairness, no restart | `NothingWipedUnbilled`, `LedgerSpec`, `AcceptedIsResolved` |
| `Payments` | two credits of two farmers, two rewards, any two failures of eight kinds | `PaidTwiceOnlyIfKept`, `EveryCreditAccounted`, `PromisesCovered`, `LedgerSpec` |
| `PaymentsLive` | three farmers, two with one address, transactions of two targets, refusals, loss of sync, unreadable instructions, fairness | `PlanSound`, `OneTransactionAtATime`, `BilledIsPaid`, `PayoutsGoOn` |
| `FarmerRecords` | two registrations, two updates with any of three payloads, a confirmation, payouts, one move of the singleton, one restart | `PointsSurviveUpdates`, `RegisteredOnce`, `ReportedUpdatesHold`, `OneChangeAtATime`, `BlockedIsReleased` |
| `SingletonValidation` | two calls, heights to 2, two spends, one reorg, one failure of the node | `StoredTipOnChain`, `NoWalkLeftBehind`, `MemberDuringCall`, `CallsReturn` |
| `DifficultyAdjustment` | three partials per target, target time 4, pauses to 9, two in flight | `AdjustedForCause`, `AdjustmentsAreSpaced` |
| `RewardCollector` | two farmers who register, one of whom may finish leaving before or after and come back, a reward of each, any one failure of six kinds | `OnlyBuriedRewards`, `PaysThisPool` |
| `RewardCollectorLive` | two members, one of whom may begin to leave, a reward of each and a farmer's share, any one failure of five kinds, fairness | `RewardCollected` |
| `PoolStore` | seven calls of five operations on either store, two of them credits and two changes of difficulty, one partial per login response, a failure or restart at any step, fairness | `DurableOnReturn`, `PointsHaveRows`, `HalfOnlyIfExposed`, `LoginShowsWhatItCounts`, `CallsReturn` |
| `FarmerNonMember` | one registration, one update | violates `OnlyMembersRegistered` (first finding below) |
| `SingletonLock` | as `SingletonValidation`, heights to 3 | violates `LeavesAfterLock` (second finding) |

Each passing run also checks its module's `TypeOK`, the three `Live` runs excepted,
which share a module with another run.

**What the exceptions mean.** Several properties name the circumstances in which the
code does not keep them: `kept`, `strained`, `overlapped`, `exposed`, `shaken`, `revoked`, `Stuck`, `Drained`,
`strangers`, `readable`, a task that `failed`. Each is a history or a state kept as narrow as
possible, and without it TLC finds the property violated; section 5 says by what. Such a
property says that this is the only way to go wrong.

**Why the bounds are enough to be interesting.** The times of `PartialPoints` are the
smallest that meet `DelayAssumption` with every duration at least 1, and the clock goes on
for three seconds after the earliest credit: the copy may be received before, during and after
the confirmation of the first, before or after a restart has emptied the cache, and be too late by
exactly one second. The mutant that drops the age limit (`AcceptableHoweverLate`) credits it a second
time after a restart. Two copies are all that a double credit needs; a credit and a payout can only
compete when there are two proofs, which is the instance of `PartialPointsLive`; the theorems
cover any number. In `Payments` two failures allow a failure during the recovery
from another, and both rewards may be claimed before or between payouts.
Three farmers and `MaxAdditions` 2 give a full first list, a last list with one
entry, and a plan that ends with a list just full. In `SingletonValidation`
`Threshold` is 1, so a spend can be seen, be reverted, and be buried within
height 2; a third call or height multiplies the states beyond reach. In
`FarmerRecords` two updates are what it takes to write back a stale record, and
two payloads change different entries; the confirmation adds points between any
two steps of an update. In `RewardCollector` two moves of the farmer who is leaving let it
finish, come back, and be put back by a reorg; `Threshold` and `MaxLag` of 1
give coins that are buried for the remembered peak and not for the chain's, and the reverse.
Coins and moves of the singleton are bounded, blocks are not. In the `Live` run
everybody is registered, so that a failing `add_farmer_record` is left to the other run,
and each farmer has one reward: `Stuck` covers bundles that are too big, but no bundle is there. In `PoolStore` the pool of
connections holds two: `add_partial` takes one at a time, two changes of difficulty drain
it. Two credits are one more than a login response asks for, and either may wait for the row that
a failed change of difficulty has left locked. In `DifficultyAdjustment` a window of three rows leaves room for a window that is not full, full,
or mixed, and the clock reaches past three times `SlowGap`.

**Deadlock** is not checked: clocks, requests, rewards and spends are bounded, so
every instance comes to a legitimate end. `AcceptedIsResolved`, `CallsReturn`,
`BlockedIsReleased`, `BilledIsPaid`, `PayoutsGoOn` and `RewardCollected` say that nobody is
stuck before it.

**Fairness.** The event loop resumes each coroutine whose awaited result is there:
weak fairness of the steps of coroutines. `asyncio.Lock` serves its
waiters in order: strong fairness of the steps that take it, since others take it
repeatedly. Node and wallet answer in the end, and time passes. `CheckSync` gets
strong fairness because its condition may come and go; the bound on failures makes the
node stay in sync in the end. `SendPayment` gets it because a wallet that has the funds
does not refuse for ever. Transactions given to the
chain are included and buried; in `RewardCollector` the chain grows (`NewBlock`) and takes up
the bundles that it repeatedly could (`Includes`), and a farmer in `Active` goes on
sending partials, whose validation refreshes the stored tip. The calls of `PoolStore` are
made once each, so weak fairness of their steps taken together suffices, for the lock and the
connections too: somebody who can go on does. No
fairness is assumed of requests, payouts (`PaymentLock`), restarts or failures.

## 4. What is proved

Every `TypeOK`, every other invariant and every action property of the passing runs, and
the two refinements, are theorems: they hold for all values of the constants that meet the
named `ASSUME`s, not only on the instances of section 3. TLC evaluates these assumptions in
every run. Each proof has the same shape: an inductive invariant, one lemma per action or
per group of actions that it survives it, and the property from the invariant. The invariants
were model-checked on the instances of section 3 before they were proved. None of the
bounds (`MaxTime`, `MaxFaults`, `MaxReorgs`, `MaxCrashes`, ...) is used but as a number, so
the theorems hold for runs as long as one likes.

| Module | Theorems | Inductive invariant |
|---|---|---|
| `PartialPointsProofs` | `TypeCorrectness`, `NeverCreditedTwice`, `NeverWipedUnbilled`, `AlwaysCreditedAsValidated`, `Refinement` | `Inv` (`Invariance`) |
| `PaymentsProofs` | `PaymentsTypeCorrect`, `NeverPaidTwice`, `CreditsAlwaysAccounted`, `PromisesAlwaysCovered`, `PlansAlwaysSound`, `AlwaysOneTransaction`, `PayoutImplementsLedger` | `PayInv` (`PayInvariance`), `LastInv`, `LedgerInv` |
| `FarmerRecordsProofs` | `RecordsTypeCorrect`, `PointsAlwaysSurvive`, `AlwaysRegisteredOnce`, `ReportedUpdatesAlwaysHold`, `AlwaysOneChangeAtATime` | `RecordsInv` (`RecordsInvariance`) |
| `PoolStoreProofs` | `StoreTypeCorrect`, `AlwaysDurableOnReturn`, `PointsAlwaysHaveRows`, `HalfAlwaysExposed`, `LoginAlwaysConsistent` | `StoreInv` (`StoreInvariance`) |
| `DifficultyAdjustmentProofs` | `AdjustmentTypeCorrect`, `AlwaysAdjustedForCause`, `AlwaysSpaced` | `AdjustInv` (`AdjustInvariance`) |
| `SingletonValidationProofs` | `SingletonTypeCorrect`, `TipAlwaysOnChain`, `NoWalkEverLeftBehind`, `MembersAlwaysWere` | `SingInv` (`SingletonInvariance`) |
| `RewardCollectorProofs` | `CollectorTypeCorrect`, `AlwaysBuriedRewards`, `AlwaysPaysThisPool` | `CollectInv` (`CollectInvariance`) |

**Partial pipeline.** Assumptions: `ShapeAssumption` (types), `TimeAssumption` (durations are
naturals, the retry fits into `MaxHandling`), `DelayAssumption` (section 2) and
`CapacityAssumption` (no more proofs than `recent_points_added` holds; beyond it the
cache evicts and a copy could pass). `NoDoubleCredit` alone is not inductive: it does not say
why a copy that is still on its way cannot be credited. `AgeInv` says that a partial reaches
its confirmation only when its signage point is older than the time limit, because
the confirmation delay exceeds time limit, handling time and wake-up margin
together; so no copy received from then on can be accepted. `HandlerInv` bounds the age
of requests that are being handled. `DedupeInv` says that the proof of a credited
partial is in the cache, or (after a restart) every copy is dropped or too late.
`QueueInv` keeps requests from being queued twice, `PointsInv` ties the rows to points and
payouts and keeps the payout's critical section free of credits.

**Payout.** `PaymentsAssumption` asks for positive weights, rewards and minimum payout, a fee
below 100 per cent and room for two targets in a transaction; farmers, addresses and credits
are any. `PlansAlwaysSound` is about the arithmetic of the plan: the lemmas of `SumsProofs`
give what the amounts come to, `AddressOrderIs` that the order of the addresses exists and
lists each once, and the lemmas on `Additions` and `InSubLists` that the list is neither
overdrawn nor loses a target where it is cut. The other properties need to know where a
credit is. `OnceInv`: outside `kept` it is in one transaction, one queued payment, the hand or
the points, the moment between queueing and clearing excepted. `AccountInv`: it is
somewhere. `CoverInv` counts with the promises what a payout that has read the coins is
about to promise; without this term the step that queues the plan would not preserve it.
`HandInv` ties the payment in hand to the last transaction. `AlwaysOneTransaction` assumes
that `Faults` has none of "send", "poll", "crash" and "reorg", as the run that
checks it: after each of them the loop goes on without waiting for what it sent.
`PayoutImplementsLedger` makes no such assumption; `LedgerInv` says that points were earned,
what was billed was earned, and while the loop is about to clear the points all of them
have been billed.

**Farmer records.** `FarmerAssumption` adds that registrations, updates and confirmations are
different processes and that `None` is no entry. `LockInv`: the lock has one holder, and
a registration that goes on under it has found no record, which stays so; this makes
`RegisteredOnce` and `PointsSurviveUpdates` inductive. `UpdateInv` and `ChangeInv` carry the two
properties that hold until updates overlap: what the one update has read is still what is
stored, and while its change of difficulty is on its way the farmer is blocked, so that none
is added.

**Stores.** The proof uses the programs only through `ProgramOrder`: points after their
row, a commit after the last write, for SQLite no commit between the two statements of
`add_partial`, the record of a login before its partials. `WriteInv` says what a call has
executed is open on its connection, and is committed once the call has passed a commit;
what `RollBack` keeps or drops and the commits of others on the shared connection preserve it,
which is why no call returns before its work is durable. `PointsInv` has points follow rows
inside open transactions as well, `LoginInv` the same for what a login has read, unless it has
read as many partials as it asks for.

**Difficulty adjustment.** `AlwaysAdjustedForCause` is arithmetic: `NewDifficulty` with its floors
and the floating-point scaling (`Rescaled`) never moves against what the times call for. For `AlwaysSpaced`, `SortedInv` keeps the rows in the order of their times, whatever the order of the
confirmations; `SpacedInv` says that as long as fewer than a target were confirmed since the last
adjustment, the rows before them are there and are worth something else than the present
difficulty.

**Singleton validation.** `TipInv`: stored tips, and the buried parts of all walks, begun at
whatever peak, are spends so deep that no reorg of `Threshold` blocks replaces them; `ChainInv`
orders the heights of spends for it. `CallInv` and `SlotInv` tell which calls refer to which walks: a
walk in the dictionary is waited for by the call that began it, so the last one to return leaves
none. `MemberInv`: a finished walk has found a state that the singleton had during every
call that waits for it, those who joined it late included.

**Reward collection.** `CollectorAssumption` asks for a table that lists each farmer once.
`AgedInv` carries `OnlyBuriedRewards` through blocks that are replaced: what goes back to the
mempool was buried when it left it. For `PaysThisPool`, a tip of a member may be at another pool:
membership goes by the latest state. `TipsInv` says that the tips of members, stored or read,
are `Sound`: no reorg undoes them, and they pay this pool, or are spent for good, or are spent by a
return, or a reorg has undone that return (`revoked`). `DeepInv` (all but the last spend have a
block on top) keeps reorgs from reaching below. A tip that the loop has found unspent therefore
pays this pool, and with `WalkInv` (what was spent after the tip was looked up is above the peak
the loop holds, or there was a reorg) so does the state the bundle is built on.

**Sums.** `Sums` defines them by recursive functions. The library's induction theorems take an
operator as a parameter, which the provers cannot instantiate; `SumsProofs` goes by
the least counterexample instead (`Least`, from the well-foundedness of `<`), shows
that partial sums exist and are unique, and from that how a sum changes when a list is
extended, shortened, joined, changed in one place or compared, and when a set is split.

**Only model-checked:** what holds under fairness (`AcceptedIsResolved`, `BilledIsPaid`,
`PayoutsGoOn`, `BlockedIsReleased`, the two `CallsReturn`, `RewardCollected`), because the
provers know neither `ENABLED` nor liveness under fairness; and the two properties that the
code violates.

## 5. Findings

Two disagreements between the code and what it says of itself have a run:

1. `FarmerNonMember`: `add_farmer` tests `is_member is None` (638), which never holds for a
   `bool`: a singleton assigned elsewhere is registered, with `is_pool_member=True` (691).
2. `SingletonLock`: the blocks since a farmer began to leave are counted from the coin that
   the buried tip spends (826-830), which was created before; farmers are found to have
   left too early.

Others are the exceptions of properties that pass:

* `PaidTwiceOnlyIfKept`: `clear_farmer_points` (437) is awaited after the payments were
  queued. If it raises, or the process is restarted just before it, the points remain and are
  paid again; `README.md` 105-106 of the repository promises that they are reset.
* `PromisesCovered`: the next payout begins when the queue is empty (377), while its last payment
  may still be unsent or unconfirmed, and counts the same coins; and it counts all unspent coins (385),
  however young, so that a reorg may take them away after the points were cleared.
  `README.md` 99-100 has payouts wait for a number of confirmations.
* `PayoutsGoOn`: instructions with the prefix `0x` are accepted (614) and stored as sent;
  the query that decodes them (`sqlite_store.py` 199) raises, in every payout, for all farmers.
* `ReportedUpdatesHold`, `OneChangeAtATime`: `update_farmer` writes back a record read two
  awaits earlier, outside the lock (704-745). Of two overlapping requests, both
  answered as updated, one is undone; both may schedule a change of difficulty within one cooldown.
* `BlockedIsReleased`: if `update_difficulty` raises (749), the farmer stays blocked until a restart.
* `PaysThisPool`: a singleton becomes a member again with a return that is not buried yet, while
  the stored tip is still the spend that took it to another pool (806-848). If a reorg undoes
  the return, the store has a member whose tip pays that pool, until a partial with a new
  buried tip comes, and the collector builds its bundle on it.
* `RewardCollected`: all rewards of a farmer go into one bundle (the TODO in `singleton.py`
  202). One that does not fit into a block is refused every time, and if the client
  raises it ends the round for the farmers behind.
* `CallsReturn` of `PoolStore`: MariaDB's pool of connections is drained by `update_difficulty`
  (`mariadb_store.py` 141), after which every call waits.
* `LoginShowsWhatItCounts`: with more than 20 partials since the last payout a login response has
  points whose partials it does not list, as its limit says (`pool_server.py` 279).
* `HalfOnlyIfExposed`: on SQLite's shared connection the commit of a call without the lock
  publishes a row of `add_partial` whose points are still to come.

With no run: `README.md` 142 of the repository lowers the difficulty after 45 minutes, the
code after 60 (`difficulty_adjustment.py` 32); `README.md` 144 keeps the difficulty with fewer than
300 partials at it, the code lowers it then if these took longer than the target time
(`difficulty_adjustment.py` 39-48, run `DifficultyAdjustment` follows the code); MariaDB's INSERT (98) gives 11 values for 13
columns, which `PoolStore` takes as rejected.

## 6. Not modelled

* Signatures, authentication tokens, proof verification, puzzle hash encodings:
  inputs of a check, taken as a choice.
* Floating point in the payout: the models divide integers, with a fee in whole per cent;
  the code agrees with that below 2^53 mojos. What floating point does in
  `get_new_difficulty` is modelled (`Rescaled`).
* `get_farmer`, `get_pool_info`, start-up and configuration: one read at most, and no
  state that changes. `scan_start_height` only shortens a search, and the fee
  of an absorb is the wallet's matter.
* The event loop's weak references to tasks (536): a matter of the interpreter.
* The loops, handlers and stores in one state space: the modules are joined by
  `PointLedger` and by the reduced forms named in section 2.

## 7. Plan

Done: all modules of section 2, the refinement of `PointLedger` by the partial pipeline
and by the payout, and the proofs of section 4. What would add most:

1. `PoolStore`: an abstract store whose calls are one step, implemented by SQLite and
   MariaDB up to the exposed halves, so that the atomic calls of the other modules
   rest on a theorem.
2. `PartialPoints`: what `CapacityAssumption` leaves out, a cache that evicts proofs
   within the confirmation delay.
3. `FarmerRecords` and `PartialPoints` joined: a change of difficulty that is written without
   the lock while a partial is judged (749).
