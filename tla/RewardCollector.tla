--------------------------- MODULE RewardCollector ---------------------------
(***************************************************************************)
(* From block rewards to the pool's address: collect_pool_rewards_loop     *)
(* looks for reward coins of its farmers that are buried and pushes, for   *)
(* each member, a bundle that absorbs them by spending the singleton.      *)
(*                                                                         *)
(* Node, wallet and chain are external.  Heights are relative: the age of  *)
(* a coin or spend is the number of blocks on top of its own, and a peak   *)
(* that somebody remembers is a number of blocks behind the node's.        *)
(***************************************************************************)
EXTENDS Integers, Sequences, FiniteSets, FiniteSetsExt, SequencesExt

CONSTANTS
  FarmerRows,   \* the farmers, in the order SELECT returns their records
  Known,        \* the farmers whose records are in the store at the start
  Before,       \* Before[f]: the state of f's singleton before the spends in path[f]
  Active,       \* the farmers who go on sending partials
  Coins,        \* the coins that may arrive at the farmers' addresses
  Owner,        \* Owner[c]: the farmer at whose p2_singleton address c arrives
  Kind,         \* Kind[c]: "pool" or "farmer" share of a block, or "plain"
  None,
  BundleLimit,  \* the number of absorbs that fit into a block
  Threshold,    \* confirmation_security_threshold
  MaxLag,       \* bound on the blocks a remembered peak is behind
  MaxMoves,     \* MaxMoves[f]: bound on f's own spends of the singleton
  Faults,       \* the kinds of failure that may happen, see FaultKinds
  MaxFaults     \* bound on the number of failures

Farmers == ToSet(FarmerRows)

\* The states of a singleton: at this pool, on its way out, farming for itself,
\* at another pool.
States == {"farming", "leaving", "self", "other"}

\* The states in which an absorbed reward is paid to this pool.
Assigned == {"farming", "leaving"}

\* node:  a call of the collector to node, wallet or store raises
\* store: add_farmer_record raises
\* drop:  the node forgets a bundle
\* reorg: the last block is replaced
\* sync:  the node is found out of sync
\* crash: the process is restarted
FaultKinds == {"node", "store", "drop", "reorg", "sync", "crash"}

\* The table lists each farmer once, coins belong to farmers, and a remembered peak
\* may be old.
ASSUME CollectorAssumption ==
  /\ FarmerRows \in Seq(Farmers) /\ \A i, j \in DOMAIN FarmerRows : FarmerRows[i] = FarmerRows[j] => i = j
  /\ Known \subseteq Farmers /\ Active \subseteq Farmers /\ None \notin Farmers \cup Nat
  /\ Before \in [Farmers -> States] /\ \A f \in Known : Before[f] \in Assigned
  /\ Owner \in [Coins -> Farmers] /\ Kind \in [Coins -> {"pool", "farmer", "plain"}]
  /\ BundleLimit \in Nat /\ Threshold \in Nat \ {0} /\ MaxLag \in Nat \ {0}
  /\ MaxMoves \in [Farmers -> Nat] /\ Faults \subseteq FaultKinds /\ MaxFaults \in Nat

\* Ages are counted as far as the code can tell them apart.
MaxAge == Threshold + MaxLag

VARIABLES
  age,      \* chain: age[c] of a coin, None until it arrives
  path,     \* chain: path[f]: the spends of f's singleton
  mempool,  \* node: mempool[f]: the coins that a waiting bundle absorbs
  revoked,  \* history: <<f, i>> when a reorg has undone a return, f's i-th spend
  lag,      \* how far blockchain_state["peak"] is behind
  synced,   \* blockchain_state["sync"]["synced"]
  record,   \* store: record[f]: tip and membership, None if not registered
  scanSet,  \* scan_p2_singleton_puzzle_hashes, as a set of farmers
  adding,   \* add_farmer: who is about to be stored, and with which tip
  pc,       \* where collect_pool_rewards_loop is
  held,     \* how far the peak that the loop holds is behind
  scanned,  \* scan_phs
  found,    \* ph_to_coins: the coins of this round
  todo,     \* farmer_records: the members still to be served in this round
  bundle,   \* what the walk has found: the tip to spend and the coins
  strangers,  \* history: registered although validation found them no members
  shaken,   \* history: there was a reorg since the tip was looked up
  faults    \* history: number of failures

chain == <<age, path, mempool, revoked>>
peak == <<lag, synced>>
farmer == <<record, scanSet, adding, strangers>>
locals == <<scanned, found, todo, bundle>>
vars == <<chain, peak, farmer, pc, held, locals, shaken, faults>>

Spend == [to : States, coins : SUBSET Coins, age : 0..MaxAge]
Tip == Nat  \* a spend, by its position in path[f]

TypeOK ==
  /\ age \in [Coins -> 0..MaxAge \cup {None}]
  /\ path \in [Farmers -> Seq(Spend)]
  /\ mempool \in [Farmers -> SUBSET Coins] /\ revoked \subseteq Farmers \X Nat
  /\ lag \in 0..MaxLag /\ synced \in BOOLEAN
  /\ record \in [Farmers -> [tip : Tip, member : BOOLEAN] \cup {None}]
  /\ scanSet \subseteq Farmers
  /\ adding \in [farmer : Farmers, tip : Tip] \cup {None}
  /\ pc \in {"idle", "coins", "records", "tip", "walk", "push"}
  /\ held \in 0..MaxLag
  /\ scanned \subseteq Farmers /\ found \subseteq Coins
  /\ todo \in Seq([farmer : Farmers, tip : Tip])
  /\ bundle \in [tip : Tip, coins : SUBSET Coins]
  /\ strangers \subseteq Farmers /\ shaken \in BOOLEAN /\ faults \in 0..MaxFaults

------------------------------------------------------------------------------
(* The chain.  A block holds at most one of the events that matter.        *)

StateAt(f, i) == IF i = 0 THEN Before[f] ELSE path[f][i].to
Latest(f) == StateAt(f, Len(path[f]))
Absorbed(p) == UNION {UNION {s.coins : s \in ToSet(p[f])} : f \in Farmers}
Unspent == {c \in Coins : age[c] # None} \ Absorbed(path)
Moves(spends) == Cardinality({i \in DOMAIN spends : spends[i].coins = {}})

\* Where the rules of the singleton let its farmer take it: out of a pool by way
\* of leaving it, and back again.
MayMove(from) ==
  CASE from = "farming" -> {"leaving"}
    [] from = "leaving" -> {"self", "other", "farming"}
    [] OTHER -> {"self", "other", "farming"}

StateIn(p, f) == IF p[f] = <<>> THEN Before[f] ELSE Last(p[f]).to
SpendIn(p, f, to, coins) == path' = [p EXCEPT ![f] = Append(@, [to |-> to, coins |-> coins, age |-> 0])]

\* A block on top of the spends p and coins a, with the bundles m at hand.
Block(p, a, m) ==
  \/ path' = p /\ age' = a /\ mempool' = m
  \/ \E c \in Coins : /\ a[c] = None
                      /\ age' = [a EXCEPT ![c] = 0] /\ path' = p /\ mempool' = m
  \/ \E f \in Farmers : /\ m[f] # {}
                        /\ SpendIn(p, f, StateIn(p, f), m[f])
                        /\ mempool' = [m EXCEPT ![f] = {}] /\ age' = a
  \/ \E f \in Farmers, to \in States : /\ to \in MayMove(StateIn(p, f)) /\ Moves(p[f]) < MaxMoves[f]
                                       /\ SpendIn(p, f, to, {})
                                       /\ mempool' = [m EXCEPT ![f] = {}] /\ age' = a

Older(n) == IF n < MaxAge THEN n + 1 ELSE n

NewBlock ==
  /\ lag < MaxLag /\ held < MaxLag
  /\ lag' = lag + 1
  /\ held' = IF pc \in {"coins", "walk"} THEN held + 1 ELSE held
  /\ Block([f \in Farmers |-> [i \in DOMAIN path[f] |-> [path[f][i] EXCEPT !.age = Older(@)]]],
           [c \in Coins |-> IF age[c] = None THEN None ELSE Older(age[c])], mempool)
  /\ UNCHANGED <<revoked, synced, farmer, pc, locals, shaken, faults>>

Includes(f) == NewBlock /\ mempool[f] # {} /\ Len(path'[f]) > Len(path[f])

Fault(kind) == kind \in Faults /\ faults < MaxFaults /\ faults' = faults + 1

\* The last spend of f's singleton is in the last block.
InLastBlock(f) == IF path[f] # <<>> THEN Last(path[f]).age = 0 ELSE FALSE

\* It brought the singleton back to this pool.
Returned(f) == Latest(f) \in Assigned /\ StateAt(f, Len(path[f]) - 1) \notin Assigned

\* The node takes the bundles of the replaced block back into its mempool.
Reorg ==
  /\ Fault("reorg")
  /\ LET undone == {f \in Farmers : InLastBlock(f)}
     IN  /\ Block([f \in Farmers |-> IF f \in undone THEN Front(path[f]) ELSE path[f]],
                  [c \in Coins |-> IF age[c] = 0 THEN None ELSE age[c]],
                  [f \in Farmers |-> IF f \in undone THEN Last(path[f]).coins ELSE mempool[f]])
         /\ revoked' = revoked \cup {<<f, Len(path[f])>> : f \in {g \in undone : Returned(g)}}
  /\ shaken' = (pc \in {"walk", "push"})
  /\ UNCHANGED <<peak, farmer, pc, held, locals>>

MempoolDrops ==
  /\ Fault("drop")
  /\ \E f \in Farmers : mempool[f] # {} /\ mempool' = [mempool EXCEPT ![f] = {}]
  /\ UNCHANGED <<age, path, revoked, peak, farmer, pc, held, locals, shaken>>

------------------------------------------------------------------------------
(* The peak loop, and the handlers that write the farmers' records.        *)

\* Mutant: the height of the block that comes next.
GetNextHeight ==
  /\ lag' = -1 /\ synced' = TRUE
  /\ UNCHANGED <<chain, farmer, pc, held, locals, shaken, faults>>

GetPeak ==
  /\ lag' = 0 /\ synced' = TRUE
  /\ UNCHANGED <<chain, farmer, pc, held, locals, shaken, faults>>

GetPeakUnsynced ==
  /\ Fault("sync")
  /\ lag' = 0 /\ synced' = FALSE
  /\ UNCHANGED <<chain, farmer, pc, held, locals, shaken>>

\* The last spend that is buried below the remembered peak.
BuriedTip(f) == Max({0} \cup {i \in DOMAIN path[f] : path[f][i].age >= lag + Threshold})

\* add_farmer, under the store's lock: validated, and on the list of addresses.
AddFarmer(f) ==
  /\ adding = None /\ record[f] = None
  /\ scanSet' = scanSet \cup {f}
  /\ adding' = [farmer |-> f, tip |-> BuriedTip(f)]
  /\ strangers' = IF Latest(f) \in Assigned THEN strangers ELSE strangers \cup {f}
  /\ UNCHANGED <<chain, peak, record, pc, held, locals, shaken, faults>>

StoreFarmer ==
  /\ adding # None
  /\ adding' = None
  /\ \/ record' = [record EXCEPT ![adding.farmer] = [tip |-> adding.tip, member |-> TRUE]]
        /\ UNCHANGED faults
     \/ Fault("store") /\ UNCHANGED record
  /\ UNCHANGED <<chain, peak, scanSet, strangers, pc, held, locals, shaken>>

\* get_and_validate_singleton_state, called for a partial of f: membership goes
\* by the latest state, and is stored only when the buried tip has changed.
UpdateSingleton(f) ==
  /\ record[f] # None
  /\ BuriedTip(f) # record[f].tip
  /\ \E member \in BOOLEAN :
       /\ Latest(f) = "farming" => member
       /\ Latest(f) \in {"self", "other"} => ~member
       /\ record' = [record EXCEPT ![f] = [tip |-> BuriedTip(f), member |-> member]]
  /\ UNCHANGED <<chain, peak, scanSet, adding, strangers, pc, held, locals, shaken, faults>>

------------------------------------------------------------------------------
(* collect_pool_rewards_loop.                                              *)

NoBundle == [tip |-> 0, coins |-> {}]
EndRound ==
  /\ pc' = "idle" /\ held' = 0 /\ shaken' = FALSE
  /\ scanned' = {} /\ found' = {} /\ todo' = <<>> /\ bundle' = NoBundle

\* On to the next record, or to sleep.
NextFarmer ==
  IF Len(todo) > 1
    THEN /\ pc' = "tip" /\ todo' = Tail(todo)
         /\ held' = 0 /\ shaken' = FALSE /\ bundle' = NoBundle
         /\ UNCHANGED <<scanned, found>>
    ELSE EndRound

StartRound ==
  /\ pc = "idle" /\ synced
  /\ pc' = "coins" /\ held' = lag /\ scanned' = scanSet
  /\ UNCHANGED <<chain, peak, farmer, found, todo, bundle, shaken, faults>>

\* Mutant: a coin as deep as the threshold asks for, give or take one.
BuriedByOneLess(c) == age[c] >= held + Threshold - 1

Buried(c) == age[c] >= held + Threshold

\* Unspent coins of the addresses; only those of a block's reward count.
GetCoins ==
  /\ pc = "coins"
  /\ found' = {c \in Unspent : Owner[c] \in scanned /\ Kind[c] # "plain" /\ Buried(c)}
  /\ pc' = "records" /\ held' = 0 /\ scanned' = {}
  /\ UNCHANGED <<chain, peak, farmer, todo, bundle, shaken, faults>>

\* get_farmer_records_for_p2_singleton_phs, and of these the members.
RowOf(f) == CHOOSE i \in DOMAIN FarmerRows : FarmerRows[i] = f
Members(owners) == {f \in owners : IF record[f] = None THEN FALSE ELSE record[f].member}

RecordsOf(owners) ==
  CHOOSE rows \in [1..Cardinality(Members(owners)) -> Members(owners)] :
    /\ \A f \in Members(owners) : \E k \in DOMAIN rows : rows[k] = f
    /\ \A j, k \in DOMAIN rows : j < k => RowOf(rows[j]) < RowOf(rows[k])

GetRecords ==
  /\ pc = "records"
  /\ LET rows == RecordsOf({Owner[c] : c \in found})
     IN  IF rows = <<>> THEN EndRound
         ELSE /\ todo' = [i \in DOMAIN rows |-> [farmer |-> rows[i], tip |-> record[rows[i]].tip]]
              /\ pc' = "tip"
              /\ UNCHANGED <<held, scanned, found, bundle, shaken>>
  /\ UNCHANGED <<chain, peak, farmer, faults>>

\* Mutant: a tip that is spent ends the round.
CheckTipOrEnd ==
  /\ pc = "tip"
  /\ IF Len(path[Head(todo).farmer]) # Head(todo).tip THEN EndRound
     ELSE /\ pc' = "walk" /\ held' = lag
          /\ UNCHANGED <<locals, shaken>>
  /\ UNCHANGED <<chain, peak, farmer, faults>>

\* The coin after the stored tip is unspent, or the farmer has to wait.
CheckTip ==
  /\ pc = "tip"
  /\ IF Len(path[Head(todo).farmer]) # Head(todo).tip THEN NextFarmer
     ELSE /\ pc' = "walk" /\ held' = lag
          /\ UNCHANGED <<locals, shaken>>
  /\ UNCHANGED <<chain, peak, farmer, faults>>

\* Mutant: the walk compares with the peak of its end.
WalkedToNow(f, tip) ==
  Max({tip} \cup {i \in DOMAIN path[f] : i > tip /\ path[f][i].age >= lag})

\* get_singleton_state with a threshold of 0: the last spend not above the peak.
WalkedTo(f, tip) ==
  Max({tip} \cup {i \in DOMAIN path[f] : i > tip /\ path[f][i].age >= held})

\* get_farmed_height: the parent of the pool's share of a block names its height.
IsPoolReward(c) == Kind[c] = "pool"

\* create_absorb_transaction.  The assertion fails when the state was changed
\* above the peak; a coin that is not the pool's share of a block is passed over.
CreateAbsorb ==
  /\ pc = "walk"
  /\ LET f == Head(todo).farmer
         last == WalkedTo(f, Head(todo).tip)
         coins == {c \in found : Owner[c] = f /\ IsPoolReward(c)}
     IN  IF StateAt(f, last) # Latest(f) THEN EndRound
         ELSE IF StateAt(f, last) = "self" \/ coins = {} THEN NextFarmer
         ELSE /\ bundle' = [tip |-> last, coins |-> coins]
              /\ pc' = "push" /\ held' = 0
              /\ UNCHANGED <<scanned, found, todo, shaken>>
  /\ UNCHANGED <<chain, peak, farmer, faults>>

\* What the node accepts: the tip and the coins are unspent, no other bundle
\* that waits spends them, and the bundle fits into a block.
Acceptable(f) ==
  /\ bundle.tip = Len(path[f])
  /\ bundle.coins \subseteq Unspent
  /\ mempool[f] \in {{}, bundle.coins}
  /\ Cardinality(bundle.coins) <= BundleLimit

PushTx ==
  /\ pc = "push"
  /\ Acceptable(Head(todo).farmer)
  /\ mempool' = [mempool EXCEPT ![Head(todo).farmer] = bundle.coins]
  /\ NextFarmer
  /\ UNCHANGED <<age, path, revoked, peak, farmer, faults>>

\* The node says so in its answer, or the client raises.
PushRefused ==
  /\ pc = "push"
  /\ ~Acceptable(Head(todo).farmer)
  /\ NextFarmer \/ EndRound
  /\ UNCHANGED <<chain, peak, farmer, faults>>

\* Any exception ends the round, but for one on the walk itself; a bundle may
\* have reached the node all the same.
CallFails ==
  /\ pc # "idle" /\ Fault("node")
  /\ IF pc = "walk" THEN NextFarmer \/ EndRound ELSE EndRound
  /\ \/ UNCHANGED mempool
     \/ /\ pc = "push" /\ Acceptable(Head(todo).farmer)
        /\ mempool' = [mempool EXCEPT ![Head(todo).farmer] = bundle.coins]
  /\ UNCHANGED <<age, path, revoked, peak, farmer>>

\* get_pay_to_singleton_phs
StoredAddresses == {f \in Farmers : record[f] # None}

\* Store, node and chain survive; start reads the state of the chain.
Crash ==
  /\ Fault("crash")
  /\ EndRound
  /\ lag' = 0 /\ synced' = TRUE
  /\ scanSet' = StoredAddresses
  /\ adding' = None
  /\ UNCHANGED <<chain, record, strangers>>

------------------------------------------------------------------------------
Init ==
  /\ age = [c \in Coins |-> None]
  /\ path = [f \in Farmers |-> <<>>]
  /\ mempool = [f \in Farmers |-> {}]
  /\ revoked = {} /\ lag = 0 /\ synced = TRUE
  /\ record = [f \in Farmers |-> IF f \in Known THEN [tip |-> 0, member |-> TRUE] ELSE None]
  /\ scanSet = Known /\ adding = None /\ strangers = {}
  /\ pc = "idle" /\ held = 0
  /\ scanned = {} /\ found = {} /\ todo = <<>> /\ bundle = NoBundle
  /\ shaken = FALSE /\ faults = 0

Collect == StartRound \/ GetCoins \/ GetRecords \/ CheckTip \/ CreateAbsorb \/ PushTx \/ PushRefused
Records == StoreFarmer \/ \E f \in Farmers : AddFarmer(f) \/ UpdateSingleton(f)
Failure == MempoolDrops \/ Reorg \/ GetPeakUnsynced \/ CallFails \/ Crash

Next == NewBlock \/ GetPeak \/ Records \/ Collect \/ Failure

\* Loops and handlers run on, the chain grows and takes up the bundles it
\* accepted, and active farmers send partials.
Fairness ==
  /\ WF_vars(Collect) /\ WF_vars(StoreFarmer) /\ WF_vars(GetPeak)
  /\ SF_vars(NewBlock)
  /\ SF_vars(\E f \in Farmers : Includes(f))
  /\ \A f \in Active : WF_vars(UpdateSingleton(f))

Spec == Init /\ [][Next]_vars
FairSpec == Spec /\ Fairness

------------------------------------------------------------------------------
(* Properties.                                                             *)

\* "Only get puzzle hashes with a certain number of confirmations or more, to
\* avoid reorg issues" (pool.py, line 269): the coins of a bundle that waits are
\* buried on the chain itself, although the loop holds an old peak.
OnlyBuriedRewards ==
  \A f \in Farmers : \A c \in mempool[f] : age[c] # None /\ age[c] >= Threshold

\* The loop claims rewards for the pool (pool.py, lines 255-256): a bundle is
\* built on a state that pays this pool, although farmers leave and come back
\* while the loop waits.  What was spent after the tip was looked up is above the
\* remembered peak; only a reorg between the two may bring it below.  Membership
\* goes by the latest state (lines 806-836), which may be a return that is not
\* buried yet: when a reorg undoes it, the store has a member whose tip is at
\* another pool.  The others are those whom add_farmer should have refused
\* (line 638).
PaysThisPool ==
  pc = "push" =>
    LET f == Head(todo).farmer
    IN  \/ shaken
        \/ StateAt(f, bundle.tip) \in Assigned
        \/ <<f, bundle.tip + 1>> \in revoked
        \/ f \in strangers

Claimable(c) == c \in Unspent /\ age[c] = MaxAge
Rewards(f) == {c \in Unspent : Owner[c] = f /\ IsPoolReward(c)}

\* Why a reward may stay where it is: its farmer is not a member, or lets the
\* stored tip grow old; or the rewards of its farmer, or of one who is served
\* before, do not fit into one bundle (the TODO in singleton.py, line 202).
UpTo(f) == {FarmerRows[i] : i \in 1..SelectInSeq(FarmerRows, LAMBDA g : g = f)}
Stuck(f) ==
  \/ record[f] = None \/ ~record[f].member \/ Latest(f) \in {"self", "other"}
  \/ f \notin Active /\ record[f].tip # Len(path[f])
  \/ \E g \in UpTo(f) : Cardinality(Rewards(g)) > BundleLimit

\* A reward is absorbed in the end, whatever other farmers do or have at their
\* addresses, and after failures, reorgs and restarts.
RewardCollected ==
  \A c \in {d \in Coins : IsPoolReward(d)} : []<>(~Claimable(c) \/ Stuck(Owner[c]))
==============================================================================
