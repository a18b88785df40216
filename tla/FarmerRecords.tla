---------------------------- MODULE FarmerRecords ----------------------------
(***************************************************************************)
(* The record of one farmer: POST /farmer (add_farmer) creates it, PUT     *)
(* /farmer (update_farmer) changes it, confirmed partials and payouts move *)
(* its points, the difficulty adjustment its difficulty.  Farmers share    *)
(* nothing but the store's lock, so one launcher id is enough; the lock is *)
(* contended by the requests for that launcher id.                         *)
(*                                                                         *)
(* A step is the code between two awaits that can suspend.  The walk along *)
(* the singleton inside get_and_validate_singleton_state is one step here; *)
(* SingletonValidation has its interleavings.                              *)
(***************************************************************************)
EXTENDS Naturals, FiniteSets

CONSTANTS
  Posts, Puts, Confirms,  \* requests POST /farmer, PUT /farmer; confirmations of partials
  Keys, Payouts,          \* authentication keys, payout instructions
  Difficulties,           \* the difficulties that farmers may suggest
  None,                   \* an optional entry that is absent
  DefaultDifficulty, MinDifficulty,
  Asks,                   \* the payloads that requests may carry
  MaxTip,                 \* bound on the buried spends of the singleton
  MaxCrashes              \* bound on process restarts

Processes == Posts \cup Puts \cup Confirms
Record == [key : Keys, payout : Payouts, difficulty : Nat, points : Nat, tip : 0..MaxTip, member : BOOLEAN]
Payload == [key : Keys \cup {None}, payout : Payouts \cup {None}, difficulty : Difficulties \cup {None}]

\* Requests and confirmations are different processes, and None is no entry of a record.
ASSUME FarmerAssumption ==
  /\ Asks \subseteq Payload
  /\ Difficulties \subseteq Nat /\ DefaultDifficulty \in Nat /\ MinDifficulty \in Nat
  /\ DefaultDifficulty >= MinDifficulty
  /\ MaxTip \in Nat /\ MaxCrashes \in Nat
  /\ None \notin Keys \cup Payouts \cup Difficulties \cup Record
  /\ Posts \cap Puts = {} /\ Posts \cap Confirms = {} /\ Puts \cap Confirms = {}

VARIABLES
  record,     \* store: the row of the farmer, None before it exists
  assigned,   \* chain: the singleton is assigned to this pool
  buriedTip,  \* chain: its last buried spend
  pc,         \* pc[p]: where request p is
  asked,      \* asked[p]: the payload of request p
  base,       \* base[p]: the record as update_farmer read it
  seen,       \* seen[p]: the state of the singleton that validation returned
  blocked,    \* the launcher id is in farmer_update_blocked
  later,      \* later[p]: the task update_difficulty_later of p and its difficulty
  granted,    \* history: the registrations that were granted
  acked,      \* history: key and payout as last reported to be updated
  credited,   \* history: points credited since the last payout
  overlapped, \* history: an update began while another one was running
  crashes     \* history: number of restarts

chain == <<assigned, buriedTip>>
local == <<asked, base, seen>>
history == <<granted, acked, credited, overlapped>>
cooldown == <<blocked, later>>
vars == <<record, chain, pc, local, cooldown, history, crashes>>

TypeOK ==
  /\ record \in Record \cup {None}
  /\ assigned \in BOOLEAN /\ buriedTip \in 0..MaxTip
  /\ pc \in [Processes -> {"idle", "lockwait", "reading", "validate", "inserting",
                           "storing", "scheduling", "adding", "done"}]
  /\ asked \in [Processes -> Payload]
  /\ base \in [Processes -> Record \cup {None}]
  /\ seen \in [Processes -> [tip : 0..MaxTip, member : BOOLEAN]]
  /\ blocked \in BOOLEAN
  /\ later \in [Puts -> [at : {"none", "sleeping", "stored", "failed"}, to : Difficulties \cup {None}]]
  /\ granted \subseteq Posts
  /\ acked \in [key : Keys \cup {None}, payout : Payouts \cup {None}]
  /\ credited \in Nat /\ overlapped \in BOOLEAN /\ crashes \in 0..MaxCrashes

NoAsk == [key |-> None, payout |-> None, difficulty |-> None]
NoState == [tip |-> 0, member |-> FALSE]
NoTask == [at |-> "none", to |-> None]

Goto(p, label) == pc' = [pc EXCEPT ![p] = label]
Continue(p, label) == Goto(p, label) /\ UNCHANGED local

\* The request is answered, with or without an error, and its locals are gone.
Finish(p) ==
  /\ Goto(p, "done")
  /\ asked' = [asked EXCEPT ![p] = NoAsk]
  /\ base' = [base EXCEPT ![p] = None]
  /\ seen' = [seen EXCEPT ![p] = NoState]

------------------------------------------------------------------------------
(* The store.                                                              *)

\* The lock is held by whoever is inside `async with self.store.lock`.
InLock(p) ==
  \/ p \in Posts /\ pc[p] \in {"reading", "validate", "inserting"}
  \/ p \in Confirms /\ pc[p] \in {"reading", "adding"}
LockFree == \A p \in Processes : ~InLock(p)

\* Mutant: the UPDATE writes every column of the record it is given.
StoreWholeRecord(new) == new

\* Mutant: the UPDATE leaves the payout instructions alone.
StoreRecordKeepsPayout(new) ==
  IF record = None THEN new
  ELSE [new EXCEPT !.points = record.points, !.difficulty = record.difficulty, !.payout = record.payout]

\* add_farmer_record: INSERT, or an UPDATE that leaves points and difficulty.
StoreRecord(new) ==
  IF record = None THEN new
  ELSE [new EXCEPT !.points = record.points, !.difficulty = record.difficulty]

\* get_and_validate_singleton_state: no answer, or the tip and whether the
\* singleton is assigned to this pool.  Whoever made the walk (not those who
\* joined it) updates a stored record whose tip differs.
Validate ==
  \/ UNCHANGED record
  \/ /\ record # None
     /\ record.tip # buriedTip
     /\ record' = [record EXCEPT !.tip = buriedTip, !.member = assigned]

------------------------------------------------------------------------------
(* add_farmer: the whole request runs under the store's lock.              *)

\* Mutant: add_farmer does not wait for the lock.
PostWithoutLock(p) ==
  /\ p \in Posts /\ pc[p] = "idle"
  /\ \E a \in Asks : /\ a.key # None /\ a.payout # None
                     /\ asked' = [asked EXCEPT ![p] = a]
  /\ Goto(p, "reading")
  /\ UNCHANGED <<record, chain, base, seen, cooldown, history, crashes>>

\* A request changes nothing until it has the lock, which is when it begins here.
PostFarmer(p) ==
  /\ p \in Posts /\ pc[p] = "idle"
  /\ LockFree
  /\ \E a \in Asks : /\ a.key # None /\ a.payout # None
                     /\ asked' = [asked EXCEPT ![p] = a]
  /\ Goto(p, "reading")
  /\ UNCHANGED <<record, chain, base, seen, cooldown, history, crashes>>

PostReadsRecord(p) ==
  /\ p \in Posts /\ pc[p] = "reading"
  /\ IF record # None THEN Finish(p) ELSE Continue(p, "validate")
  /\ UNCHANGED <<record, chain, cooldown, history, crashes>>

\* An invalid singleton, signature, payout instruction or delay time is an
\* error; whether the singleton is a member is not looked at (line 638).
PostValidates(p) ==
  /\ p \in Posts /\ pc[p] = "validate"
  /\ Validate
  /\ \/ Finish(p)
     \/ /\ seen' = [seen EXCEPT ![p] = [tip |-> buriedTip, member |-> assigned]]
        /\ Goto(p, "inserting") /\ UNCHANGED <<asked, base>>
  /\ UNCHANGED <<chain, cooldown, history, crashes>>

\* Mutant: the suggestion is not looked at for being absent.
SuggestedDifficulty(d) == d

FirstDifficulty(d) == IF d = None THEN DefaultDifficulty
                      ELSE IF d < MinDifficulty THEN DefaultDifficulty ELSE d

PostInserts(p) ==
  /\ p \in Posts /\ pc[p] = "inserting"
  /\ record' = StoreRecord([key |-> asked[p].key, payout |-> asked[p].payout,
                            difficulty |-> FirstDifficulty(asked[p].difficulty), points |-> 0,
                            tip |-> seen[p].tip, member |-> TRUE])
  /\ acked' = [key |-> asked[p].key, payout |-> asked[p].payout]
  /\ granted' = granted \cup {p}
  /\ Finish(p)
  /\ UNCHANGED <<chain, cooldown, credited, overlapped, crashes>>

------------------------------------------------------------------------------
(* update_farmer: no lock.                                                 *)

Running(p) == pc[p] \notin {"idle", "done"}

\* An update begins while another one is running.
Overlaps == overlapped' = (overlapped \/ \E q \in Puts : Running(q))

\* Mutant: a launcher id that is blocked is not turned away.
PutFarmerUnblocked(p) ==
  /\ p \in Puts /\ pc[p] = "idle"
  /\ \E a \in Asks : asked' = [asked EXCEPT ![p] = a]
  /\ Goto(p, "reading") /\ Overlaps
  /\ UNCHANGED <<record, chain, base, seen, cooldown, granted, acked, credited, crashes>>

PutFarmer(p) ==
  /\ p \in Puts /\ pc[p] = "idle"
  /\ IF blocked THEN Finish(p) /\ UNCHANGED overlapped
     ELSE /\ \E a \in Asks : asked' = [asked EXCEPT ![p] = a]
          /\ Goto(p, "reading") /\ Overlaps
          /\ UNCHANGED <<base, seen>>
  /\ UNCHANGED <<record, chain, cooldown, granted, acked, credited, crashes>>

PutReadsRecord(p) ==
  /\ p \in Puts /\ pc[p] = "reading"
  /\ IF record = None THEN Finish(p)
     ELSE /\ base' = [base EXCEPT ![p] = record]
          /\ Goto(p, "validate") /\ UNCHANGED <<asked, seen>>
  /\ UNCHANGED <<record, chain, cooldown, history, crashes>>

\* An entry that is absent, or equal to the one read, is not new.
New(p, field) == asked[p][field] # None /\ asked[p][field] # base[p][field]
Updated(p) == [base[p] EXCEPT !.key = IF New(p, "key") THEN asked[p].key ELSE @,
                              !.payout = IF New(p, "payout") THEN asked[p].payout ELSE @]

\* A new difficulty is announced now and stored after the cooldown.
Schedules(p) == New(p, "difficulty") /\ asked[p].difficulty >= MinDifficulty
Schedule(p) ==
  /\ IF Schedules(p)
       THEN /\ blocked' = TRUE
            /\ later' = [later EXCEPT ![p] = [at |-> "sleeping", to |-> asked[p].difficulty]]
       ELSE UNCHANGED cooldown
  /\ Finish(p)

\* Without anything new for the store the request is answered at once.
PutValidates(p) ==
  /\ p \in Puts /\ pc[p] = "validate"
  /\ Validate
  /\ \/ Finish(p) /\ UNCHANGED cooldown
     \/ IF Updated(p) = base[p] THEN Schedule(p)
        ELSE Continue(p, "storing") /\ UNCHANGED cooldown
  /\ UNCHANGED <<chain, history, crashes>>

\* The record as it was read, with the new entries, is written back.
PutStores(p) ==
  /\ p \in Puts /\ pc[p] = "storing"
  /\ record' = StoreRecord(Updated(p))
  /\ acked' = [key |-> IF New(p, "key") THEN asked[p].key ELSE acked.key,
               payout |-> IF New(p, "payout") THEN asked[p].payout ELSE acked.payout]
  /\ Goto(p, "scheduling")
  /\ UNCHANGED <<chain, local, cooldown, granted, credited, overlapped, crashes>>

PutSchedules(p) ==
  /\ p \in Puts /\ pc[p] = "scheduling"
  /\ Schedule(p)
  /\ UNCHANGED <<record, chain, history, crashes>>

\* update_difficulty_later, after its sleep: store, then unblock.  A failure of
\* the store ends the task before it unblocks.
LaterStores(p) ==
  /\ later[p].at = "sleeping"
  /\ \/ /\ record' = [record EXCEPT !.difficulty = later[p].to]
        /\ later' = [later EXCEPT ![p].at = "stored"]
     \/ /\ later' = [later EXCEPT ![p].at = "failed"]
        /\ UNCHANGED record
  /\ UNCHANGED <<chain, pc, local, blocked, history, crashes>>

\* Mutant: the task ends without taking the launcher id off the set.
LaterForgetsToUnblock(p) ==
  /\ later[p].at = "stored"
  /\ later' = [later EXCEPT ![p] = NoTask]
  /\ UNCHANGED <<record, chain, pc, local, blocked, history, crashes>>

\* set.remove of a launcher id that is gone raises, and the task ends.
LaterUnblocks(p) ==
  /\ later[p].at = "stored"
  /\ blocked' = FALSE
  /\ later' = [later EXCEPT ![p] = NoTask]
  /\ UNCHANGED <<record, chain, pc, local, history, crashes>>

------------------------------------------------------------------------------
(* The others that write the record: confirmations of partials, payouts,   *)
(* the difficulty adjustment.                                              *)

ConfirmStarts(p) ==
  /\ p \in Confirms /\ pc[p] = "idle"
  /\ record # None
  /\ Goto(p, "validate")
  /\ UNCHANGED <<record, chain, local, cooldown, history, crashes>>

ConfirmValidates(p) ==
  /\ p \in Confirms /\ pc[p] = "validate"
  /\ Validate
  /\ Finish(p) \/ (assigned /\ Continue(p, "lockwait"))
  /\ UNCHANGED <<chain, cooldown, history, crashes>>

ConfirmTakesLock(p) ==
  /\ p \in Confirms /\ pc[p] = "lockwait"
  /\ LockFree
  /\ Goto(p, "reading")
  /\ UNCHANGED <<record, chain, local, cooldown, history, crashes>>

ConfirmReadsRecord(p) ==
  /\ p \in Confirms /\ pc[p] = "reading"
  /\ IF record.member THEN Continue(p, "adding") ELSE Finish(p)
  /\ UNCHANGED <<record, chain, cooldown, history, crashes>>

\* UPDATE farmer SET points=points+?
ConfirmAddsPoints(p) ==
  /\ p \in Confirms /\ pc[p] = "adding"
  /\ record' = [record EXCEPT !.points = @ + 1]
  /\ credited' = credited + 1
  /\ Finish(p)
  /\ UNCHANGED <<chain, cooldown, granted, acked, overlapped, crashes>>

\* UPDATE farmer SET points=0, under the lock.
PayoutClearsPoints ==
  /\ record # None /\ LockFree
  /\ record' = [record EXCEPT !.points = 0]
  /\ credited' = 0
  /\ UNCHANGED <<chain, pc, local, cooldown, granted, acked, overlapped, crashes>>

\* process_partial stores what the difficulty function returns, under the lock.
AdjustDifficulty ==
  /\ record # None /\ LockFree
  /\ \E d \in {x \in Difficulties : x >= MinDifficulty} : record' = [record EXCEPT !.difficulty = d]
  /\ UNCHANGED <<chain, pc, local, cooldown, history, crashes>>

------------------------------------------------------------------------------
(* The chain, and restarts of the process.                                 *)

SingletonMoves ==
  /\ buriedTip < MaxTip
  /\ assigned' \in BOOLEAN
  /\ buriedTip' = buriedTip + 1
  /\ UNCHANGED <<record, pc, local, cooldown, history, crashes>>

\* Only the store survives: a scheduled change of difficulty is forgotten.
Crash ==
  /\ crashes < MaxCrashes
  /\ crashes' = crashes + 1
  /\ pc' = [p \in Processes |-> IF pc[p] = "idle" THEN "idle" ELSE "done"]
  /\ blocked' = FALSE
  /\ later' = [p \in Puts |-> NoTask]
  /\ asked' = [p \in Processes |-> NoAsk]
  /\ base' = [p \in Processes |-> None] /\ seen' = [p \in Processes |-> NoState]
  /\ UNCHANGED <<record, chain, history>>

Init ==
  /\ record = None
  /\ assigned \in BOOLEAN /\ buriedTip = 0
  /\ pc = [p \in Processes |-> "idle"]
  /\ asked = [p \in Processes |-> NoAsk]
  /\ base = [p \in Processes |-> None]
  /\ seen = [p \in Processes |-> NoState]
  /\ blocked = FALSE /\ later = [p \in Puts |-> NoTask]
  /\ granted = {}
  /\ acked = [key |-> None, payout |-> None]
  /\ credited = 0 /\ overlapped = FALSE /\ crashes = 0

Post(p) == PostFarmer(p) \/ PostReadsRecord(p) \/ PostValidates(p) \/ PostInserts(p)
Put(p) == PutFarmer(p) \/ PutReadsRecord(p) \/ PutValidates(p) \/ PutStores(p) \/ PutSchedules(p)
Later(p) == LaterStores(p) \/ LaterUnblocks(p)
Confirm(p) ==
  \/ ConfirmStarts(p) \/ ConfirmValidates(p) \/ ConfirmTakesLock(p)
  \/ ConfirmReadsRecord(p) \/ ConfirmAddsPoints(p)

Next ==
  \/ \E p \in Posts : Post(p)
  \/ \E p \in Puts : Put(p) \/ Later(p)
  \/ \E p \in Confirms : Confirm(p)
  \/ PayoutClearsPoints \/ AdjustDifficulty \/ SingletonMoves \/ Crash

Spec == Init /\ [][Next]_vars

\* The event loop runs the delayed tasks when their sleep is over.
FairSpec == Spec /\ \A p \in Puts : WF_vars(LaterStores(p)) /\ WF_vars(LaterUnblocks(p))

------------------------------------------------------------------------------
(* Properties.                                                             *)

\* A record that update_farmer read long ago and writes back (lines 704-745)
\* takes no points away and brings none back.
PointsSurviveUpdates == record # None => record.points = credited

\* Of all requests to register a launcher id at most one is granted (lines
\* 622-694), and the record it creates is not replaced by another request.
RegisteredOnce == Cardinality(granted) <= 1

\* A farmer whose change of difficulty is on its way can send updates again in
\* the end, whatever requests, payouts and restarts come in between; only a failure
\* of the store in update_difficulty_later (line 749, before the launcher id is
\* taken off the set in line 750) can keep the farmer out.
BlockedIsReleased == blocked ~> (~blocked \/ \E p \in Puts : later[p].at = "failed")

\* What a response reported as updated is what the store holds: "the value must
\* be true if the entry has been updated" (SPECIFICATION.md, lines 313-314).  Only
\* an update that overlapped with it, and wrote back what it had read before, can
\* have undone it.
ReportedUpdatesHold ==
  record # None /\ ~overlapped => record.key = acked.key /\ record.payout = acked.payout

\* "Only allow PUT /farmer per launcher_id every n seconds to prevent difficulty
\* change attacks" (line 139): two changes of the difficulty are on their way
\* together only if the two requests were being handled together.
OneChangeAtATime ==
  \A p, q \in Puts : p # q /\ later[p].at = "sleeping" /\ later[q].at = "sleeping" => overlapped

\* Only a singleton that was found to be assigned to this pool is registered:
\* otherwise the answer is "is not assigned to this pool" (line 641).
OnlyMembersRegistered == [][\A p \in Posts : PostInserts(p) => seen[p].member]_vars
=============================================================================
