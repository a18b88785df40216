-------------------------- MODULE FarmerRecordsProofs --------------------------
(***************************************************************************)
(* The safety properties of FarmerRecords hold for any number of requests, *)
(* confirmations and restarts.  The argument is the inductive invariant    *)
(* RecordsInv; one lemma per action shows that the action preserves it.    *)
(***************************************************************************)
EXTENDS FarmerRecords, FiniteSetTheorems, TLAPS

USE FarmerAssumption
USE DEF FarmerAssumption, Processes, Payload, NoAsk, NoState, NoTask, Running, chain, local, history, cooldown

------------------------------------------------------------------------------
(* The inductive invariant.                                                *)

\* Where each kind of process can be, and which of its locals are set there.
PlaceInv ==
  /\ \A p \in Posts : /\ pc[p] \in {"idle", "reading", "validate", "inserting", "done"}
                      /\ InLock(p) => asked[p].key # None /\ asked[p].payout # None
  /\ \A p \in Puts : /\ pc[p] \in {"idle", "reading", "validate", "storing", "scheduling", "done"}
                     /\ pc[p] \in {"validate", "storing", "scheduling"} => base[p] # None /\ record # None
                     /\ later[p].at # "none" => later[p].to # None /\ record # None
  /\ \A p \in Confirms : /\ pc[p] \in {"idle", "validate", "lockwait", "reading", "adding", "done"}
                         /\ pc[p] \notin {"idle", "done"} => record # None

\* The lock has one holder, and a registration that goes on under it has found
\* no record, which stays so.
LockInv ==
  /\ \A p, q \in Processes : InLock(p) /\ InLock(q) => p = q
  /\ \A p \in Posts : pc[p] \in {"validate", "inserting"} => record = None

\* There is a record when one registration was granted; before, no points.
GrantInv ==
  /\ record = None => granted = {} /\ credited = 0
  /\ \A p, q \in granted : p = q

\* As long as updates did not overlap, one runs at a time and what it has read
\* is what the store still holds.
UpdateInv == ~overlapped =>
  /\ \A p, q \in Puts : Running(p) /\ Running(q) => p = q
  /\ \A p \in Puts : pc[p] \in {"validate", "storing"} =>
       base[p].key = record.key /\ base[p].payout = record.payout

\* ... and while a change of difficulty is on its way the farmer is blocked, so
\* that no update runs and no other change is on its way.
Busy(p) == later[p].at \in {"sleeping", "stored"}
ChangeInv == ~overlapped =>
  \A p \in Puts : Busy(p) =>
    /\ blocked
    /\ \A q \in Puts : ~Running(q) /\ (Busy(q) => q = p)

\* The inductive invariant of the farmer's record.
RecordsInv ==
  /\ TypeOK /\ PlaceInv /\ LockInv /\ GrantInv
  /\ PointsSurviveUpdates /\ UpdateInv /\ ReportedUpdatesHold /\ ChangeInv

------------------------------------------------------------------------------
(* What the store's operations do to the record.                           *)

\* A validation keeps the record, but for tip and membership.
LEMMA ValidateKeeps ==
  ASSUME TypeOK, Validate
  PROVE  /\ record' \in Record \cup {None} /\ (record' = None <=> record = None)
         /\ record # None => /\ record'.key = record.key /\ record'.payout = record.payout
                            /\ record'.points = record.points
<1>1. None \notin Record
  OBVIOUS
<1>2. CASE UNCHANGED record
  BY <1>2 DEF TypeOK
<1>3. CASE record # None /\ record' = [record EXCEPT !.tip = buriedTip, !.member = assigned]
  <2>1. record \in Record /\ buriedTip \in 0..MaxTip /\ assigned \in BOOLEAN
    BY <1>3 DEF TypeOK
  <2>2. record' \in Record
    BY <1>3, <2>1 DEF Record
  <2>3. record'.key = record.key /\ record'.payout = record.payout /\ record'.points = record.points
    BY <1>3, <2>1 DEF Record
  <2> QED
    BY <1>1, <1>3, <2>2, <2>3
<1> QED
  BY <1>2, <1>3 DEF Validate

\* Storing a record keeps the points of the row that is there.
LEMMA StoreRecordKeeps ==
  ASSUME TypeOK, NEW new \in Record
  PROVE  /\ StoreRecord(new) \in Record
         /\ StoreRecord(new).key = new.key /\ StoreRecord(new).payout = new.payout
         /\ StoreRecord(new).points = IF record = None THEN new.points ELSE record.points
  BY DEF TypeOK, StoreRecord, Record

\* Where the process that a step does not move is, it stays.
LEMMA GotoMoves ==
  ASSUME TypeOK, NEW p \in Processes, NEW label, Goto(p, label)
  PROVE  pc'[p] = label /\ \A q \in Processes \ {p} : pc'[q] = pc[q]
  BY DEF TypeOK, Goto

------------------------------------------------------------------------------
(* Initial states, and steps that leave the processes alone.               *)

\* No farmer, no requests.
LEMMA InitRecords == Init => RecordsInv
<1> SUFFICES ASSUME Init PROVE RecordsInv
  OBVIOUS
<1>1. TypeOK
  <2>1. NoAsk \in Payload /\ NoState \in [tip : 0..MaxTip, member : BOOLEAN]
    OBVIOUS
  <2>2. NoTask \in [at : {"none", "sleeping", "stored", "failed"}, to : Difficulties \cup {None}]
    OBVIOUS
  <2>3. acked \in [key : Keys \cup {None}, payout : Payouts \cup {None}]
    BY DEF Init
  <2> HIDE DEF NoAsk, NoState, NoTask, Payload
  <2>4. /\ asked \in [Processes -> Payload] /\ base \in [Processes -> Record \cup {None}]
        /\ seen \in [Processes -> [tip : 0..MaxTip, member : BOOLEAN]]
    BY <2>1 DEF Init
  <2>5. later \in [Puts -> [at : {"none", "sleeping", "stored", "failed"}, to : Difficulties \cup {None}]]
    BY <2>2 DEF Init
  <2>6. pc \in [Processes -> {"idle", "lockwait", "reading", "validate", "inserting",
                           "storing", "scheduling", "adding", "done"}]
    BY DEF Init
  <2>7. buriedTip \in 0..MaxTip /\ credited \in Nat /\ crashes \in 0..MaxCrashes
    BY DEF Init
  <2>8. /\ record \in Record \cup {None} /\ assigned \in BOOLEAN /\ blocked \in BOOLEAN
        /\ granted \subseteq Posts /\ overlapped \in BOOLEAN
    BY DEF Init
  <2> QED
    BY <2>3, <2>4, <2>5, <2>6, <2>7, <2>8 DEF TypeOK
<1>2. PlaceInv /\ LockInv
  BY DEF Init, PlaceInv, LockInv, InLock
<1>3. GrantInv /\ PointsSurviveUpdates /\ ReportedUpdatesHold
  BY DEF Init, GrantInv, PointsSurviveUpdates, ReportedUpdatesHold
<1>4. UpdateInv /\ ChangeInv
  BY DEF Init, UpdateInv, ChangeInv, Busy
<1> QED
  BY <1>1, <1>2, <1>3, <1>4 DEF RecordsInv

\* A process that gives up, or has been answered, leaves no trace but `done`.
LEMMA FinishInv ==
  ASSUME RecordsInv, NEW p \in Processes, Finish(p), Validate \/ UNCHANGED record,
         UNCHANGED <<chain, cooldown, history, crashes>>
  PROVE  RecordsInv'
<1> USE DEF RecordsInv
<1>1. /\ pc'[p] = "done" /\ \A q \in Processes \ {p} : pc'[q] = pc[q]
      /\ base'[p] = None /\ \A q \in Processes \ {p} : base'[q] = base[q] /\ asked'[q] = asked[q]
  BY DEF Finish, Goto, TypeOK
<1>2. /\ record' \in Record \cup {None} /\ (record' = None <=> record = None)
      /\ record # None => /\ record'.key = record.key /\ record'.payout = record.payout
                         /\ record'.points = record.points
  BY ValidateKeeps DEF TypeOK
<1>3. TypeOK'
  BY <1>2 DEF TypeOK, Finish, Goto
<1>4. PlaceInv'
  BY <1>1, <1>2 DEF PlaceInv, InLock
<1>5. LockInv'
  BY <1>1, <1>2 DEF LockInv, InLock
<1>6. GrantInv' /\ PointsSurviveUpdates' /\ ReportedUpdatesHold'
  BY <1>2 DEF GrantInv, PointsSurviveUpdates, ReportedUpdatesHold
<1>7. UpdateInv'
  BY <1>1, <1>2 DEF UpdateInv, PlaceInv
<1>8. ChangeInv'
  BY <1>1 DEF ChangeInv, Busy
<1> QED
  BY <1>3, <1>4, <1>5, <1>6, <1>7, <1>8

------------------------------------------------------------------------------
(* add_farmer.                                                             *)

\* The request has the lock, and nobody else does.
LEMMA PostFarmerInv ==
  ASSUME RecordsInv, NEW p \in Posts, PostFarmer(p)
  PROVE  RecordsInv'
<1> USE DEF RecordsInv
<1>1. PICK a \in Asks : a.key # None /\ a.payout # None /\ asked' = [asked EXCEPT ![p] = a]
  BY DEF PostFarmer
<1>2. /\ pc[p] = "idle" /\ pc'[p] = "reading" /\ \A q \in Processes \ {p} : pc'[q] = pc[q]
      /\ asked'[p] = a /\ \A q \in Processes \ {p} : asked'[q] = asked[q]
  BY <1>1, GotoMoves DEF PostFarmer, TypeOK
<1>3. UNCHANGED <<record, base, later, blocked, history>>
  BY DEF PostFarmer
<1>4. TypeOK'
  BY <1>1 DEF TypeOK, PostFarmer, Goto
<1>5. PlaceInv'
  BY <1>1, <1>2, <1>3 DEF PlaceInv, InLock
<1>6. LockInv'
  BY <1>2, <1>3 DEF LockInv, InLock, PostFarmer, LockFree
<1>7. GrantInv' /\ PointsSurviveUpdates' /\ ReportedUpdatesHold'
  BY <1>3 DEF GrantInv, PointsSurviveUpdates, ReportedUpdatesHold
<1>8. UpdateInv' /\ ChangeInv'
  BY <1>2, <1>3 DEF UpdateInv, ChangeInv, Busy
<1> QED
  BY <1>4, <1>5, <1>6, <1>7, <1>8

\* Under the lock a registration goes on only if there is no record.
LEMMA PostReadsRecordInv ==
  ASSUME RecordsInv, NEW p \in Posts, PostReadsRecord(p)
  PROVE  RecordsInv'
<1> USE DEF RecordsInv
<1>1. CASE record # None
  BY <1>1, FinishInv DEF PostReadsRecord
<1>2. CASE record = None
  <2>1. /\ pc[p] = "reading" /\ pc'[p] = "validate" /\ \A q \in Processes \ {p} : pc'[q] = pc[q]
        /\ UNCHANGED <<record, local, cooldown, history>>
    BY <1>2, GotoMoves DEF PostReadsRecord, Continue
  <2>2. TypeOK'
    BY <1>2 DEF TypeOK, PostReadsRecord, Continue, Goto
  <2>3. PlaceInv'
    BY <2>1 DEF PlaceInv, InLock
  <2>4. LockInv'
    BY <1>2, <2>1 DEF LockInv, InLock
  <2>5. GrantInv' /\ PointsSurviveUpdates' /\ ReportedUpdatesHold'
    BY <2>1 DEF GrantInv, PointsSurviveUpdates, ReportedUpdatesHold
  <2>6. UpdateInv' /\ ChangeInv'
    BY <2>1 DEF UpdateInv, ChangeInv, Busy
  <2> QED
    BY <2>2, <2>3, <2>4, <2>5, <2>6
<1> QED
  BY <1>1, <1>2

\* The validation finds no record that it could change.
LEMMA PostValidatesInv ==
  ASSUME RecordsInv, NEW p \in Posts, PostValidates(p)
  PROVE  RecordsInv'
<1> USE DEF RecordsInv
<1>1. CASE Finish(p)
  BY <1>1, FinishInv DEF PostValidates
<1>2. CASE /\ seen' = [seen EXCEPT ![p] = [tip |-> buriedTip, member |-> assigned]]
           /\ Goto(p, "inserting") /\ UNCHANGED <<asked, base>>
  <2>1. /\ pc[p] = "validate" /\ pc'[p] = "inserting" /\ \A q \in Processes \ {p} : pc'[q] = pc[q]
        /\ UNCHANGED <<asked, base, cooldown, history>>
    BY <1>2, GotoMoves DEF PostValidates
  <2>2. record = None /\ record' = None
    BY ValidateKeeps DEF PostValidates, LockInv
  <2>3. TypeOK'
    BY <1>2, <2>2 DEF TypeOK, PostValidates, Goto
  <2>4. PlaceInv'
    BY <2>1, <2>2 DEF PlaceInv, InLock
  <2>5. LockInv'
    BY <2>1, <2>2 DEF LockInv, InLock
  <2>6. GrantInv' /\ PointsSurviveUpdates' /\ ReportedUpdatesHold'
    BY <2>1, <2>2 DEF GrantInv, PointsSurviveUpdates, ReportedUpdatesHold
  <2>7. UpdateInv' /\ ChangeInv'
    BY <2>1, <2>2 DEF UpdateInv, ChangeInv, Busy
  <2> QED
    BY <2>3, <2>4, <2>5, <2>6, <2>7
<1> QED
  BY <1>1, <1>2 DEF PostValidates

\* The row is new: no points, and no other registration was granted.
LEMMA PostInsertsInv ==
  ASSUME RecordsInv, NEW p \in Posts, PostInserts(p)
  PROVE  RecordsInv'
<1> USE DEF RecordsInv
<1> DEFINE new == [key |-> asked[p].key, payout |-> asked[p].payout,
                   difficulty |-> FirstDifficulty(asked[p].difficulty), points |-> 0,
                   tip |-> seen[p].tip, member |-> TRUE]
<1>1. /\ pc[p] = "inserting" /\ pc'[p] = "done" /\ \A q \in Processes \ {p} : pc'[q] = pc[q]
      /\ base'[p] = None /\ \A q \in Processes \ {p} : base'[q] = base[q] /\ asked'[q] = asked[q]
      /\ UNCHANGED <<cooldown, credited, overlapped>>
  BY DEF PostInserts, Finish, Goto, TypeOK
<1>2. record = None /\ granted = {} /\ credited = 0
  BY <1>1 DEF LockInv, GrantInv
<1>3. new \in Record
  <2>1. asked[p].key \in Keys /\ asked[p].payout \in Payouts
    BY <1>1 DEF PlaceInv, InLock, TypeOK
  <2>2. FirstDifficulty(asked[p].difficulty) \in Nat
    BY DEF FirstDifficulty, TypeOK
  <2>3. seen[p].tip \in 0..MaxTip
    BY DEF TypeOK
  <2> QED
    BY <2>1, <2>2, <2>3 DEF Record
<1>4. record' = new /\ record' # None /\ record' \in Record
  BY <1>2, <1>3 DEF PostInserts, StoreRecord
<1>5. /\ record'.key = acked'.key /\ record'.payout = acked'.payout /\ record'.points = 0
      /\ granted' = {p}
  <2>1. new.key = asked[p].key /\ new.payout = asked[p].payout /\ new.points = 0
    OBVIOUS
  <2>2. acked' = [key |-> asked[p].key, payout |-> asked[p].payout] /\ granted' = granted \cup {p}
    BY DEF PostInserts
  <2> HIDE DEF new
  <2> QED
    BY <1>2, <1>4, <2>1, <2>2
<1>6. TypeOK'
  <2>1. acked' \in [key : Keys \cup {None}, payout : Payouts \cup {None}]
    BY DEF TypeOK, PostInserts
  <2> QED
    BY <1>4, <1>5, <2>1 DEF TypeOK, PostInserts, Finish, Goto
<1>7. PlaceInv'
  BY <1>1, <1>2, <1>4 DEF PlaceInv, InLock
<1>8. LockInv'
  BY <1>1 DEF LockInv, InLock
<1>9. GrantInv' /\ PointsSurviveUpdates' /\ ReportedUpdatesHold'
  BY <1>1, <1>2, <1>4, <1>5 DEF GrantInv, PointsSurviveUpdates, ReportedUpdatesHold
<1>10. UpdateInv'
  BY <1>1, <1>2 DEF UpdateInv, PlaceInv
<1>11. ChangeInv'
  BY <1>1 DEF ChangeInv, Busy
<1> QED
  BY <1>6, <1>7, <1>8, <1>9, <1>10, <1>11

------------------------------------------------------------------------------
(* update_farmer, and the delayed change of the difficulty.                *)

\* An update begins: only when the farmer is not blocked.
LEMMA PutFarmerInv ==
  ASSUME RecordsInv, NEW p \in Puts, PutFarmer(p)
  PROVE  RecordsInv'
<1> USE DEF RecordsInv
<1>1. CASE blocked
  BY <1>1, FinishInv DEF PutFarmer
<1>2. CASE ~blocked
  <2>1. PICK a \in Asks : asked' = [asked EXCEPT ![p] = a]
    BY <1>2 DEF PutFarmer
  <2>2. /\ pc[p] = "idle" /\ pc'[p] = "reading" /\ \A q \in Processes \ {p} : pc'[q] = pc[q]
        /\ \A q \in Processes \ {p} : asked'[q] = asked[q]
        /\ UNCHANGED <<record, base, seen, cooldown, granted, acked, credited>>
    BY <1>2, <2>1, GotoMoves DEF PutFarmer, TypeOK
  <2>3. overlapped' = (overlapped \/ \E q \in Puts : Running(q))
    BY <1>2 DEF PutFarmer, Overlaps
  <2>4. TypeOK'
    <3>1. overlapped' \in BOOLEAN
      BY <2>3 DEF TypeOK
    <3>2. asked' \in [Processes -> Payload]
      BY <2>1 DEF TypeOK
    <3> QED
      BY <1>2, <3>1, <3>2 DEF TypeOK, PutFarmer, Goto
  <2>5. PlaceInv'
    BY <2>2 DEF PlaceInv, InLock
  <2>6. LockInv'
    BY <2>2 DEF LockInv, InLock
  <2>7. GrantInv' /\ PointsSurviveUpdates' /\ ReportedUpdatesHold'
    BY <2>2, <2>3 DEF GrantInv, PointsSurviveUpdates, ReportedUpdatesHold
  <2>8. UpdateInv'
    BY <2>2, <2>3 DEF UpdateInv
  <2>9. ChangeInv'
    BY <1>2, <2>2, <2>3 DEF ChangeInv, Busy
  <2> QED
    BY <2>4, <2>5, <2>6, <2>7, <2>8, <2>9
<1> QED
  BY <1>1, <1>2

\* What the update has read is what the store holds.
LEMMA PutReadsRecordInv ==
  ASSUME RecordsInv, NEW p \in Puts, PutReadsRecord(p)
  PROVE  RecordsInv'
<1> USE DEF RecordsInv
<1>1. CASE record = None
  BY <1>1, FinishInv DEF PutReadsRecord
<1>2. CASE record # None
  <2>1. /\ pc[p] = "reading" /\ pc'[p] = "validate" /\ \A q \in Processes \ {p} : pc'[q] = pc[q]
        /\ base'[p] = record /\ \A q \in Processes \ {p} : base'[q] = base[q]
        /\ UNCHANGED <<record, asked, seen, cooldown, history>>
    BY <1>2, GotoMoves DEF PutReadsRecord, TypeOK
  <2>2. TypeOK'
    BY <1>2 DEF TypeOK, PutReadsRecord, Goto
  <2>3. PlaceInv'
    BY <1>2, <2>1 DEF PlaceInv, InLock
  <2>4. LockInv'
    BY <2>1 DEF LockInv, InLock
  <2>5. GrantInv' /\ PointsSurviveUpdates' /\ ReportedUpdatesHold'
    BY <2>1 DEF GrantInv, PointsSurviveUpdates, ReportedUpdatesHold
  <2>6. UpdateInv' /\ ChangeInv'
    BY <2>1 DEF UpdateInv, ChangeInv, Busy
  <2> QED
    BY <2>2, <2>3, <2>4, <2>5, <2>6
<1> QED
  BY <1>1, <1>2

\* The request is answered, and its change of difficulty may be on its way: it was
\* the only update that ran, and there was no other change, or updates overlapped.
LEMMA ScheduleInv ==
  ASSUME RecordsInv, NEW p \in Puts, pc[p] \in {"validate", "scheduling"}, Schedule(p),
         Validate \/ UNCHANGED record, UNCHANGED <<chain, history, crashes>>
  PROVE  RecordsInv'
<1> USE DEF RecordsInv
<1>1. CASE ~Schedules(p)
  BY <1>1, FinishInv DEF Schedule
<1>2. CASE Schedules(p)
  <2>1. /\ pc'[p] = "done" /\ \A q \in Processes \ {p} : pc'[q] = pc[q]
        /\ base'[p] = None /\ \A q \in Processes \ {p} : base'[q] = base[q] /\ asked'[q] = asked[q]
    BY DEF Schedule, Finish, Goto, TypeOK
  <2>2. /\ record' \in Record \cup {None} /\ (record' = None <=> record = None)
        /\ record # None => /\ record'.key = record.key /\ record'.payout = record.payout
                           /\ record'.points = record.points
    BY ValidateKeeps DEF TypeOK
  <2>3. asked[p].difficulty \in Difficulties /\ asked[p].difficulty # None
    BY <1>2 DEF Schedules, New, TypeOK
  <2>4. /\ blocked' = TRUE /\ later'[p] = [at |-> "sleeping", to |-> asked[p].difficulty]
        /\ \A q \in Puts \ {p} : later'[q] = later[q]
    BY <1>2 DEF Schedule, TypeOK
  <2>5. TypeOK'
    <3>1. later' \in [Puts -> [at : {"none", "sleeping", "stored", "failed"}, to : Difficulties \cup {None}]]
      BY <1>2, <2>3 DEF Schedule, TypeOK
    <3>2. blocked' \in BOOLEAN
      BY <2>4
    <3> QED
      BY <2>2, <3>1, <3>2 DEF TypeOK, Schedule, Finish, Goto
  <2>6. PlaceInv'
    BY <2>1, <2>2, <2>3, <2>4 DEF PlaceInv, InLock
  <2>7. LockInv'
    BY <2>1, <2>2 DEF LockInv, InLock
  <2>8. GrantInv' /\ PointsSurviveUpdates' /\ ReportedUpdatesHold'
    BY <2>2 DEF GrantInv, PointsSurviveUpdates, ReportedUpdatesHold
  <2>9. UpdateInv'
    BY <2>1, <2>2 DEF UpdateInv, PlaceInv
  <2>10. ChangeInv'
    <3>1. ~overlapped => \A q \in Puts : ~Busy(q) /\ (Running(q) => q = p)
      BY DEF ChangeInv, UpdateInv
    <3> QED
      BY <2>1, <2>4, <3>1 DEF ChangeInv, Busy
  <2> QED
    BY <2>5, <2>6, <2>7, <2>8, <2>9, <2>10
<1> QED
  BY <1>1, <1>2

\* With nothing for the store to do, the update goes on to the difficulty.
LEMMA PutValidatesInv ==
  ASSUME RecordsInv, NEW p \in Puts, PutValidates(p)
  PROVE  RecordsInv'
<1> USE DEF RecordsInv
<1>1. CASE Finish(p) /\ UNCHANGED cooldown
  BY <1>1, FinishInv DEF PutValidates
<1>2. CASE Updated(p) = base[p] /\ Schedule(p)
  BY <1>2, ScheduleInv DEF PutValidates
<1>3. CASE Continue(p, "storing") /\ UNCHANGED cooldown
  <2>1. /\ pc[p] = "validate" /\ pc'[p] = "storing" /\ \A q \in Processes \ {p} : pc'[q] = pc[q]
        /\ UNCHANGED <<local, cooldown, history>>
    BY <1>3, GotoMoves DEF PutValidates, Continue
  <2>2. /\ record' \in Record \cup {None} /\ (record' = None <=> record = None)
        /\ record # None => /\ record'.key = record.key /\ record'.payout = record.payout
                           /\ record'.points = record.points
    BY ValidateKeeps DEF PutValidates
  <2>3. TypeOK'
    BY <1>3, <2>2 DEF TypeOK, PutValidates, Continue, Goto
  <2>4. PlaceInv'
    BY <2>1, <2>2 DEF PlaceInv, InLock
  <2>5. LockInv'
    BY <2>1, <2>2 DEF LockInv, InLock
  <2>6. GrantInv' /\ PointsSurviveUpdates' /\ ReportedUpdatesHold'
    BY <2>1, <2>2 DEF GrantInv, PointsSurviveUpdates, ReportedUpdatesHold
  <2>7. UpdateInv' /\ ChangeInv'
    BY <2>1, <2>2 DEF UpdateInv, ChangeInv, Busy, PlaceInv
  <2> QED
    BY <2>3, <2>4, <2>5, <2>6, <2>7
<1> QED
  BY <1>1, <1>2, <1>3 DEF PutValidates

\* What is written back has the entries that were asked for, and for the rest what
\* was read; points are those of the store.
LEMMA PutStoresInv ==
  ASSUME RecordsInv, NEW p \in Puts, PutStores(p)
  PROVE  RecordsInv'
<1> USE DEF RecordsInv
<1>1. /\ pc[p] = "storing" /\ pc'[p] = "scheduling" /\ \A q \in Processes \ {p} : pc'[q] = pc[q]
      /\ UNCHANGED <<local, cooldown, granted, credited, overlapped>>
  BY GotoMoves DEF PutStores
<1>2. base[p] \in Record /\ record \in Record /\ record # None
  BY <1>1 DEF PlaceInv, TypeOK
<1>3. /\ New(p, "key") => asked[p].key \in Keys
      /\ New(p, "payout") => asked[p].payout \in Payouts
  BY DEF New, TypeOK
<1>4. /\ Updated(p) \in Record
      /\ Updated(p).key = IF New(p, "key") THEN asked[p].key ELSE base[p].key
      /\ Updated(p).payout = IF New(p, "payout") THEN asked[p].payout ELSE base[p].payout
  BY <1>2, <1>3 DEF Updated, Record
<1>5. /\ record' \in Record /\ record' # None /\ record'.points = record.points
      /\ record'.key = Updated(p).key /\ record'.payout = Updated(p).payout
  BY <1>2, <1>4, StoreRecordKeeps DEF PutStores
<1>6. /\ acked'.key = IF New(p, "key") THEN asked[p].key ELSE acked.key
      /\ acked'.payout = IF New(p, "payout") THEN asked[p].payout ELSE acked.payout
  BY DEF PutStores
<1>7. TypeOK'
  <2>1. acked' \in [key : Keys \cup {None}, payout : Payouts \cup {None}]
    BY <1>3 DEF TypeOK, PutStores
  <2> QED
    BY <1>5, <2>1 DEF TypeOK, PutStores, Goto
<1>8. PlaceInv'
  BY <1>1, <1>2, <1>5 DEF PlaceInv, InLock
<1>9. LockInv'
  BY <1>1, <1>2 DEF LockInv, InLock
<1>10. GrantInv' /\ PointsSurviveUpdates'
  BY <1>1, <1>2, <1>5 DEF GrantInv, PointsSurviveUpdates
<1>11. ReportedUpdatesHold'
  <2>1. ~overlapped => base[p].key = acked.key /\ base[p].payout = acked.payout
    BY <1>1, <1>2 DEF UpdateInv, ReportedUpdatesHold
  <2> QED
    BY <1>1, <1>4, <1>5, <1>6, <2>1 DEF ReportedUpdatesHold
<1>12. UpdateInv' /\ ChangeInv'
  BY <1>1 DEF UpdateInv, ChangeInv, Busy
<1> QED
  BY <1>7, <1>8, <1>9, <1>10, <1>11, <1>12

\* Storing the difficulty changes nothing else.
LEMMA LaterStoresInv ==
  ASSUME RecordsInv, NEW p \in Puts, LaterStores(p)
  PROVE  RecordsInv'
<1> USE DEF RecordsInv
<1>1. record \in Record /\ record # None /\ later[p].to \in Difficulties /\ later[p].to \in Nat
  BY DEF LaterStores, PlaceInv, TypeOK
<1>2. /\ record' \in Record /\ record' # None
      /\ record'.key = record.key /\ record'.payout = record.payout /\ record'.points = record.points
  BY <1>1 DEF LaterStores, Record
<1>3. /\ later'[p].at \in {"stored", "failed"} /\ later'[p].to = later[p].to /\ later[p].at = "sleeping"
      /\ \A q \in Puts \ {p} : later'[q] = later[q]
  BY DEF LaterStores, TypeOK
<1>4. TypeOK'
  <2>1. later' \in [Puts -> [at : {"none", "sleeping", "stored", "failed"}, to : Difficulties \cup {None}]]
    <3>1. \E x \in {"stored", "failed"} : later' = [later EXCEPT ![p].at = x]
      BY DEF LaterStores
    <3> QED
      BY <3>1 DEF TypeOK
  <2> QED
    BY <1>2, <2>1 DEF TypeOK, LaterStores
<1>5. PlaceInv' /\ LockInv'
  BY <1>1, <1>2, <1>3 DEF PlaceInv, LockInv, InLock, LaterStores
<1>6. GrantInv' /\ PointsSurviveUpdates' /\ ReportedUpdatesHold'
  BY <1>1, <1>2 DEF GrantInv, PointsSurviveUpdates, ReportedUpdatesHold, LaterStores
<1>7. UpdateInv' /\ ChangeInv'
  BY <1>2, <1>3 DEF UpdateInv, ChangeInv, Busy, LaterStores
<1> QED
  BY <1>4, <1>5, <1>6, <1>7

\* The farmer is let in again when the only change that was on its way is made.
LEMMA LaterUnblocksInv ==
  ASSUME RecordsInv, NEW p \in Puts, LaterUnblocks(p)
  PROVE  RecordsInv'
<1> USE DEF RecordsInv
<1>1. /\ later'[p] = NoTask /\ later[p].at = "stored" /\ \A q \in Puts \ {p} : later'[q] = later[q]
      /\ UNCHANGED <<record, pc, local, history>>
  BY DEF LaterUnblocks, TypeOK
<1>2. TypeOK'
  <2>1. later' \in [Puts -> [at : {"none", "sleeping", "stored", "failed"}, to : Difficulties \cup {None}]]
    BY DEF LaterUnblocks, TypeOK
  <2>2. blocked' \in BOOLEAN
    BY DEF LaterUnblocks
  <2> QED
    BY <2>1, <2>2 DEF TypeOK, LaterUnblocks
<1>3. PlaceInv' /\ LockInv'
  BY <1>1 DEF PlaceInv, LockInv, InLock
<1>4. GrantInv' /\ PointsSurviveUpdates' /\ ReportedUpdatesHold'
  BY <1>1 DEF GrantInv, PointsSurviveUpdates, ReportedUpdatesHold
<1>5. UpdateInv' /\ ChangeInv'
  BY <1>1 DEF UpdateInv, ChangeInv, Busy
<1> QED
  BY <1>2, <1>3, <1>4, <1>5

------------------------------------------------------------------------------
(* The other writers, the chain, and restarts.                             *)

\* A confirmation moves on and leaves the record as it is, or as a validation
\* leaves it; whoever takes the lock finds it free.
LEMMA ConfirmMovesInv ==
  ASSUME RecordsInv, NEW p \in Confirms, NEW label \in {"validate", "lockwait", "reading", "adding"},
         Continue(p, label), record # None, Validate \/ UNCHANGED record,
         label = "reading" => LockFree, label = "adding" => InLock(p),
         UNCHANGED <<chain, cooldown, history, crashes>>
  PROVE  RecordsInv'
<1> USE DEF RecordsInv
<1>1. /\ pc'[p] = label /\ \A q \in Processes \ {p} : pc'[q] = pc[q]
      /\ UNCHANGED <<local, cooldown, history>>
  BY GotoMoves DEF Continue
<1>2. /\ record' \in Record \cup {None} /\ record' # None
      /\ record'.key = record.key /\ record'.payout = record.payout /\ record'.points = record.points
  BY ValidateKeeps DEF TypeOK
<1>3. TypeOK'
  BY <1>2 DEF TypeOK, Continue, Goto
<1>4. PlaceInv'
  BY <1>1, <1>2 DEF PlaceInv, InLock
<1>5. LockInv'
  BY <1>1, <1>2 DEF LockInv, InLock, LockFree
<1>6. GrantInv' /\ PointsSurviveUpdates' /\ ReportedUpdatesHold'
  BY <1>1, <1>2 DEF GrantInv, PointsSurviveUpdates, ReportedUpdatesHold
<1>7. UpdateInv' /\ ChangeInv'
  BY <1>1, <1>2 DEF UpdateInv, ChangeInv, Busy
<1> QED
  BY <1>3, <1>4, <1>5, <1>6, <1>7

\* Up to the lock, a confirmation moves on or is dropped.
LEMMA ConfirmWaitsInv ==
  ASSUME RecordsInv, NEW p \in Confirms,
         ConfirmStarts(p) \/ ConfirmValidates(p) \/ ConfirmTakesLock(p) \/ ConfirmReadsRecord(p)
  PROVE  RecordsInv'
<1>1. CASE ConfirmStarts(p)
  BY <1>1, ConfirmMovesInv DEF ConfirmStarts, Continue
<1>2. CASE ConfirmValidates(p)
  <2>1. record # None
    BY <1>2 DEF ConfirmValidates, RecordsInv, PlaceInv
  <2> QED
    BY <1>2, <2>1, ConfirmMovesInv, FinishInv DEF ConfirmValidates
<1>3. CASE ConfirmTakesLock(p)
  <2>1. record # None
    BY <1>3 DEF ConfirmTakesLock, RecordsInv, PlaceInv
  <2> QED
    BY <1>3, <2>1, ConfirmMovesInv DEF ConfirmTakesLock, Continue
<1>4. CASE ConfirmReadsRecord(p)
  <2>1. record # None /\ InLock(p)
    BY <1>4 DEF ConfirmReadsRecord, RecordsInv, PlaceInv, InLock
  <2> QED
    BY <1>4, <2>1, ConfirmMovesInv, FinishInv DEF ConfirmReadsRecord
<1> QED
  BY <1>1, <1>2, <1>3, <1>4

\* A partial adds its points to what the store has.
LEMMA ConfirmAddsPointsInv ==
  ASSUME RecordsInv, NEW p \in Confirms, ConfirmAddsPoints(p)
  PROVE  RecordsInv'
<1> USE DEF RecordsInv
<1>1. /\ pc[p] = "adding" /\ pc'[p] = "done" /\ \A q \in Processes \ {p} : pc'[q] = pc[q]
      /\ base'[p] = None /\ \A q \in Processes \ {p} : base'[q] = base[q] /\ asked'[q] = asked[q]
      /\ UNCHANGED <<cooldown, granted, acked, overlapped>>
  BY DEF ConfirmAddsPoints, Finish, Goto, TypeOK
<1>2. record \in Record /\ record # None
  BY <1>1 DEF PlaceInv, TypeOK
<1>3. /\ record' \in Record /\ record' # None /\ record'.points = record.points + 1
      /\ record'.key = record.key /\ record'.payout = record.payout
  BY <1>2 DEF ConfirmAddsPoints, Record
<1>4. credited' = credited + 1 /\ credited \in Nat
  BY DEF ConfirmAddsPoints, TypeOK
<1>5. TypeOK'
  BY <1>3, <1>4 DEF TypeOK, ConfirmAddsPoints, Finish, Goto
<1>6. PlaceInv' /\ LockInv'
  BY <1>1, <1>2, <1>3 DEF PlaceInv, LockInv, InLock
<1>7. GrantInv' /\ PointsSurviveUpdates' /\ ReportedUpdatesHold'
  BY <1>1, <1>2, <1>3, <1>4 DEF GrantInv, PointsSurviveUpdates, ReportedUpdatesHold
<1>8. UpdateInv' /\ ChangeInv'
  BY <1>1, <1>3 DEF UpdateInv, ChangeInv, Busy, PlaceInv
<1> QED
  BY <1>5, <1>6, <1>7, <1>8

\* Payouts clear the points, adjustments set the difficulty, and nothing else.
LEMMA ColumnInv ==
  ASSUME RecordsInv, PayoutClearsPoints \/ AdjustDifficulty
  PROVE  RecordsInv'
<1> USE DEF RecordsInv
<1>1. record \in Record /\ record # None
  BY DEF TypeOK, PayoutClearsPoints, AdjustDifficulty
<1>2. /\ record' \in Record /\ record' # None
      /\ record'.key = record.key /\ record'.payout = record.payout
      /\ record'.points = credited'
  <2>1. CASE PayoutClearsPoints
    BY <1>1, <2>1 DEF PayoutClearsPoints, Record
  <2>2. CASE AdjustDifficulty
    BY <1>1, <2>2 DEF AdjustDifficulty, Record, PointsSurviveUpdates
  <2> QED
    BY <2>1, <2>2
<1>3. UNCHANGED <<chain, pc, local, cooldown, granted, acked, overlapped, crashes>> /\ credited' \in Nat
  BY DEF PayoutClearsPoints, AdjustDifficulty, TypeOK
<1>4. TypeOK'
  BY <1>2, <1>3 DEF TypeOK
<1>5. PlaceInv' /\ LockInv'
  BY <1>1, <1>2, <1>3 DEF PlaceInv, LockInv, InLock, PayoutClearsPoints, AdjustDifficulty, LockFree
<1>6. GrantInv' /\ PointsSurviveUpdates' /\ ReportedUpdatesHold'
  BY <1>1, <1>2, <1>3 DEF GrantInv, PointsSurviveUpdates, ReportedUpdatesHold
<1>7. UpdateInv' /\ ChangeInv'
  BY <1>2, <1>3 DEF UpdateInv, ChangeInv, Busy
<1> QED
  BY <1>4, <1>5, <1>6, <1>7

\* The chain is not part of the invariant, only its type.
LEMMA SingletonMovesInv ==
  ASSUME RecordsInv, SingletonMoves
  PROVE  RecordsInv'
<1> USE DEF RecordsInv
<1>1. UNCHANGED <<record, pc, local, cooldown, history, crashes>>
  BY DEF SingletonMoves
<1>2. TypeOK'
  <2>1. buriedTip' \in 0..MaxTip
    BY DEF SingletonMoves, TypeOK
  <2>2. assigned' \in BOOLEAN
    BY DEF SingletonMoves
  <2> QED
    BY <1>1, <2>1, <2>2 DEF TypeOK
<1>3. PlaceInv' /\ LockInv'
  BY <1>1 DEF PlaceInv, LockInv, InLock
<1>4. GrantInv' /\ PointsSurviveUpdates' /\ ReportedUpdatesHold'
  BY <1>1 DEF GrantInv, PointsSurviveUpdates, ReportedUpdatesHold
<1>5. UpdateInv' /\ ChangeInv'
  BY <1>1 DEF UpdateInv, ChangeInv, Busy
<1> QED
  BY <1>2, <1>3, <1>4, <1>5

\* After a restart nobody runs, and the store is as it was.
LEMMA CrashInv ==
  ASSUME RecordsInv, Crash
  PROVE  RecordsInv'
<1> USE DEF RecordsInv
<1>1. /\ \A p \in Processes : pc'[p] \in {"idle", "done"}
      /\ \A p \in Puts : later'[p] = NoTask
      /\ UNCHANGED <<record, history>>
  BY DEF Crash, TypeOK
<1>2. TypeOK'
  <2>1. NoAsk \in Payload /\ NoState \in [tip : 0..MaxTip, member : BOOLEAN]
    OBVIOUS
  <2>2. NoTask \in [at : {"none", "sleeping", "stored", "failed"}, to : Difficulties \cup {None}]
    OBVIOUS
  <2> HIDE DEF NoAsk, NoState, NoTask, Payload
  <2>3. /\ asked' \in [Processes -> Payload] /\ base' \in [Processes -> Record \cup {None}]
        /\ seen' \in [Processes -> [tip : 0..MaxTip, member : BOOLEAN]]
    BY <2>1 DEF Crash
  <2>4. later' \in [Puts -> [at : {"none", "sleeping", "stored", "failed"}, to : Difficulties \cup {None}]]
    BY <2>2 DEF Crash
  <2>5. pc' \in [Processes -> {"idle", "lockwait", "reading", "validate", "inserting",
                             "storing", "scheduling", "adding", "done"}]
    BY DEF Crash
  <2>6. crashes' \in 0..MaxCrashes /\ UNCHANGED chain
    BY DEF Crash, TypeOK
  <2>7. blocked' \in BOOLEAN
    BY DEF Crash
  <2> QED
    BY <1>1, <2>3, <2>4, <2>5, <2>6, <2>7 DEF TypeOK
<1>3. PlaceInv' /\ LockInv'
  BY <1>1 DEF PlaceInv, LockInv, InLock
<1>4. GrantInv' /\ PointsSurviveUpdates' /\ ReportedUpdatesHold'
  BY <1>1 DEF GrantInv, PointsSurviveUpdates, ReportedUpdatesHold
<1>5. UpdateInv' /\ ChangeInv'
  BY <1>1 DEF UpdateInv, ChangeInv, Busy
<1> QED
  BY <1>2, <1>3, <1>4, <1>5

------------------------------------------------------------------------------
(* The theorems.                                                           *)

\* Every step keeps the invariant.
LEMMA NextRecords == RecordsInv /\ [Next]_vars => RecordsInv'
<1> SUFFICES ASSUME RecordsInv, [Next]_vars PROVE RecordsInv'
  OBVIOUS
<1>1. ASSUME NEW p \in Posts, Post(p) PROVE RecordsInv'
  BY <1>1, PostFarmerInv, PostReadsRecordInv, PostValidatesInv, PostInsertsInv DEF Post
<1>2. ASSUME NEW p \in Puts, Put(p) PROVE RecordsInv'
  <2>1. CASE PutSchedules(p)
    BY <2>1, ScheduleInv DEF PutSchedules
  <2> QED
    BY <1>2, <2>1, PutFarmerInv, PutReadsRecordInv, PutValidatesInv, PutStoresInv DEF Put
<1>3. ASSUME NEW p \in Puts, Later(p) PROVE RecordsInv'
  BY <1>3, LaterStoresInv, LaterUnblocksInv DEF Later
<1>4. ASSUME NEW p \in Confirms, Confirm(p) PROVE RecordsInv'
  BY <1>4, ConfirmWaitsInv, ConfirmAddsPointsInv DEF Confirm
<1>5. CASE UNCHANGED vars
  <2>1. UNCHANGED <<record, chain, pc, local, cooldown, history, crashes>>
    BY <1>5 DEF vars
  <2> QED
    BY <2>1 DEF RecordsInv, TypeOK, PlaceInv, LockInv, InLock, GrantInv, PointsSurviveUpdates,
                UpdateInv, ReportedUpdatesHold, ChangeInv, Busy
<1> QED
  BY <1>1, <1>2, <1>3, <1>4, <1>5, ColumnInv, SingletonMovesInv, CrashInv DEF Next

\* The invariant of the farmer's record: the lock has one holder, one registration
\* is granted, and updates that do not overlap find what they have read.
THEOREM RecordsInvariance == Spec => []RecordsInv
  BY InitRecords, NextRecords, PTL DEF Spec

\* Every variable keeps its type, for any number of requests.
THEOREM RecordsTypeCorrect == Spec => []TypeOK
<1>1. RecordsInv => TypeOK
  BY DEF RecordsInv
<1> QED
  BY <1>1, RecordsInvariance, PTL

\* Updates that write back a record read long ago (lines 704-745) neither lose nor
\* bring back points.
THEOREM PointsAlwaysSurvive == Spec => []PointsSurviveUpdates
<1>1. RecordsInv => PointsSurviveUpdates
  BY DEF RecordsInv
<1> QED
  BY <1>1, RecordsInvariance, PTL

\* Of any number of requests to register at most one is granted (lines 622-694).
THEOREM AlwaysRegisteredOnce == Spec => []RegisteredOnce
<1>1. RecordsInv => RegisteredOnce
  <2> SUFFICES ASSUME \A p, q \in granted : p = q PROVE Cardinality(granted) <= 1
    BY DEF RecordsInv, GrantInv, RegisteredOnce
  <2>1. CASE granted = {}
    BY <2>1, FS_EmptySet
  <2>2. CASE \E p : granted = {p}
    BY <2>2, FS_Singleton
  <2> QED
    BY <2>1, <2>2
<1> QED
  BY <1>1, RecordsInvariance, PTL

\* What a response reported as updated is what the store holds, unless updates
\* overlapped (lines 704-745).
THEOREM ReportedUpdatesAlwaysHold == Spec => []ReportedUpdatesHold
<1>1. RecordsInv => ReportedUpdatesHold
  BY DEF RecordsInv
<1> QED
  BY <1>1, RecordsInvariance, PTL

\* Two changes of the difficulty are on their way together only if two requests
\* were being handled together (lines 139, 702-754).
THEOREM AlwaysOneChangeAtATime == Spec => []OneChangeAtATime
<1>1. RecordsInv => OneChangeAtATime
  BY DEF RecordsInv, ChangeInv, Busy, OneChangeAtATime
<1> QED
  BY <1>1, RecordsInvariance, PTL
================================================================================
