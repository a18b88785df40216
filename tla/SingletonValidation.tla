------------------------- MODULE SingletonValidation -------------------------
(***************************************************************************)
(* Is a farmer's singleton assigned to this pool?                          *)
(*                                                                         *)
(* get_and_validate_singleton_state walks, in get_singleton_state, along   *)
(* the spends of the singleton from the last one the store knows.  Calls   *)
(* for the same launcher id share the walk through follow_singleton_tasks; *)
(* between any two calls to the node or to the store the chain may grow or *)
(* reorg.  One launcher id is modelled; different ones share nothing.      *)
(*                                                                         *)
(* A spend is named by the state it leads to, and a coin by the path of    *)
(* spends that leads to it, so that a path names the same spend again when *)
(* a reorg has put it back at another height.                              *)
(***************************************************************************)
EXTENDS Integers, Sequences, FiniteSets, SequencesExt

CONSTANTS
  Calls,         \* calls of get_and_validate_singleton_state
  None,
  Threshold,     \* confirmation_security_threshold
  RelativeLock,  \* relative_lock_height
  MaxPeak,       \* bound on the height of the chain
  MaxSpends,     \* bound on the spends of the singleton
  MaxReorgs,     \* bound on reorgs
  MaxErrors      \* bound on failures of the node

\* Depths and bounds are natural numbers, and None is no call.
ASSUME SingletonAssumption ==
  /\ None \notin Calls
  /\ Threshold \in Nat /\ RelativeLock \in Nat
  /\ MaxPeak \in Nat /\ MaxSpends \in Nat /\ MaxReorgs \in Nat /\ MaxErrors \in Nat

\* What a spend leads to: "farming" has this pool's target, lock height and
\* version; "leaving" has them, in state LEAVING_POOL; "away" is any other
\* state.  "absorb" collects a reward and leaves the state as it is.
Kinds == {"farming", "leaving", "away", "absorb"}

VARIABLES
  spends,    \* chain: the spends after the launcher's, with their heights
  peak,      \* chain: height of the node's peak
  seenPeak,  \* blockchain_state["peak"].height, refreshed by get_peak_loop
  record,    \* store: tip and membership in the farmer's record, or None
  pc,        \* pc[c]: where call c is
  base,      \* base[c]: farmer_rec of call c, if it made the walk itself
  walker,    \* walker[c]: the call whose walk c waits for
  popped,    \* popped[c]: the call whose walk c took off the dictionary
  slot,      \* follow_singleton_tasks[launcher_id], or None
  task,      \* task[c]: the walk that c has started
  member,    \* member[c]: is_pool_member of call c
  wasMember, \* history: the singleton was this pool's at some time during c
  reorgs,    \* history: number of reorgs
  errors     \* history: number of failures of the node

chain == <<spends, peak, reorgs>>
call == <<pc, base, walker, popped, member>>
vars == <<chain, seenPeak, record, call, slot, task, wasMember, errors>>

Paths == UNION {[1..n -> Kinds] : n \in 0..MaxSpends}
Record == [tip : Paths, member : BOOLEAN]
Task == [state : {"none", "walking", "done", "failed"}, path : Paths, buried : 0..MaxSpends, peak : 0..MaxPeak]

TypeOK ==
  /\ spends \in Seq([to : Kinds, at : 1..MaxPeak]) /\ Len(spends) <= MaxSpends
  /\ peak \in 0..MaxPeak /\ seenPeak \in 0..peak
  /\ record \in Record \cup {None}
  /\ pc \in [Calls -> {"idle", "reading", "waiting", "popping", "judging", "locking", "storing", "done"}]
  /\ base \in [Calls -> Record \cup {None}]
  /\ walker \in [Calls -> Calls \cup {None}] /\ popped \in [Calls -> Calls \cup {None}]
  /\ slot \in Calls \cup {None}
  /\ task \in [Calls -> Task]
  /\ member \in [Calls -> BOOLEAN] /\ wasMember \in [Calls -> BOOLEAN]
  /\ reorgs \in 0..MaxReorgs /\ errors \in 0..MaxErrors

------------------------------------------------------------------------------
(* The chain.                                                              *)

Path(s) == [i \in DOMAIN s |-> s[i].to]
HeightOf(s, i) == IF i \in DOMAIN s THEN s[i].at ELSE 0

\* solution_to_pool_state of the last spend that has one; the launcher's has.
StateAfter(path) ==
  FoldLeft(LAMBDA state, to : IF to = "absorb" THEN state ELSE to, "farming", path)
StateOf(s) == StateAfter(Path(s))
Assigned(s) == StateOf(s) \in {"farming", "leaving"}

\* The height at which the last spend changed the state.
LastChange(s) ==
  FoldLeft(LAMBDA h, spend : IF spend.to = "absorb" THEN h ELSE spend.at, 0, s)

\* What the puzzle of the singleton allows in a block of height h.
Allowed(s, to, h) ==
  CASE StateOf(s) = "farming" -> to \in {"leaving", "absorb"}
    [] StateOf(s) = "leaving" -> to = "away" => h >= LastChange(s) + RelativeLock
    [] OTHER -> TRUE

RememberMember(s) ==
  wasMember' = [c \in Calls |-> wasMember[c] \/ (pc[c] \notin {"idle", "done"} /\ Assigned(s))]

\* A block without a spend of the singleton, or with one.
Block ==
  /\ peak < MaxPeak
  /\ peak' = peak + 1
  /\ \/ UNCHANGED spends
     \/ /\ Len(spends) < MaxSpends
        /\ \E to \in Kinds : Allowed(spends, to, peak + 1)
                             /\ spends' = Append(spends, [to |-> to, at |-> peak + 1])
  /\ RememberMember(spends')
  /\ UNCHANGED <<seenPeak, record, call, slot, task, reorgs, errors>>

\* Blocks that are not buried may be replaced by as many others.
Reorg ==
  /\ reorgs < MaxReorgs
  /\ reorgs' = reorgs + 1
  /\ \E n \in 0..Len(spends) - 1 : /\ spends[n + 1].at > peak - Threshold
                                   /\ spends' = SubSeq(spends, 1, n)
  /\ RememberMember(spends')
  /\ UNCHANGED <<peak, seenPeak, record, call, slot, task, errors>>

\* Mutant: the height of the next block instead of the peak's.
GetNextHeight ==
  /\ seenPeak' = peak + 1
  /\ UNCHANGED <<chain, record, call, slot, task, wasMember, errors>>

GetPeak ==
  /\ seenPeak' = peak
  /\ UNCHANGED <<chain, record, call, slot, task, wasMember, errors>>

------------------------------------------------------------------------------
(* get_singleton_state: one step per spend.                                *)

Walk(c, result) == task' = [task EXCEPT ![c] = result]

\* Mutant: the depth of a spend is not looked at.
BuriedAlways(c, n) == TRUE

Buried(c, n) == task[c].peak - Threshold >= spends[n].at

\* The coin after the last spend is unspent, and its puzzle hash is the one of
\* the state walked to; or it is spent; or it is gone from the chain.
WalkStep(c) ==
  /\ task[c].state = "walking"
  /\ LET path == task[c].path
         next == Len(path) + 1
     IN  IF ~IsPrefix(path, Path(spends)) THEN Walk(c, [task[c] EXCEPT !.state = "failed"])
         ELSE IF next > Len(spends) THEN Walk(c, [task[c] EXCEPT !.state = "done"])
         ELSE Walk(c, [task[c] EXCEPT !.path = Append(path, spends[next].to),
                                      !.buried = IF Buried(c, next) THEN next ELSE @])
  /\ UNCHANGED <<chain, seenPeak, record, call, slot, wasMember, errors>>

\* Every exception ends the walk without a result.
WalkFails(c) ==
  /\ task[c].state = "walking"
  /\ errors < MaxErrors /\ errors' = errors + 1
  /\ Walk(c, [task[c] EXCEPT !.state = "failed"])
  /\ UNCHANGED <<chain, seenPeak, record, call, slot, wasMember>>

------------------------------------------------------------------------------
(* get_and_validate_singleton_state.                                       *)

Goto(c, label) == pc' = [pc EXCEPT ![c] = label]
Finished(c) == task[c].state \in {"done", "failed"}

\* Mutant: a walk that is finished is joined as well.
JoinableAlways == slot # None

\* There is a walk to join, and it is not finished.
Joinable == slot # None /\ ~Finished(slot)

\* Until there is a record only add_farmer calls, under the store's lock.
Call(c) ==
  /\ pc[c] = "idle"
  /\ record = None => \A other \in Calls : pc[other] \in {"idle", "done"}
  /\ wasMember' = [wasMember EXCEPT ![c] = Assigned(spends)]
  /\ IF Joinable
       THEN Goto(c, "waiting") /\ walker' = [walker EXCEPT ![c] = slot]
       ELSE Goto(c, "reading") /\ UNCHANGED walker
  /\ UNCHANGED <<chain, seenPeak, record, base, popped, member, slot, task, errors>>

\* The record has been read; whatever walk has been started meanwhile, this
\* call starts its own and enters it into the dictionary.
StartWalk(c) ==
  /\ pc[c] = "reading"
  /\ base' = [base EXCEPT ![c] = record]
  /\ LET start == IF record = None THEN <<>> ELSE record.tip
     IN  Walk(c, [state |-> "walking", path |-> start, buried |-> Len(start), peak |-> seenPeak])
  /\ slot' = c
  /\ walker' = [walker EXCEPT ![c] = c]
  /\ Goto(c, "waiting")
  /\ UNCHANGED <<chain, seenPeak, record, popped, member, wasMember, errors>>

\* Mutant: a walk without a result returns before the dictionary is tidied up.
ResumeLeavesSlot(c) ==
  /\ pc[c] = "waiting" /\ Finished(walker[c])
  /\ IF walker[c] = c /\ slot # None /\ task[c].state = "done"
       THEN Goto(c, "popping") /\ popped' = [popped EXCEPT ![c] = slot] /\ slot' = None
       ELSE Goto(c, "judging") /\ UNCHANGED <<popped, slot>>
  /\ UNCHANGED <<chain, seenPeak, record, base, walker, member, task, wasMember, errors>>

\* Whoever started a walk takes what the dictionary holds off it, which may be
\* the walk of a later call, and waits for that one too.
Resume(c) ==
  /\ pc[c] = "waiting" /\ Finished(walker[c])
  /\ IF walker[c] = c /\ slot # None
       THEN Goto(c, "popping") /\ popped' = [popped EXCEPT ![c] = slot] /\ slot' = None
       ELSE Goto(c, "judging") /\ UNCHANGED <<popped, slot>>
  /\ UNCHANGED <<chain, seenPeak, record, base, walker, member, task, wasMember, errors>>

\* Mutant: a walk that failed is waited for until it has a result.
PopWantsResult(c) ==
  /\ pc[c] = "popping" /\ task[popped[c]].state = "done"
  /\ Goto(c, "judging")
  /\ UNCHANGED <<chain, seenPeak, record, base, walker, popped, member, slot, task, wasMember, errors>>

Pop(c) ==
  /\ pc[c] = "popping" /\ Finished(popped[c])
  /\ Goto(c, "judging")
  /\ UNCHANGED <<chain, seenPeak, record, base, walker, popped, member, slot, task, wasMember, errors>>

Tip(c) == task[walker[c]].path
BuriedTip(c) == SubSeq(Tip(c), 1, task[walker[c]].buried)

NoTask == [state |-> "none", path |-> <<>>, buried |-> 0, peak |-> 0]

\* With the call its locals are gone, and so are the walks nobody refers to.
Return(c) ==
  /\ Goto(c, "done")
  /\ task' = [t \in Calls |->
       IF t # slot /\ \A d \in Calls \ {c} : t \notin {walker[d], popped[d]} THEN NoTask ELSE task[t]]
  /\ wasMember' = [wasMember EXCEPT ![c] = FALSE]
  /\ base' = [base EXCEPT ![c] = None]
  /\ walker' = [walker EXCEPT ![c] = None] /\ popped' = [popped EXCEPT ![c] = None]

\* Only a call that made the walk knows the stored record to compare with.
HasNews(c) == walker[c] = c /\ (base[c] = None \/ base[c].tip # BuriedTip(c))

Conclude(c, isMember) ==
  /\ member' = [member EXCEPT ![c] = isMember]
  /\ IF HasNews(c) THEN Goto(c, "storing") /\ UNCHANGED <<base, walker, popped, task, wasMember>>
     ELSE Return(c)

\* The state that counts is the one of the tip, not of the buried tip.
Judge(c) ==
  /\ pc[c] = "judging"
  /\ IF task[walker[c]].state = "failed"
       THEN Return(c) /\ UNCHANGED member
     ELSE IF StateAfter(Tip(c)) = "leaving"
       THEN Goto(c, "locking") /\ UNCHANGED <<base, walker, popped, member, task, wasMember>>
     ELSE Conclude(c, StateAfter(Tip(c)) = "farming")
  /\ UNCHANGED <<chain, seenPeak, record, slot, errors>>

\* A singleton that is leaving: the blocks since the coin that the buried tip
\* spends was created are compared with the relative lock height.
LockedSince(c) == HeightOf(spends, IF BuriedTip(c) = <<>> THEN 0 ELSE Len(BuriedTip(c)) - 1)

JudgeLeaving(c) ==
  /\ pc[c] = "locking"
  /\ Conclude(c, seenPeak - LockedSince(c) <= RelativeLock)
  /\ UNCHANGED <<chain, seenPeak, record, slot, errors>>

\* update_singleton, or the row that add_farmer inserts (as a member, see
\* FarmerRecords) unless the request is refused for another reason.
StoreTip(c) ==
  /\ pc[c] = "storing"
  /\ \/ record' = [tip |-> BuriedTip(c), member |-> base[c] = None \/ member[c]]
     \/ base[c] = None /\ UNCHANGED record
  /\ Return(c)
  /\ UNCHANGED <<chain, seenPeak, member, slot, errors>>

------------------------------------------------------------------------------
Init ==
  /\ spends = <<>> /\ peak = 0 /\ seenPeak = 0 /\ reorgs = 0 /\ errors = 0
  /\ record \in {None, [tip |-> <<>>, member |-> TRUE]}
  /\ pc = [c \in Calls |-> "idle"]
  /\ base = [c \in Calls |-> None]
  /\ walker = [c \in Calls |-> None] /\ popped = [c \in Calls |-> None]
  /\ slot = None
  /\ task = [c \in Calls |-> NoTask]
  /\ member = [c \in Calls |-> FALSE] /\ wasMember = [c \in Calls |-> FALSE]

CallStep(c) ==
  \/ StartWalk(c) \/ Resume(c) \/ Pop(c) \/ Judge(c) \/ JudgeLeaving(c) \/ StoreTip(c)

Next ==
  \/ \E c \in Calls : Call(c) \/ CallStep(c) \/ WalkStep(c) \/ WalkFails(c)
  \/ Block \/ Reorg \/ GetPeak

Spec == Init /\ [][Next]_vars

\* The event loop runs every call and every walk on; node and store answer.
FairSpec == Spec /\ \A c \in Calls : WF_vars(CallStep(c)) /\ WF_vars(WalkStep(c))

------------------------------------------------------------------------------
(* Properties.                                                             *)

\* No reorg makes the store point to a spend that is not on the chain: a tip is
\* stored when it is buried, by whatever call, from whatever walk (line 125).
StoredTipOnChain == record # None => IsPrefix(record.tip, Path(spends))

\* A call that finds the singleton to be a member tells the truth about some
\* moment during the call, although the walk may be another call's and started
\* from a record and a peak that were read earlier (lines 779-798).
MemberDuringCall == [][\A c \in Calls : member'[c] /\ ~member[c] => wasMember[c]]_vars

\* Calls that overlap leave no walk behind in follow_singleton_tasks, whichever
\* of them takes whose walk off the dictionary (lines 795-800).
NoWalkLeftBehind == (\A c \in Calls : pc[c] \in {"idle", "done"}) => slot = None

\* Every call returns: calls that wait for each other's walks never wait in vain.
CallsReturn == \A c \in Calls : (pc[c] = "waiting") ~> (pc[c] = "done")

\* "The number of blocks (confirmations) that a user must wait between the point
\* when they start escaping a pool, and the point at which they can finalize
\* their pool switch" (SPECIFICATION.md, lines 152-153) have passed when
\* a farmer who is leaving "got enough confirmations to leave" (pool.py, line 831).
LeavesAfterLock ==
  [][\A c \in Calls : JudgeLeaving(c) /\ ~member'[c] /\ StateOf(spends) = "leaving"
       => peak >= LastChange(spends) + RelativeLock]_vars
===============================================================================
