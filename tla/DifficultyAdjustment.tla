------------------------- MODULE DifficultyAdjustment -------------------------
(***************************************************************************)
(* The difficulty of one farmer.  process_partial puts an accepted partial *)
(* on the queue, worth the current difficulty, and asks get_new_difficulty *)
(* for the next one; the rows that function reads are those of the         *)
(* partials confirmed meanwhile, with the time of their confirmation.      *)
(***************************************************************************)
EXTENDS Integers, Sequences, SequencesExt

CONSTANTS
  PartialsTarget,  \* number_of_partials_target
  TimeTarget,      \* time_target
  MinDifficulty,   \* min_difficulty
  SlowGap,         \* 3600 seconds
  Delay,           \* the time from receipt to confirmation
  Suggested,       \* difficulties that PUT /farmer may set
  Starts,          \* difficulties a farmer may start with
  MaxPending,      \* bound on partials that wait for confirmation
  MaxTime          \* bound of the clock

\* Targets are positive, and a farmer starts with no less than the pool's minimum.
ASSUME AdjustmentAssumption ==
  /\ PartialsTarget \in Nat \ {0} /\ TimeTarget \in Nat \ {0}
  /\ SlowGap \in Nat /\ Delay \in Nat /\ MaxPending \in Nat /\ MaxTime \in Nat
  /\ MinDifficulty \in Nat \ {0}
  /\ Suggested \subseteq Nat /\ \A d \in Starts : d \in Nat /\ d >= MinDifficulty

VARIABLES
  now,
  difficulty, \* store: difficulty of the farmer
  recent,     \* store: the newest PartialsTarget rows of the farmer, newest first
  pending,    \* accepted partials that are not confirmed yet
  window      \* history: credits since the last adjustment; PartialsTarget when
              \* there was none, or a PUT /farmer has set the difficulty since

vars == <<now, difficulty, recent, pending, window>>

TypeOK ==
  /\ now \in 0..MaxTime
  /\ difficulty \in Nat /\ difficulty >= MinDifficulty
  /\ recent \in Seq([time : 0..MaxTime, difficulty : Nat]) /\ Len(recent) <= PartialsTarget
  /\ pending \in Seq([received : 0..MaxTime, worth : Nat]) /\ Len(pending) <= MaxPending
  /\ window \in 0..PartialsTarget

------------------------------------------------------------------------------
(* get_new_difficulty.                                                     *)

\* Mutant: a division may take the difficulty below the pool's minimum.
Unfloored(d) == d

Floored(d) == IF d < MinDifficulty THEN MinDifficulty ELSE d

\* Mutant: a difficulty that has just changed is adjusted again.
AnyRows(d) == recent # <<>>

\* There are partials, and all of them were worth d.
Settled(d) == recent # <<>> /\ \A i \in DOMAIN recent : recent[i].difficulty = d

Gap(t) == t - Head(recent).time
Span == Head(recent).time - Last(recent).time
Full == Len(recent) = PartialsTarget

\* Mutant: a few quick partials are enough.
NeverEarly == FALSE

TooEarly == ~Full /\ Span < TimeTarget

\* int(d * time_target / time_taken).  With fewer partials than the target the
\* time is scaled up in floating point first; when that is inexact and the
\* true quotient an integer, truncation may give one less.
Rescaled(d) ==
  LET spanned == Span * (IF Full THEN 1 ELSE PartialsTarget)
      share == d * TimeTarget * (IF Full THEN 1 ELSE Len(recent))
      inexact == ~Full /\ spanned % Len(recent) # 0 /\ share % spanned = 0
  IN  {share \div spanned} \cup (IF inexact THEN {(share \div spanned) - 1} ELSE {})

\* The possible answers; none when the division by time_taken raises.
NewDifficulty(d, t) ==
  IF ~Settled(d) THEN {d}
  ELSE IF Gap(t) > 3 * SlowGap THEN {Floored(d \div 5)}
  ELSE IF Gap(t) > SlowGap THEN {Floored((2 * d) \div 3)}
  ELSE IF TooEarly THEN {d}
  ELSE IF Span = 0 THEN {}
  ELSE {Floored(new) : new \in Rescaled(d)}

------------------------------------------------------------------------------
(* The callers.                                                            *)

\* The partial is on the queue before the difficulty is looked at, so it stays
\* there when get_new_difficulty raises.
ReceivePartial ==
  /\ Len(pending) < MaxPending
  /\ pending' = Append(pending, [received |-> now, worth |-> difficulty])
  /\ \/ \E new \in NewDifficulty(difficulty, now) :
          /\ difficulty' = new
          /\ window' = IF new = difficulty THEN window ELSE 0
     \/ /\ NewDifficulty(difficulty, now) = {}
        /\ UNCHANGED <<difficulty, window>>
  /\ UNCHANGED <<now, recent>>

\* Rows are read ORDER BY timestamp DESC LIMIT PartialsTarget: of rows with the
\* same timestamp any may be the one cut off.
Newest(rows) ==
  IF Len(rows) <= PartialsTarget THEN {rows}
  ELSE {RemoveAt(rows, i) : i \in {j \in DOMAIN rows : rows[j].time = Last(rows).time}}

\* check_and_confirm_partial: the tasks may finish in another order.
Credit(i) ==
  /\ now >= pending[i].received + Delay
  /\ recent' \in Newest(<<[time |-> now, difficulty |-> pending[i].worth]>> \o recent)
  /\ pending' = RemoveAt(pending, i)
  /\ window' = IF window < PartialsTarget THEN window + 1 ELSE window
  /\ UNCHANGED <<now, difficulty>>

Drop(i) ==
  /\ now >= pending[i].received + Delay
  /\ pending' = RemoveAt(pending, i)
  /\ UNCHANGED <<now, difficulty, recent, window>>

\* update_difficulty_later.
UpdateDifficulty ==
  /\ \E d \in Suggested : d >= MinDifficulty /\ d # difficulty /\ difficulty' = d
  /\ window' = PartialsTarget
  /\ UNCHANGED <<now, recent, pending>>

Tick ==
  /\ now < MaxTime
  /\ now' = now + 1
  /\ UNCHANGED <<difficulty, recent, pending, window>>

Init ==
  /\ now = 0
  /\ difficulty \in Starts
  /\ recent = <<>> /\ pending = <<>>
  /\ window = PartialsTarget

Next ==
  \/ ReceivePartial \/ UpdateDifficulty \/ Tick
  \/ \E i \in DOMAIN pending : Credit(i) \/ Drop(i)

Spec == Init /\ [][Next]_vars

------------------------------------------------------------------------------
(* Properties.                                                             *)

\* The difficulty is raised only for a farmer who got a whole target of partials
\* confirmed at the present difficulty in less than the target time, and lowered
\* only after a long pause or for partials that took the target time or more
\* (the returns at lines 30, 33, 40 and 48 together leave no other way).
AdjustedForCause ==
  [][ReceivePartial =>
       /\ difficulty' > difficulty => Full /\ Span < TimeTarget
       /\ difficulty' < difficulty => Gap(now) > SlowGap \/ Span >= TimeTarget]_vars

\* Between two adjustments a whole target of partials is confirmed: partials in
\* flight that are worth the old difficulty do not trigger another adjustment
\* (line 24), however late they are confirmed.
AdjustmentsAreSpaced ==
  [][ReceivePartial /\ difficulty' # difficulty => window = PartialsTarget]_vars
===============================================================================
