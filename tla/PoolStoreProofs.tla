--------------------------- MODULE PoolStoreProofs ---------------------------
(***************************************************************************)
(* The safety properties of PoolStore hold for any calls, in both stores   *)
(* and with a pool of any size.  The programs are used only through the    *)
(* facts of ProgramOrder: which statement comes before which.              *)
(***************************************************************************)
EXTENDS PoolStore, FiniteSetTheorems, TLAPS

USE StoreAssumption
USE DEF StoreAssumption, store, Operations

------------------------------------------------------------------------------
(* The inductive invariant.                                                *)

\* The steps of a call's program, who may have statements open, and a statement's trace.
Steps(c) == 1..Len(Program(c))
Connections == Calls \cup {None}
Did(op, c) == [op |-> op, call |-> c]

\* The call runs and has passed the step, or a commit that came after the step.
Past(c, what) ==
  status[c] = "running" /\ \E i \in Steps(c) : i < step[c] /\ Program(c)[i] = what
Settled(c, what) ==
  /\ status[c] = "running"
  /\ \E i, j \in Steps(c) :
       i < j /\ j < step[c] /\ Program(c)[i] = what /\ Program(c)[j] = "commit"

\* A call that runs is at a step of its program, and the pool counts finitely many.
StepInv ==
  /\ \A c \in Calls : status[c] = "running" => step[c] \in Steps(c)
  /\ IsFiniteSet(taken)

\* What a call that runs has written is seen on its connection, and is committed
\* once it has passed a commit: no other call can undo it.
WriteInv == \A c \in Calls, op \in Writes :
  /\ Past(c, op) => Did(op, c) \in View(c).applied
  /\ Settled(c, op) => Did(op, c) \in db.applied

\* Points come from a statement, and that statement from a call whose row was
\* written before: in the same transaction or in a committed one.
PointsInv ==
  /\ \A c \in db.points : Did("points", c) \in db.applied
  /\ \A k \in Connections :
       /\ \A c \in open[k].added : Did("points", c) \in open[k].done
       /\ \A c \in Credits :
            Did("points", c) \in open[k].done => Did("row", c) \in db.applied \cup open[k].done

\* A login response has a partial for each of its points, or all it asks for.
Lists(response) ==
  response.points \subseteq response.rows \/ Cardinality(response.rows) = RecentLimit

\* Until a login reads the partials, the rows of the points it has read are there.
LoginInv == \A c \in Calls : Op[c] = "login" =>
  /\ Past(c, "record") => shown[c].points \subseteq Rows(View(c))
  /\ Past(c, "partials") => Lists(shown[c])

\* The inductive invariant of the store.
StoreInv ==
  /\ TypeOK /\ StepInv /\ WriteInv /\ PointsInv /\ LoginInv
  /\ DurableOnReturn /\ PointsHaveRows /\ HalfOnlyIfExposed /\ LoginShowsWhatItCounts

------------------------------------------------------------------------------
(* Facts about the programs.                                               *)

\* What the stores' functions fix about the order of their statements: every write
\* is followed by a commit, points come after their row, SQLite commits a credit
\* only with its points, and a login reads the record before the partials.
LEMMA ProgramOrder ==
  ASSUME NEW c \in Calls, backend \in {"sqlite", "mariadb"}
  PROVE  /\ Len(Program(c)) \in 1..8 /\ DOMAIN Program(c) = Steps(c)
         /\ \A i \in Steps(c) : Program(c)[i] \in Writes =>
              \E j \in Steps(c) : i < j /\ Program(c)[j] = "commit"
         /\ \A i \in Steps(c) : Program(c)[i] = "points" =>
              c \in Credits /\ \E j \in Steps(c) : j < i /\ Program(c)[j] = "row"
         /\ \A i \in Steps(c) : Program(c)[i] = "commit" /\ backend = "sqlite" /\ c \in Credits =>
              \E j \in Steps(c) : j < i /\ Program(c)[j] = "points"
         /\ Op[c] = "login" =>
              /\ \E i \in Steps(c) : Program(c)[i] = "partials"
              /\ \A i, j \in Steps(c) : Program(c)[i] = "record" /\ Program(c)[j] = "partials" => i < j
              /\ \A i \in Steps(c) : Program(c)[i] = "partials" =>
                   \E j \in Steps(c) : j < i /\ Program(c)[j] = "record"
<1> DEFINE P == Program(c)
<1>1. CASE Op[c] = "partial"
  <2>1. CASE backend = "sqlite"
    <3>1. P = <<"row", "points", "commit">>
      BY <1>1, <2>1 DEF Program, Programs, AddPartial
    <3> QED BY <3>1, <1>1, <2>1 DEF Steps, Writes, Credits
  <2>2. CASE backend = "mariadb"
    <3>1. P = <<"acquire", "row", "commit", "release", "acquire", "points", "commit", "release">>
      BY <1>1, <2>2 DEF Program, Programs, AddPartial
    <3> QED BY <3>1, <1>1, <2>2 DEF Steps, Writes, Credits
  <2> QED BY <2>1, <2>2
<1>2. CASE Op[c] = "difficulty"
  <2>1. CASE backend = "sqlite"
    <3>1. P = <<"difficulty", "commit">>
      BY <1>2, <2>1 DEF Program, Programs, UpdateDifficulty
    <3> QED BY <3>1, <1>2, <2>1 DEF Steps, Writes, Credits
  <2>2. CASE backend = "mariadb"
    <3>1. P = <<"acquire", "acquire", "difficulty", "commit", "release">>
      BY <1>2, <2>2 DEF Program, Programs, UpdateDifficulty
    <3> QED BY <3>1, <1>2, <2>2 DEF Steps, Writes, Credits
  <2> QED BY <2>1, <2>2
<1>3. CASE Op[c] = "login"
  <2>1. CASE backend = "sqlite"
    <3>1. P = <<"record", "partials">>
      BY <1>3, <2>1 DEF Program, Programs, LoginResponse
    <3> QED BY <3>1, <1>3, <2>1 DEF Steps, Writes, Credits
  <2>2. CASE backend = "mariadb"
    <3>1. P = <<"acquire", "record", "release", "acquire", "partials", "release">>
      BY <1>3, <2>2 DEF Program, Programs, LoginResponse
    <3> QED BY <3>1, <1>3, <2>2 DEF Steps, Writes, Credits
  <2> QED BY <2>1, <2>2
<1>4. CASE Op[c] \in {"clear", "singleton", "farmer"}
  <2>1. CASE backend = "sqlite"
    <3>1. P = <<Op[c], "commit">>
      BY <1>4, <2>1 DEF Program, Programs, Write
    <3> QED BY <3>1, <1>4, <2>1 DEF Steps, Writes, Credits
  <2>2. CASE backend = "mariadb"
    <3>1. P = <<"acquire", Op[c], "commit", "release">>
      BY <1>4, <2>2 DEF Program, Programs, Write
    <3> QED BY <3>1, <1>4, <2>2 DEF Steps, Writes, Credits
  <2> QED BY <2>1, <2>2
<1> QED BY <1>1, <1>2, <1>3, <1>4

\* A step leaves the programs as they are.
LEMMA SameProgram ==
  ASSUME NEW c \in Calls, UNCHANGED backend
  PROVE  Program(c)' = Program(c)
BY DEF Program

\* Where a call is when it has done its step what, and that others stay where they
\* are; when it returns it has passed every step of its program.
LEMMA AdvanceEffect ==
  ASSUME TypeOK, StepInv, UNCHANGED backend, NEW c \in Calls, NEW what, At(c, what), Advance(c)
  PROVE  /\ \A d \in Calls : status'[d] = "running" =>
              status[d] = "running" /\ step'[d] \in Steps(d)'
         /\ \A d \in Calls : \A x : Past(d, x)' => Past(d, x) \/ (d = c /\ x = what)
         /\ \A d \in Calls : \A x : Settled(d, x)' =>
              Settled(d, x) \/ (d = c /\ what = "commit" /\ Past(c, x))
         /\ \A d \in Calls : d # c => status'[d] = status[d]
         /\ status'[c] \in {"running", "ok"}
         /\ status'[c] = "ok" => \A i \in Steps(c) :
              \/ Past(c, Program(c)[i]) \/ i = step[c]
         /\ status'[c] = "ok" => step[c] = Len(Program(c)) /\ \A i \in Steps(c) : i <= step[c]
         /\ status' \in [Calls -> {"waiting", "running", "ok", "raised", "lost"}]
         /\ step' \in [Calls -> 0..8]
         /\ lock' \in Calls \cup {None}
<1> USE DEF Steps
<1>1. \A d \in Calls : Program(d)' = Program(d) /\ Len(Program(d)) \in 1..8
  BY SameProgram, ProgramOrder DEF TypeOK
<1>2. /\ status \in [Calls -> {"waiting", "running", "ok", "raised", "lost"}]
      /\ step \in [Calls -> 0..8] /\ lock \in Calls \cup {None}
      /\ \A d \in Calls : status[d] = "running" => step[d] \in 1..Len(Program(d))
      /\ status[c] = "running" /\ Program(c)[step[c]] = what
  BY DEF TypeOK, StepInv, At
<1>3. CASE step[c] < Len(Program(c))
  <2>1. status' = status /\ lock' = lock /\ step' = [step EXCEPT ![c] = @ + 1]
    BY <1>3 DEF Advance
  <2>2. step'[c] = step[c] + 1 /\ \A d \in Calls : d # c => step'[d] = step[d]
    BY <2>1, <1>2
  <2>3. ASSUME NEW d \in Calls, NEW x
        PROVE  /\ Past(d, x)' => Past(d, x) \/ (d = c /\ x = what)
               /\ Settled(d, x)' => Settled(d, x) \/ (d = c /\ what = "commit" /\ Past(c, x))
    <3>1. CASE d = c
      BY <3>1, <2>1, <2>2, <1>1, <1>2 DEF Past, Settled
    <3>2. CASE d # c
      BY <3>2, <2>1, <2>2, <1>1, <1>2 DEF Past, Settled
    <3> QED BY <3>1, <3>2
  <2>4. step' \in [Calls -> 0..8]
    <3>1. step[c] \in 0..8 /\ Len(Program(c)) \in 1..8
      BY <1>1, <1>2
    <3> DEFINE n == step[c]
               m == Len(Program(c))
    <3>2. n + 1 \in 0..8
      <4>1. n \in 0..8 /\ m \in 1..8 /\ n < m
        BY <3>1, <1>3
      <4> HIDE DEF n, m
      <4> QED BY <4>1
    <3> QED BY <3>2, <2>1, <1>2
  <2>5. \A d \in Calls : status'[d] = "running" =>
          status[d] = "running" /\ step'[d] \in 1..Len(Program(d))
    <3>1. ASSUME NEW d \in Calls, status'[d] = "running", d # c
          PROVE  status[d] = "running" /\ step'[d] \in 1..Len(Program(d))
      BY <3>1, <2>1, <2>2, <1>2
    <3>2. step'[c] \in 1..Len(Program(c))
      BY <2>2, <1>1, <1>2, <1>3
    <3> QED BY <3>1, <3>2, <1>2
  <2> QED BY <2>1, <2>3, <2>4, <2>5, <1>1, <1>2
<1>4. CASE step[c] >= Len(Program(c))
  <2>1. /\ status' = [status EXCEPT ![c] = "ok"] /\ step' = [step EXCEPT ![c] = 0]
        /\ lock' = IF lock = c THEN None ELSE lock
    BY <1>4, <1>1, <1>2 DEF Advance, End
  <2>2. step[c] = Len(Program(c))
    BY <1>4, <1>1, <1>2
  <2>3. ASSUME NEW d \in Calls, NEW x
        PROVE  (Past(d, x)' => Past(d, x)) /\ (Settled(d, x)' => Settled(d, x))
    BY <2>1, <1>1, <1>2 DEF Past, Settled
  <2>4. \A i \in Steps(c) : Past(c, Program(c)[i]) \/ i = step[c]
    BY <2>2, <1>1, <1>2 DEF Past
  <2>5. status' \in [Calls -> {"waiting", "running", "ok", "raised", "lost"}]
        /\ step' \in [Calls -> 0..8] /\ lock' \in Calls \cup {None}
    BY <2>1, <1>2
  <2>6. \A d \in Calls : status'[d] = "running" =>
          status[d] = "running" /\ step'[d] \in 1..Len(Program(d))
    BY <2>1, <1>2
  <2>7. status'[c] = "ok" /\ \A d \in Calls : d # c => status'[d] = status[d]
    BY <2>1, <1>2
  <2>8. \A i \in Steps(c) : i <= step[c]
    BY <2>2, <1>1
  <2>9. \A d \in Calls : Steps(d)' = 1..Len(Program(d))
    BY <1>1
  <2> HIDE DEF Steps
  <2> QED BY <2>2, <2>3, <2>4, <2>5, <2>6, <2>7, <2>8, <2>9
<1> QED BY <1>1, <1>2, <1>3, <1>4

\* A call that leaves is in the middle of nothing, and the others stay where they are.
LEMMA EndEffect ==
  ASSUME TypeOK, StepInv, UNCHANGED backend, NEW c \in Calls, End(c, "raised")
  PROVE  /\ \A d \in Calls : status'[d] = "running" =>
              d # c /\ status[d] = "running" /\ step'[d] \in Steps(d)'
         /\ \A d \in Calls : \A x : (Past(d, x)' => Past(d, x)) /\ (Settled(d, x)' => Settled(d, x))
         /\ \A d \in Calls : status'[d] = "ok" => status[d] = "ok"
         /\ status' \in [Calls -> {"waiting", "running", "ok", "raised", "lost"}]
         /\ step' \in [Calls -> 0..8]
         /\ lock' \in Calls \cup {None}
<1> USE DEF Steps
<1>1. \A d \in Calls : Program(d)' = Program(d)
  BY SameProgram DEF TypeOK
<1>2. /\ status \in [Calls -> {"waiting", "running", "ok", "raised", "lost"}]
      /\ step \in [Calls -> 0..8] /\ lock \in Calls \cup {None}
      /\ \A d \in Calls : status[d] = "running" => step[d] \in 1..Len(Program(d))
  BY DEF TypeOK, StepInv
<1>3. /\ status' = [status EXCEPT ![c] = "raised"] /\ step' = [step EXCEPT ![c] = 0]
      /\ lock' = IF lock = c THEN None ELSE lock
  BY DEF End
<1>4. /\ status' \in [Calls -> {"waiting", "running", "ok", "raised", "lost"}]
      /\ step' \in [Calls -> 0..8] /\ lock' \in Calls \cup {None}
  BY <1>2, <1>3
<1>5. ASSUME NEW d \in Calls, NEW x
      PROVE  (Past(d, x)' => Past(d, x)) /\ (Settled(d, x)' => Settled(d, x))
  BY <1>1, <1>2, <1>3 DEF Past, Settled
<1> QED BY <1>1, <1>2, <1>3, <1>4, <1>5

------------------------------------------------------------------------------
(* What is written stays, whoever moves.                                   *)

\* Conn and View, after a step that leaves the backend as it is.
LEMMA ConnOf ==
  ASSUME NEW c \in Calls, UNCHANGED backend
  PROVE  Conn(c) \in Connections /\ Conn(c)' = Conn(c)
BY DEF Conn, Connections

\* A step of a call that commits or writes what its program says, and takes
\* nothing away from what others see, keeps the statements of every call.
LEMMA WritesStay ==
  ASSUME StoreInv, UNCHANGED backend, NEW c \in Calls, NEW what, At(c, what), Advance(c),
         db.applied \subseteq db'.applied,
         \A d \in Calls : View(d).applied \subseteq View(d)'.applied,
         what \in Writes => Did(what, c) \in View(c)'.applied,
         what = "commit" => View(c).applied \subseteq db'.applied
  PROVE  WriteInv' /\ DurableOnReturn'
<1> USE DEF StoreInv
<1>1. \A d \in Calls : Program(d)' = Program(d)
  BY SameProgram
<1>2. /\ \A d \in Calls : \A x : Past(d, x)' => Past(d, x) \/ (d = c /\ x = what)
      /\ \A d \in Calls : \A x : Settled(d, x)' =>
           Settled(d, x) \/ (d = c /\ what = "commit" /\ Past(c, x))
  BY AdvanceEffect
<1>3. WriteInv'
  <2> SUFFICES ASSUME NEW d \in Calls, NEW op \in Writes
               PROVE  /\ Past(d, op)' => Did(op, d) \in View(d)'.applied
                      /\ Settled(d, op)' => Did(op, d) \in db'.applied
    BY DEF WriteInv, Did, Writes
  <2>1. (Past(d, op) => Did(op, d) \in View(d).applied) /\ (Settled(d, op) => Did(op, d) \in db.applied)
    BY DEF WriteInv
  <2> QED BY <2>1, <1>2
<1>4. DurableOnReturn'
  <2> SUFFICES ASSUME NEW d \in Calls, status'[d] = "ok", NEW i \in DOMAIN Program(d), Program(d)[i] \in Writes
               PROVE  Did(Program(d)[i], d) \in db'.applied
    BY <1>1 DEF DurableOnReturn, Did, Writes
  <2>1. CASE d # c
    <3>1. status[d] = "ok"
      BY <2>1, AdvanceEffect
    <3>2. Did(Program(d)[i], d) \in db.applied
      BY <3>1 DEF DurableOnReturn, Did
    <3> QED BY <3>2
  <2>2. CASE d = c
    <3>1. step[c] = Len(Program(c)) /\ \A j \in Steps(c) : Past(c, Program(c)[j]) \/ j = step[c]
      BY <2>2, AdvanceEffect
    <3>2. i \in Steps(c) /\ status[c] = "running" /\ Program(c)[step[c]] = what
      BY <2>2, ProgramOrder DEF At, TypeOK
    <3>3. PICK j \in Steps(c) : i < j /\ Program(c)[j] = "commit"
      BY <3>2, <2>2, ProgramOrder DEF TypeOK
    <3>4. i # step[c] /\ Past(c, Program(c)[i])
      BY <3>1, <3>2, <3>3 DEF Steps
    <3>5. CASE j = step[c]
      <4>1. Did(Program(c)[i], c) \in View(c).applied
        BY <3>4, <2>2 DEF WriteInv
      <4> QED BY <4>1, <3>5, <3>2, <3>3, <2>2
    <3>6. CASE j # step[c]
      <4>1. Settled(c, Program(c)[i])
        BY <3>1, <3>2, <3>3, <3>6 DEF Settled, Steps
      <4> QED BY <4>1, <2>2 DEF WriteInv
    <3> QED BY <3>5, <3>6
  <2> QED BY <2>1, <2>2
<1> QED BY <1>3, <1>4

\* The same when a call fails.
LEMMA WritesStayOnFailure ==
  ASSUME StoreInv, UNCHANGED backend, NEW c \in Calls, End(c, "raised"),
         db.applied \subseteq db'.applied,
         \A d \in Calls : d # c => View(d).applied \subseteq View(d)'.applied
  PROVE  WriteInv' /\ DurableOnReturn'
<1> USE DEF StoreInv
<1>1. \A d \in Calls : Program(d)' = Program(d)
  BY SameProgram
<1>2. /\ \A d \in Calls : \A x : Past(d, x)' => d # c /\ Past(d, x)
      /\ \A d \in Calls : \A x : Settled(d, x)' => Settled(d, x)
  BY EndEffect DEF Past
<1>3. WriteInv'
  <2> SUFFICES ASSUME NEW d \in Calls, NEW op \in Writes
               PROVE  /\ Past(d, op)' => Did(op, d) \in View(d)'.applied
                      /\ Settled(d, op)' => Did(op, d) \in db'.applied
    BY DEF WriteInv, Did, Writes
  <2>1. (Past(d, op) => Did(op, d) \in View(d).applied) /\ (Settled(d, op) => Did(op, d) \in db.applied)
    BY DEF WriteInv
  <2> QED BY <2>1, <1>2
<1>4. DurableOnReturn'
  <2> SUFFICES ASSUME NEW d \in Calls, status'[d] = "ok", NEW i \in DOMAIN Program(d), Program(d)[i] \in Writes
               PROVE  Did(Program(d)[i], d) \in db'.applied
    BY <1>1 DEF DurableOnReturn, Did, Writes
  <2>1. status[d] = "ok"
    BY EndEffect
  <2>2. Did(Program(d)[i], d) \in db.applied
    BY <2>1 DEF DurableOnReturn, Did
  <2> QED BY <2>2
<1> QED BY <1>3, <1>4

\* A step that reads nothing keeps what logins have read, and they return only
\* after they have read the partials.
LEMMA ReadsStay ==
  ASSUME StoreInv, UNCHANGED <<backend, shown>>, NEW c \in Calls, NEW what, At(c, what), Advance(c),
         what \notin {"record", "partials"},
         \A d \in Calls : View(d).applied \subseteq View(d)'.applied
  PROVE  LoginInv' /\ LoginShowsWhatItCounts'
<1> USE DEF StoreInv
<1>1. \A d \in Calls : \A x : Past(d, x)' => Past(d, x) \/ (d = c /\ x = what)
  BY AdvanceEffect
<1>2. \A d \in Calls : Rows(View(d)) \subseteq Rows(View(d))'
  BY DEF Rows
<1>3. LoginInv'
  BY <1>1, <1>2 DEF LoginInv, Lists
<1>4. ASSUME NEW d \in Calls, Op[d] = "login", status'[d] = "ok"
      PROVE  Lists(shown[d])
  <2>1. CASE d # c
    <3>1. status[d] = "ok"
      BY <2>1, <1>4, AdvanceEffect
    <3> QED BY <3>1, <1>4 DEF LoginShowsWhatItCounts, Lists
  <2>2. CASE d = c
    <3>1. PICK i \in Steps(c) : Program(c)[i] = "partials"
      BY <2>2, <1>4, ProgramOrder DEF TypeOK
    <3>2. Past(c, "partials") \/ i = step[c]
      BY <3>1, <2>2, <1>4, AdvanceEffect
    <3>3. Past(c, "partials")
      BY <3>1, <3>2 DEF At
    <3> QED BY <3>3, <2>2, <1>4 DEF LoginInv
  <2> QED BY <2>1, <2>2
<1> QED BY <1>3, <1>4 DEF LoginShowsWhatItCounts, Lists

\* The same when a call fails.
LEMMA ReadsStayOnFailure ==
  ASSUME StoreInv, UNCHANGED <<backend, shown>>, NEW c \in Calls, End(c, "raised"),
         \A d \in Calls : d # c => View(d).applied \subseteq View(d)'.applied
  PROVE  LoginInv' /\ LoginShowsWhatItCounts'
<1> USE DEF StoreInv
<1>1. \A d \in Calls : \A x : Past(d, x)' => d # c /\ Past(d, x)
  BY EndEffect DEF Past
<1>2. \A d \in Calls : d # c => Rows(View(d)) \subseteq Rows(View(d))'
  BY DEF Rows
<1>3. LoginInv'
  BY <1>1, <1>2 DEF LoginInv, Lists
<1>4. \A d \in Calls : status'[d] = "ok" => status[d] = "ok"
  BY EndEffect
<1> QED BY <1>3, <1>4 DEF LoginShowsWhatItCounts

\* Steps that touch neither the database nor the connections see what was there.
LEMMA SameViews ==
  ASSUME UNCHANGED store, NEW c \in Calls
  PROVE  View(c)' = View(c)
BY DEF View, Conn

\* Applying a statement keeps a transaction a transaction.
LEMMA ApplyType ==
  ASSUME NEW t \in Transaction, NEW c \in Calls, NEW op \in Writes, op = "points" => c \in Credits
  PROVE  /\ Apply(t, Did(op, c)) \in Transaction
         /\ Apply(t, Did(op, c)).done = t.done \cup {Did(op, c)}
         /\ Apply(t, Did(op, c)).added \subseteq t.added \cup {d \in {c} : op = "points"}
<1>1. Did(op, c) \in Statement
  BY DEF Did, Statement
<1> USE DEF Apply, Transaction, Did
<1>2. t.done \cup {Did(op, c)} \in SUBSET Statement
  BY <1>1
<1>3. (t.cleared \/ op = "clear") \in BOOLEAN
  OBVIOUS
<1>4. (CASE op = "points" -> t.added \cup {c} [] op = "clear" -> {} [] OTHER -> t.added) \in SUBSET Credits
  OBVIOUS
<1>5. Apply(t, Did(op, c)) \in Transaction
  BY <1>2, <1>3, <1>4
<1>6. Apply(t, Did(op, c)).done = t.done \cup {Did(op, c)}
  OBVIOUS
<1>7. Apply(t, Did(op, c)).added \subseteq t.added \cup {d \in {c} : op = "points"}
  OBVIOUS
<1> QED BY <1>5, <1>6, <1>7

\* What a connection sees is what a database can hold.
LEMMA ViewType ==
  ASSUME TypeOK, NEW c \in Calls
  PROVE  /\ View(c) \in [applied : SUBSET Statement, points : SUBSET Credits]
         /\ View(c).applied = db.applied \cup open[Conn(c)].done
         /\ Rows(View(c)) \subseteq Credits
<1>1. open[Conn(c)] \in Transaction
  BY DEF TypeOK, Conn
<1>2. db \in [applied : SUBSET Statement, points : SUBSET Credits]
  BY DEF TypeOK
<1> QED BY <1>1, <1>2 DEF View, Rows, Transaction

------------------------------------------------------------------------------
(* The actions.                                                            *)

\* A call that enters is at its first statement and has passed nothing.
LEMMA EnterPreserves == ASSUME StoreInv, NEW c \in Calls, Enter(c) PROVE StoreInv'
<1> USE DEF StoreInv
<1>1. /\ status[c] = "waiting" /\ status' = [status EXCEPT ![c] = "running"]
      /\ step' = [step EXCEPT ![c] = 1] /\ lock' \in {lock, c}
      /\ UNCHANGED <<backend, db, open, taken, shown, exposed, faults>>
  BY DEF Enter
<1>2. /\ status \in [Calls -> {"waiting", "running", "ok", "raised", "lost"}]
      /\ step \in [Calls -> 0..8] /\ lock \in Calls \cup {None} /\ backend \in Backends
  BY DEF TypeOK
<1>3. \A d \in Calls : /\ Program(d)' = Program(d) /\ View(d)' = View(d)
                       /\ Len(Program(d)) \in 1..8
  BY <1>1, <1>2, SameProgram, SameViews, ProgramOrder
<1>4. TypeOK'
  <2>1. /\ status' \in [Calls -> {"waiting", "running", "ok", "raised", "lost"}]
        /\ step' \in [Calls -> 0..8] /\ lock' \in Calls \cup {None}
    BY <1>1, <1>2
  <2> QED BY <1>1, <2>1 DEF TypeOK
<1>5. StepInv'
  <2>1. ASSUME NEW d \in Calls, status'[d] = "running" PROVE step'[d] \in 1..Len(Program(d))
    <3>1. CASE d = c
      <4>1. step'[c] = 1
        BY <1>1, <1>2
      <4> DEFINE m == Len(Program(c))
      <4>2. m \in 1..8
        BY <1>3
      <4> HIDE DEF m
      <4>3. 1 \in 1..m
        BY <4>2
      <4> QED BY <4>1, <4>3, <3>1 DEF m
    <3>2. CASE d # c
      BY <2>1, <3>2, <1>1, <1>2 DEF StepInv, Steps
    <3> QED BY <3>1, <3>2
  <2> QED BY <2>1, <1>1, <1>3 DEF StepInv, Steps
<1>6. \A d \in Calls : \A x : (Past(d, x)' => Past(d, x)) /\ (Settled(d, x)' => Settled(d, x))
  BY <1>1, <1>2, <1>3 DEF Past, Settled, Steps
<1>7. WriteInv'
  BY <1>1, <1>3, <1>6 DEF WriteInv, Did
<1>8. LoginInv'
  BY <1>1, <1>3, <1>6 DEF LoginInv, Lists, Rows
<1>9. \A d \in Calls : status'[d] = "ok" => status[d] = "ok"
  BY <1>1, <1>2
<1>10. DurableOnReturn' /\ LoginShowsWhatItCounts'
  BY <1>1, <1>3, <1>9 DEF DurableOnReturn, LoginShowsWhatItCounts
<1>11. PointsInv' /\ PointsHaveRows' /\ HalfOnlyIfExposed'
  BY <1>1 DEF PointsInv, PointsHaveRows, HalfOnlyIfExposed, Rows, HalfDone, Did
<1> QED BY <1>4, <1>5, <1>7, <1>8, <1>10, <1>11

\* One connection more, while there is one, and one less.
LEMMA ConnectionsPreserve ==
  ASSUME StoreInv, NEW c \in Calls, Acquire(c) \/ Release(c)
  PROVE  StoreInv'
<1> USE DEF StoreInv
<1>1. PICK what \in {"acquire", "release"} : At(c, what)
  BY DEF Acquire, Release
<1>2. Advance(c) /\ UNCHANGED <<backend, db, open, shown, exposed, faults>>
  BY DEF Acquire, Release
<1>3. \A d \in Calls : View(d)' = View(d)
  BY <1>2, SameViews
<1>4. taken' \subseteq Calls \X {1, 2} /\ IsFiniteSet(taken') /\ Cardinality(taken') <= PoolSize
  <2>1. taken \subseteq Calls \X {1, 2} /\ IsFiniteSet(taken) /\ Cardinality(taken) <= PoolSize
    BY DEF TypeOK, StepInv
  <2>2. CASE Acquire(c)
    <3> DEFINE t == <<c, IF <<c, 1>> \in taken THEN 2 ELSE 1>>
    <3>1. t \in Calls \X {1, 2} /\ taken' = taken \cup {t} /\ Cardinality(taken) < PoolSize
      BY <2>2 DEF Acquire
    <3> HIDE DEF t
    <3>2. IsFiniteSet(taken') /\ Cardinality(taken') <= Cardinality(taken) + 1 /\ Cardinality(taken) \in Nat
      <4>1. Cardinality(taken) \in Nat
        BY <2>1, FS_CardinalityType
      <4>2. /\ IsFiniteSet(taken \cup {t})
            /\ Cardinality(taken \cup {t}) = IF t \in taken THEN Cardinality(taken) ELSE Cardinality(taken) + 1
        BY <2>1, FS_AddElement
      <4> QED BY <3>1, <4>1, <4>2
    <3>3. Cardinality(taken') \in Nat
      BY <3>2, FS_CardinalityType
    <3> QED BY <2>1, <3>1, <3>2, <3>3
  <2>3. CASE Release(c)
    <3>1. taken' \subseteq taken
      BY <2>3 DEF Release
    <3>2. IsFiniteSet(taken') /\ Cardinality(taken') <= Cardinality(taken)
      BY <2>1, <3>1, FS_Subset
    <3>3. Cardinality(taken') \in Nat /\ Cardinality(taken) \in Nat
      BY <2>1, <3>2, FS_CardinalityType
    <3> QED BY <2>1, <3>1, <3>2, <3>3
  <2> QED BY <2>2, <2>3
<1>5. TypeOK' /\ StepInv'
  <2>1. /\ status' \in [Calls -> {"waiting", "running", "ok", "raised", "lost"}]
        /\ step' \in [Calls -> 0..8] /\ lock' \in Calls \cup {None}
    BY <1>1, <1>2, AdvanceEffect
  <2>2. TypeOK'
    BY <1>2, <1>4, <2>1 DEF TypeOK
  <2> QED BY <1>1, <1>2, <1>4, <2>2, AdvanceEffect DEF StepInv
<1>6. WriteInv' /\ DurableOnReturn'
  <2>1. what \notin Writes /\ what # "commit"
    BY <1>1 DEF Writes
  <2> QED BY <1>1, <1>2, <1>3, <2>1, WritesStay
<1>7. LoginInv' /\ LoginShowsWhatItCounts'
  BY <1>1, <1>2, <1>3, ReadsStay
<1>8. PointsInv' /\ PointsHaveRows' /\ HalfOnlyIfExposed'
  BY <1>2 DEF PointsInv, PointsHaveRows, HalfOnlyIfExposed, Rows, HalfDone, Did
<1> QED BY <1>5, <1>6, <1>7, <1>8

\* A statement adds itself to the open transaction of its connection.
LEMMA ExecutePreserves ==
  ASSUME StoreInv, NEW c \in Calls, NEW op \in Writes, Execute(c, op)
  PROVE  StoreInv'
<1> USE DEF StoreInv
<1> DEFINE k == Conn(c)
           s == Did(op, c)
<1>1. /\ At(c, op) /\ Advance(c) /\ open' = [open EXCEPT ![k] = Apply(@, s)]
      /\ UNCHANGED <<backend, db, taken, shown, exposed, faults>>
  BY DEF Execute, Did
<1>2. k \in Connections /\ \A d \in Calls : Conn(d)' = Conn(d) /\ Conn(d) \in Connections
  BY <1>1, ConnOf
<1>3. op = "points" => c \in Credits /\ Past(c, "row")
  <2>1. step[c] \in Steps(c) /\ status[c] = "running" /\ Program(c)[step[c]] = op
    BY <1>1 DEF StepInv, At
  <2> QED BY <2>1, ProgramOrder DEF TypeOK, Past
<1>4. open \in [Connections -> Transaction] /\ open[k] \in Transaction
  BY <1>2 DEF TypeOK, Connections
<1>5. /\ open' \in [Connections -> Transaction]
      /\ open'[k].done = open[k].done \cup {s}
      /\ open'[k].added \subseteq open[k].added \cup {d \in {c} : op = "points"}
      /\ \A j \in Connections : j # k => open'[j] = open[j]
  <2>1. Apply(open[k], s) \in Transaction
    BY <1>3, <1>4, ApplyType
  <2>2. open' \in [Connections -> Transaction] /\ open'[k] = Apply(open[k], s)
    BY <2>1, <1>1, <1>2, <1>4
  <2>3. \A j \in Connections : j # k => open'[j] = open[j]
    BY <1>1, <1>4
  <2> HIDE DEF k, s
  <2> QED BY <2>2, <2>3, <1>3, <1>4, ApplyType DEF s
<1>6. \A d \in Calls : View(d).applied \subseteq View(d)'.applied
  <2> SUFFICES ASSUME NEW d \in Calls PROVE open[Conn(d)].done \subseteq open'[Conn(d)].done
    BY <1>1, <1>2 DEF View
  <2> QED BY <1>2, <1>5
<1>7. s \in View(c)'.applied
  BY <1>1, <1>2, <1>5 DEF View
<1> HIDE DEF k, s
<1>8. TypeOK' /\ StepInv'
  <2>1. /\ status' \in [Calls -> {"waiting", "running", "ok", "raised", "lost"}]
        /\ step' \in [Calls -> 0..8] /\ lock' \in Calls \cup {None}
    BY <1>1, AdvanceEffect
  <2>2. TypeOK'
    BY <1>1, <1>5, <2>1 DEF TypeOK, Connections
  <2> QED BY <1>1, <2>2, AdvanceEffect DEF StepInv
<1>9. WriteInv' /\ DurableOnReturn'
  <2>1. op # "commit"
    BY DEF Writes
  <2> QED BY <1>1, <1>6, <1>7, <2>1, WritesStay DEF s
<1>10. LoginInv' /\ LoginShowsWhatItCounts'
  <2>1. op \notin {"record", "partials"}
    BY DEF Writes
  <2> QED BY <1>1, <1>6, <2>1, ReadsStay
<1>11. PointsInv'
  <2>1. ASSUME NEW j \in Connections, NEW d \in open'[j].added PROVE Did("points", d) \in open'[j].done
    <3>1. CASE d \in open[j].added
      <4>1. Did("points", d) \in open[j].done
        BY <3>1 DEF PointsInv
      <4> QED BY <4>1, <1>5
    <3>2. CASE d \notin open[j].added
      <4>1. j = k /\ d = c /\ op = "points"
        BY <3>2, <2>1, <1>5
      <4> QED BY <4>1, <1>5 DEF s
    <3> QED BY <3>1, <3>2
  <2>2. ASSUME NEW j \in Connections, NEW d \in Credits, Did("points", d) \in open'[j].done
        PROVE  Did("row", d) \in db.applied \cup open'[j].done
    <3>1. CASE Did("points", d) \in open[j].done
      <4>1. Did("row", d) \in db.applied \cup open[j].done
        BY <3>1 DEF PointsInv
      <4> QED BY <4>1, <1>5
    <3>2. CASE Did("points", d) \notin open[j].done
      <4>1. j = k /\ Did("points", d) = s
        BY <3>2, <2>2, <1>5
      <4>2. d = c /\ op = "points"
        BY <4>1 DEF s, Did
      <4>3. Did("row", c) \in View(c).applied
        BY <4>2, <1>3 DEF WriteInv, Writes
      <4> QED BY <4>1, <4>2, <4>3, <1>5, ViewType DEF k
    <3> QED BY <3>1, <3>2
  <2> QED BY <2>1, <2>2, <1>1 DEF PointsInv, Did
<1>12. PointsHaveRows' /\ HalfOnlyIfExposed'
  BY <1>1 DEF PointsHaveRows, HalfOnlyIfExposed, Rows, HalfDone
<1> QED BY <1>8, <1>9, <1>10, <1>11, <1>12

\* A commit moves what its connection holds to the database, and with it all that
\* other calls have done on that connection so far.
LEMMA CommitMoves ==
  ASSUME StoreInv, NEW c \in Calls, db' = View(c), UNCHANGED backend,
         open' = [open EXCEPT ![Conn(c)] = Begun]
  PROVE  /\ db' \in [applied : SUBSET Statement, points : SUBSET Credits]
         /\ open' \in [Connections -> Transaction]
         /\ db'.applied = db.applied \cup open[Conn(c)].done
         /\ \A d \in Calls : View(d).applied \subseteq View(d)'.applied
         /\ PointsInv' /\ PointsHaveRows'
<1> USE DEF StoreInv
<1> DEFINE k == Conn(c)
<1>1. k \in Connections /\ \A d \in Calls : Conn(d)' = Conn(d) /\ Conn(d) \in Connections
  BY ConnOf
<1>2. db' \in [applied : SUBSET Statement, points : SUBSET Credits] /\ db'.applied = db.applied \cup open[k].done
  BY ViewType
<1>3. Begun \in Transaction /\ Begun.done = {} /\ Begun.added = {}
  BY DEF Begun, Transaction
<1>4. open \in [Connections -> Transaction]
  BY DEF TypeOK, Connections
<1>5. /\ open' \in [Connections -> Transaction]
      /\ open'[k] = Begun /\ \A j \in Connections : j # k => open'[j] = open[j]
  BY <1>1, <1>3, <1>4
<1>6. ASSUME NEW d \in Calls PROVE View(d).applied \subseteq View(d)'.applied
  <2>1. /\ View(d).applied = db.applied \cup open[Conn(d)].done
        /\ View(d)'.applied = db'.applied \cup open'[Conn(d)].done
    BY <1>1 DEF View
  <2> QED BY <2>1, <1>1, <1>2, <1>5
<1>7. db'.points \subseteq db.points \cup open[k].added
  BY DEF View
<1> HIDE DEF k
<1>8. PointsInv'
  <2>1. ASSUME NEW d \in db'.points PROVE Did("points", d) \in db'.applied
    BY <1>1, <1>2, <1>7 DEF PointsInv
  <2>2. ASSUME NEW j \in Connections
        PROVE  /\ \A d \in open'[j].added : Did("points", d) \in open'[j].done
               /\ \A d \in Credits : Did("points", d) \in open'[j].done =>
                    Did("row", d) \in db'.applied \cup open'[j].done
    BY <1>2, <1>3, <1>5 DEF PointsInv
  <2> QED BY <2>1, <2>2 DEF PointsInv, Did
<1>9. PointsHaveRows'
  <2> SUFFICES ASSUME NEW d \in Credits, Did("points", d) \in db'.applied
               PROVE  Did("row", d) \in db'.applied
    BY DEF PointsHaveRows, Rows, Did
  <2>1. Did("points", d) \in db.applied => Did("row", d) \in db.applied
    BY DEF PointsHaveRows, Rows, Did
  <2> QED BY <2>1, <1>1, <1>2 DEF PointsInv
<1> QED BY <1>2, <1>5, <1>6, <1>8, <1>9 DEF k

\* A commit moves what is open on the connection to the store, whoever wrote it.
LEMMA CommitPreserves == ASSUME StoreInv, NEW c \in Calls, Commit(c) PROVE StoreInv'
<1> USE DEF StoreInv
<1>1. /\ At(c, "commit") /\ Advance(c) /\ db' = View(c) /\ open' = [open EXCEPT ![Conn(c)] = Begun]
      /\ exposed' = exposed \cup {d \in Credits \ {c} : HalfDone(d, View(c)) /\ ~HalfDone(d, db)}
      /\ UNCHANGED <<backend, taken, shown, faults>>
  BY DEF Commit
<1>2. /\ db' \in [applied : SUBSET Statement, points : SUBSET Credits]
      /\ open' \in [Connections -> Transaction]
      /\ db'.applied = db.applied \cup open[Conn(c)].done
      /\ \A d \in Calls : View(d).applied \subseteq View(d)'.applied
      /\ PointsInv' /\ PointsHaveRows'
  BY <1>1, CommitMoves
<1>3. TypeOK' /\ StepInv'
  <2>1. /\ status' \in [Calls -> {"waiting", "running", "ok", "raised", "lost"}]
        /\ step' \in [Calls -> 0..8] /\ lock' \in Calls \cup {None}
    BY <1>1, AdvanceEffect
  <2>2. exposed' \subseteq Credits
    BY <1>1 DEF TypeOK
  <2>3. TypeOK'
    BY <1>1, <1>2, <2>1, <2>2 DEF TypeOK, Connections
  <2> QED BY <1>1, <2>3, AdvanceEffect DEF StepInv
<1>4. WriteInv' /\ DurableOnReturn'
  <2>1. "commit" \notin Writes
    BY DEF Writes
  <2> QED BY <1>1, <1>2, <2>1, WritesStay
<1>5. LoginInv' /\ LoginShowsWhatItCounts'
  BY <1>1, <1>2, ReadsStay
<1>6. HalfOnlyIfExposed'
  <2> SUFFICES ASSUME backend = "sqlite", NEW d \in Credits, HalfDone(d, View(c)) PROVE d \in exposed'
    BY <1>1 DEF HalfOnlyIfExposed
  <2>1. CASE HalfDone(d, db)
    BY <2>1, <1>1 DEF HalfOnlyIfExposed
  <2>2. CASE ~HalfDone(d, db)
    <3>1. d # c
      <4> SUFFICES ASSUME d = c PROVE FALSE
        OBVIOUS
      <4>1. step[c] \in Steps(c) /\ status[c] = "running" /\ Program(c)[step[c]] = "commit"
        BY <1>1 DEF StepInv, At
      <4>2. Past(c, "points")
        BY <4>1, ProgramOrder DEF Past
      <4>3. Did("points", c) \in View(c).applied
        BY <4>2 DEF WriteInv, Writes
      <4> QED BY <4>3 DEF HalfDone, Did
    <3> QED BY <3>1, <2>2, <1>1
  <2> QED BY <2>1, <2>2
<1> QED BY <1>2, <1>3, <1>4, <1>5, <1>6

\* A connection sees points only with the rows they come from.
LEMMA ViewShowsRows ==
  ASSUME StoreInv, NEW c \in Calls
  PROVE  View(c).points \subseteq Rows(View(c))
<1>1. Conn(c) \in Connections
  BY DEF Conn, Connections
<1>2. View(c).points \subseteq db.points \cup open[Conn(c)].added
  BY DEF View
<1>3. View(c).applied = db.applied \cup open[Conn(c)].done /\ View(c).points \subseteq Credits
  BY ViewType DEF StoreInv
<1>4. ASSUME NEW d \in View(c).points PROVE Did("row", d) \in View(c).applied
  <2>1. d \in Credits
    BY <1>3
  <2>2. Did("points", d) \in db.applied => Did("row", d) \in db.applied
    BY <2>1 DEF StoreInv, PointsHaveRows, Rows, Did
  <2> QED BY <2>1, <2>2, <1>1, <1>2, <1>3 DEF StoreInv, PointsInv
<1> QED BY <1>3, <1>4 DEF Rows, Did

\* What is newest among rows: all of them, or as many as are asked for.
LEMMA NewestRows ==
  ASSUME NEW rows, NEW some \in Newest(rows)
  PROVE  some \subseteq rows /\ (some = rows \/ Cardinality(some) = RecentLimit)
BY DEF Newest

\* A login reads, and nobody else's reading changes.
LEMMA ReadPreserves == ASSUME StoreInv, NEW c \in Calls, ReadRecord(c) \/ ReadPartials(c) PROVE StoreInv'
<1> USE DEF StoreInv
<1>1. PICK what \in {"record", "partials"} :
        /\ At(c, what)
        /\ what = "record" => shown' = [shown EXCEPT ![c].points = View(c).points]
        /\ what = "partials" =>
             \E rows \in Newest(Rows(View(c))) : shown' = [shown EXCEPT ![c].rows = rows]
  BY DEF ReadRecord, ReadPartials
<1>2. Advance(c) /\ UNCHANGED <<backend, db, open, taken, exposed, faults>>
  BY DEF ReadRecord, ReadPartials
<1>3. \A d \in Calls : View(d)' = View(d)
  BY <1>2, SameViews
<1>4. shown \in [Calls -> [points : SUBSET Credits, rows : SUBSET Credits]]
  BY DEF TypeOK
<1>5. /\ what = "record" => shown'[c].points = View(c).points
      /\ what = "partials" => 
           shown'[c].points = shown[c].points /\ shown'[c].rows \in Newest(Rows(View(c)))
      /\ \A d \in Calls : d # c => shown'[d] = shown[d]
  BY <1>1, <1>4
<1>6. TypeOK' /\ StepInv'
  <2>1. /\ status' \in [Calls -> {"waiting", "running", "ok", "raised", "lost"}]
        /\ step' \in [Calls -> 0..8] /\ lock' \in Calls \cup {None}
    BY <1>1, <1>2, AdvanceEffect
  <2>2. View(c).points \subseteq Credits /\ \A rows \in Newest(Rows(View(c))) : rows \subseteq Credits
    BY ViewType, NewestRows
  <2>3. shown' \in [Calls -> [points : SUBSET Credits, rows : SUBSET Credits]]
    BY <2>2, <1>1, <1>4
  <2>4. TypeOK'
    BY <1>2, <2>1, <2>3 DEF TypeOK
  <2> QED BY <1>1, <1>2, <2>4, AdvanceEffect DEF StepInv
<1>7. WriteInv' /\ DurableOnReturn'
  <2>1. what \notin Writes /\ what # "commit"
    BY <1>1 DEF Writes
  <2> QED BY <1>1, <1>2, <1>3, <2>1, WritesStay
<1>8. \A d \in Calls : \A x : Past(d, x)' => Past(d, x) \/ (d = c /\ x = what)
  BY <1>1, <1>2, AdvanceEffect
<1>9. \A d \in Calls : Rows(View(d))' = Rows(View(d))
  BY <1>3 DEF Rows
<1>10. step[c] \in Steps(c) /\ status[c] = "running" /\ Program(c)[step[c]] = what
  BY <1>1 DEF StepInv, At
<1>11. Op[c] = "login" => /\ what = "record" => ~Past(c, "partials")
                          /\ what = "partials" => Past(c, "record")
  <2>1. ASSUME Op[c] = "login", what = "record", Past(c, "partials") PROVE FALSE
    <3>1. PICK j \in Steps(c) : j < step[c] /\ Program(c)[j] = "partials"
      BY <2>1 DEF Past
    <3>2. step[c] < j
      BY <3>1, <2>1, <1>10, ProgramOrder DEF TypeOK
    <3> QED BY <3>1, <3>2, <1>10 DEF Steps
  <2>2. ASSUME Op[c] = "login", what = "partials" PROVE Past(c, "record")
    BY <2>2, <1>10, ProgramOrder DEF TypeOK, Past
  <2> QED BY <2>1, <2>2
<1>12. LoginInv'
  <2> SUFFICES ASSUME NEW d \in Calls, Op[d] = "login"
               PROVE  /\ Past(d, "record")' => shown'[d].points \subseteq Rows(View(d))
                      /\ Past(d, "partials")' => Lists(shown'[d])
    BY <1>9 DEF LoginInv, Lists
  <2>1. /\ Past(d, "record") => shown[d].points \subseteq Rows(View(d))
        /\ Past(d, "partials") => Lists(shown[d])
    BY DEF LoginInv
  <2>2. CASE d # c
    BY <2>1, <2>2, <1>5, <1>8
  <2>3. CASE d = c /\ what = "record"
    BY <2>3, <1>5, <1>8, <1>11, ViewShowsRows
  <2>4. CASE d = c /\ what = "partials"
    <3>1. shown[c].points \subseteq Rows(View(c))
      BY <2>1, <2>4, <1>11
    <3>2. shown'[c].points = shown[c].points /\ Lists(shown'[c])
      BY <3>1, <2>4, <1>5, NewestRows DEF Lists
    <3> QED BY <2>4, <3>1, <3>2
  <2> QED BY <2>2, <2>3, <2>4, <1>1
<1>13. LoginShowsWhatItCounts'
  <2> SUFFICES ASSUME NEW d \in Calls, Op[d] = "login", status'[d] = "ok"
               PROVE  Lists(shown'[d])
    BY DEF LoginShowsWhatItCounts, Lists
  <2>1. CASE d # c
    <3>1. status[d] = "ok"
      BY <2>1, <1>1, <1>2, AdvanceEffect
    <3> QED BY <3>1, <2>1, <1>5 DEF LoginShowsWhatItCounts, Lists
  <2>2. CASE d = c
    <3>1. PICK i \in Steps(c) : Program(c)[i] = "partials"
      BY <2>2, ProgramOrder DEF TypeOK
    <3>2. Past(c, "partials") \/ i = step[c]
      BY <3>1, <2>2, <1>1, <1>2, AdvanceEffect
    <3>3. what = "partials"
      BY <3>1, <3>2, <2>2, <1>1, <1>10, <1>11
    <3>4. shown[c].points \subseteq Rows(View(c))
      BY <3>3, <2>2, <1>11 DEF LoginInv
    <3> QED BY <3>3, <3>4, <2>2, <1>5, NewestRows DEF Lists
  <2> QED BY <2>1, <2>2
<1>14. PointsInv' /\ PointsHaveRows' /\ HalfOnlyIfExposed'
  BY <1>2 DEF PointsInv, PointsHaveRows, HalfOnlyIfExposed, Rows, HalfDone, Did
<1> QED BY <1>6, <1>7, <1>12, <1>13, <1>14

\* A call that fails takes at most its own transaction with it.
LEMMA RaisePreserves ==
  ASSUME StoreInv, NEW c \in Calls, Raise(c), faults' \in 0..MaxFaults,
         \/ UNCHANGED db /\ RollBack(c)
         \/ backend = "mariadb" /\ db' = View(c) /\ open' = [open EXCEPT ![c] = Begun]
  PROVE  StoreInv'
<1> USE DEF StoreInv
<1>1. /\ End(c, "raised") /\ taken' = taken \ {<<c, 1>>} /\ UNCHANGED <<backend, shown, exposed>>
      /\ UNCHANGED open \/ (backend = "mariadb" /\ open' = [open EXCEPT ![c] = Begun])
  BY DEF Raise, RollBack
<1>2. backend \in {"sqlite", "mariadb"} /\ open \in [Connections -> Transaction] /\ c \in Connections
  BY DEF TypeOK, Connections
<1>3. /\ \A d \in Calls : Conn(d)' = Conn(d) /\ Conn(d) \in Connections
      /\ backend = "mariadb" => \A d \in Calls : Conn(d) = d
  BY <1>1, ConnOf DEF Conn
<1>4. Begun \in Transaction /\ Begun.done = {} /\ Begun.added = {}
  BY DEF Begun, Transaction
<1>5. /\ open' \in [Connections -> Transaction]
      /\ \A k \in Connections : open'[k] = open[k] \/ (backend = "mariadb" /\ k = c /\ open'[k] = Begun)
  <2>1. CASE UNCHANGED open
    BY <2>1, <1>2
  <2>2. CASE backend = "mariadb" /\ open' = [open EXCEPT ![c] = Begun]
    BY <2>2, <1>2, <1>4
  <2> QED BY <2>1, <2>2, <1>1
<1>6. /\ db' \in [applied : SUBSET Statement, points : SUBSET Credits] /\ PointsInv' /\ PointsHaveRows'
      /\ db.applied \subseteq db'.applied
  <2>1. CASE UNCHANGED db
    <3>1. db \in [applied : SUBSET Statement, points : SUBSET Credits]
      BY DEF TypeOK
    <3>2. PointsInv'
      BY <2>1, <1>4, <1>5 DEF PointsInv, Did
    <3> QED BY <2>1, <3>1, <3>2 DEF PointsHaveRows, Rows, Did
  <2>2. CASE backend = "mariadb" /\ db' = View(c) /\ open' = [open EXCEPT ![c] = Begun]
    <3>1. open' = [open EXCEPT ![Conn(c)] = Begun]
      BY <2>2, <1>3
    <3> QED BY <3>1, <2>2, <1>1, CommitMoves
  <2> QED BY <2>1, <2>2
<1>7. ASSUME NEW d \in Calls, d # c PROVE View(d).applied \subseteq View(d)'.applied
  <2>1. open'[Conn(d)] = open[Conn(d)]
    BY <1>3, <1>5, <1>7
  <2>2. View(d).applied = db.applied \cup open[Conn(d)].done /\ View(d)'.applied = db'.applied \cup open'[Conn(d)].done
    BY <1>3 DEF View
  <2> QED BY <2>1, <2>2, <1>6
<1>8. TypeOK' /\ StepInv'
  <2>1. /\ status' \in [Calls -> {"waiting", "running", "ok", "raised", "lost"}]
        /\ step' \in [Calls -> 0..8] /\ lock' \in Calls \cup {None}
    BY <1>1, EndEffect
  <2>2. taken' \subseteq taken /\ taken \subseteq Calls \X {1, 2} /\ IsFiniteSet(taken) /\ Cardinality(taken) <= PoolSize
    BY <1>1 DEF TypeOK, StepInv
  <2>3. IsFiniteSet(taken') /\ Cardinality(taken') <= Cardinality(taken)
    BY <2>2, FS_Subset
  <2>4. Cardinality(taken') \in Nat /\ Cardinality(taken) \in Nat
    BY <2>2, <2>3, FS_CardinalityType
  <2>5. taken' \subseteq Calls \X {1, 2} /\ Cardinality(taken') <= PoolSize
    BY <2>2, <2>3, <2>4
  <2>6. TypeOK'
    BY <1>1, <1>5, <1>6, <2>1, <2>5 DEF TypeOK, Connections
  <2> QED BY <1>1, <2>3, <2>6, EndEffect DEF StepInv
<1>9. WriteInv' /\ DurableOnReturn'
  BY <1>1, <1>6, <1>7, WritesStayOnFailure
<1>10. LoginInv' /\ LoginShowsWhatItCounts'
  BY <1>1, <1>7, ReadsStayOnFailure
<1>11. HalfOnlyIfExposed'
  BY <1>1 DEF HalfOnlyIfExposed, HalfDone
<1> QED BY <1>6, <1>8, <1>9, <1>10, <1>11

\* A restart forgets every open transaction, and every call that runs.
LEMMA CrashPreserves == ASSUME StoreInv, Crash PROVE StoreInv'
<1> USE DEF StoreInv
<1>1. /\ faults' \in 0..MaxFaults
      /\ status' = [c \in Calls |-> IF status[c] = "running" THEN "lost" ELSE status[c]]
      /\ step' = [c \in Calls |-> 0] /\ open' = [k \in Connections |-> Begun]
      /\ taken' = {} /\ lock' = None /\ UNCHANGED <<backend, db, shown, exposed>>
  BY DEF Crash, TypeOK, Connections
<1>2. Begun \in Transaction /\ Begun.done = {} /\ Begun.added = {}
  BY DEF Begun, Transaction
<1>3. TypeOK' /\ StepInv'
  <2>1. /\ status' \in [Calls -> {"waiting", "running", "ok", "raised", "lost"}]
        /\ step' \in [Calls -> 0..8] /\ open' \in [Connections -> Transaction]
    BY <1>1, <1>2 DEF TypeOK
  <2>2. taken' = {} /\ IsFiniteSet(taken') /\ Cardinality(taken') = 0
    BY <1>1, FS_EmptySet
  <2>3. 0 <= PoolSize
    OBVIOUS
  <2>4. TypeOK'
    BY <1>1, <2>1, <2>2, <2>3 DEF TypeOK, Connections
  <2>5. \A c \in Calls : status'[c] # "running"
    BY <1>1
  <2> QED BY <2>2, <2>4, <2>5 DEF StepInv
<1>4. \A c \in Calls : status'[c] # "running" /\ (status'[c] = "ok" => status[c] = "ok")
  BY <1>1
<1>5. WriteInv' /\ LoginInv'
  BY <1>4 DEF WriteInv, LoginInv, Past, Settled, Writes
<1>6. \A c \in Calls : Program(c)' = Program(c)
  BY <1>1, SameProgram
<1>7. DurableOnReturn' /\ LoginShowsWhatItCounts'
  BY <1>1, <1>4, <1>6 DEF DurableOnReturn, LoginShowsWhatItCounts
<1>8. PointsInv' /\ PointsHaveRows' /\ HalfOnlyIfExposed'
  BY <1>1, <1>2 DEF PointsInv, PointsHaveRows, HalfOnlyIfExposed, Rows, HalfDone, Did
<1> QED BY <1>3, <1>5, <1>7, <1>8

------------------------------------------------------------------------------
(* The theorems.                                                           *)

\* The empty store satisfies the invariant.
LEMMA StoreInit == Init => StoreInv
<1> SUFFICES ASSUME Init PROVE StoreInv
  OBVIOUS
<1>1. /\ backend \in Backends /\ db = [applied |-> {}, points |-> {}]
      /\ open = [k \in Connections |-> Begun] /\ taken = {} /\ lock = None
      /\ status = [c \in Calls |-> "waiting"] /\ step = [c \in Calls |-> 0]
      /\ shown = [c \in Calls |-> [points |-> {}, rows |-> {}]]
      /\ exposed = {} /\ faults = 0
  BY DEF Init, Connections
<1>2. Begun \in Transaction /\ Begun.done = {} /\ Begun.added = {}
  BY DEF Begun, Transaction
<1>3. IsFiniteSet(taken) /\ Cardinality(taken) = 0
  BY <1>1, FS_EmptySet
<1>4. TypeOK
  <2>1. /\ db \in [applied : SUBSET Statement, points : SUBSET Credits]
        /\ open \in [Connections -> Transaction]
        /\ shown \in [Calls -> [points : SUBSET Credits, rows : SUBSET Credits]]
    BY <1>1, <1>2
  <2>2. taken \subseteq Calls \X {1, 2} /\ Cardinality(taken) <= PoolSize
    BY <1>1, <1>3
  <2> QED BY <1>1, <2>1, <2>2 DEF TypeOK, Connections
<1>5. \A c \in Calls : status[c] = "waiting"
  BY <1>1
<1>6. StepInv /\ WriteInv /\ LoginInv /\ DurableOnReturn /\ LoginShowsWhatItCounts
  BY <1>3, <1>5 DEF StepInv, WriteInv, LoginInv, Past, Settled, DurableOnReturn, LoginShowsWhatItCounts
<1>7. PointsInv /\ PointsHaveRows /\ HalfOnlyIfExposed
  BY <1>1, <1>2 DEF PointsInv, PointsHaveRows, HalfOnlyIfExposed, HalfDone
<1> QED BY <1>4, <1>6, <1>7 DEF StoreInv

\* Every step of every call preserves it.
LEMMA StoreNext == StoreInv /\ [Next]_vars => StoreInv'
<1> SUFFICES ASSUME StoreInv, [Next]_vars PROVE StoreInv'
  OBVIOUS
<1>1. CASE Crash
  BY <1>1, CrashPreserves
<1>2. ASSUME NEW c \in Calls, Proceed(c) PROVE StoreInv'
  <2>1. CASE Enter(c)
    BY <2>1, EnterPreserves
  <2>2. CASE Acquire(c) \/ Release(c)
    BY <2>2, ConnectionsPreserve
  <2>3. CASE Commit(c)
    BY <2>3, CommitPreserves
  <2>4. CASE ReadRecord(c) \/ ReadPartials(c)
    BY <2>4, ReadPreserves
  <2>5. CASE InsertRejected(c) \/ LockWaitTimeout(c)
    <3>1. Raise(c) /\ RollBack(c) /\ UNCHANGED <<db, faults>>
      BY <2>5 DEF InsertRejected, LockWaitTimeout
    <3>2. faults' \in 0..MaxFaults
      BY <3>1 DEF StoreInv, TypeOK
    <3> QED BY <3>1, <3>2, RaisePreserves
  <2>6. ASSUME NEW op \in Writes, Execute(c, op) PROVE StoreInv'
    BY <2>6, ExecutePreserves
  <2> QED BY <1>2, <2>1, <2>2, <2>3, <2>4, <2>5, <2>6 DEF Proceed
<1>3. ASSUME NEW c \in Calls, CallFails(c) PROVE StoreInv'
  <2>1. faults' \in 0..MaxFaults
    BY <1>3 DEF CallFails, StoreInv, TypeOK
  <2>2. /\ Raise(c)
        /\ \/ UNCHANGED db /\ RollBack(c)
           \/ backend = "mariadb" /\ db' = View(c) /\ open' = [open EXCEPT ![c] = Begun]
    BY <1>3 DEF CallFails
  <2> QED BY <2>1, <2>2, RaisePreserves
<1>4. CASE UNCHANGED vars
  <2> USE <1>4 DEF vars, store
  <2>1. \A c \in Calls : Program(c)' = Program(c) /\ View(c)' = View(c)
    BY SameProgram, SameViews
  <2>2. TypeOK' /\ StepInv'
    BY <2>1 DEF StoreInv, TypeOK, StepInv, Steps
  <2>3. WriteInv' /\ LoginInv'
    BY <2>1 DEF StoreInv, WriteInv, LoginInv, Lists, Past, Settled, Steps, Rows
  <2>4. DurableOnReturn' /\ LoginShowsWhatItCounts'
    BY <2>1 DEF StoreInv, DurableOnReturn, LoginShowsWhatItCounts
  <2>5. PointsInv' /\ PointsHaveRows' /\ HalfOnlyIfExposed'
    BY DEF StoreInv, PointsInv, PointsHaveRows, HalfOnlyIfExposed, Rows, HalfDone
  <2> QED BY <2>2, <2>3, <2>4, <2>5 DEF StoreInv
<1> QED BY <1>1, <1>2, <1>3, <1>4 DEF Next

\* In every state of either store the whole invariant holds: what a call has written
\* is seen on its connection until it is committed, and points follow their rows.
THEOREM StoreInvariance == Spec => []StoreInv
BY StoreInit, StoreNext, PTL DEF Spec

\* The variables of PoolStore keep their types; above all, MariaDB's pool never
\* gives out more connections than it has.
THEOREM StoreTypeCorrect == Spec => []TypeOK
<1>1. StoreInv => TypeOK
  BY DEF StoreInv
<1> QED BY <1>1, StoreInvariance, PTL

\* What a call has done when it returns is committed, whatever other calls commit,
\* fail or restart in between: no return comes before the last commit.
THEOREM AlwaysDurableOnReturn == Spec => []DurableOnReturn
<1>1. StoreInv => DurableOnReturn
  BY DEF StoreInv
<1> QED BY <1>1, StoreInvariance, PTL

\* Nobody's points are committed before the partial they come from, in either store
\* and although MariaDB commits the two parts of add_partial one by one.
THEOREM PointsAlwaysHaveRows == Spec => []PointsHaveRows
<1>1. StoreInv => PointsHaveRows
  BY DEF StoreInv
<1> QED BY <1>1, StoreInvariance, PTL

\* In SQLite a row without its points is always the work of another call's commit
\* on the shared connection.
THEOREM HalfAlwaysExposed == Spec => []HalfOnlyIfExposed
<1>1. StoreInv => HalfOnlyIfExposed
  BY DEF StoreInv
<1> QED BY <1>1, StoreInvariance, PTL

\* A login response never counts points of a partial that it does not list, unless
\* it lists as many as it asks for.
THEOREM LoginAlwaysConsistent == Spec => []LoginShowsWhatItCounts
<1>1. StoreInv => LoginShowsWhatItCounts
  BY DEF StoreInv
<1> QED BY <1>1, StoreInvariance, PTL
==============================================================================
