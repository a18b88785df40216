------------------------------ MODULE PoolStore ------------------------------
(***************************************************************************)
(* The two stores behind AbstractPoolStore, statement by statement.        *)
(*                                                                         *)
(* SqlitePoolStore has one connection for all coroutines, and so one open  *)
(* transaction: a commit by one call commits what any other has done so    *)
(* far.  MariadbPoolStore takes a connection from a pool for each call, or *)
(* two.  Calls concern one farmer; a call is a program of statements, and  *)
(* other calls run between any two of them.                                *)
(***************************************************************************)
EXTENDS Naturals, Sequences, FiniteSets

CONSTANTS
  Calls,      \* the calls of a behaviour
  Op,         \* Op[c]: the operation that c calls, see Operations
  Locked,     \* the calls whose caller holds the store's lock
  Backends,   \* the values of the config's entry "store" that are considered
  PoolSize,   \* maxsize of MariadbPoolStore's pool of connections
  RecentLimit,  \* the number of recent partials that a login response asks for
  None,
  MaxFaults   \* bound on failures of the database and restarts

Operations == {"partial", "clear", "difficulty", "singleton", "farmer", "login"}

\* Every call is of one of the store's operations, the pool has a connection, and a
\* login response asks for some partials.
ASSUME StoreAssumption ==
  /\ Op \in [Calls -> Operations] /\ Locked \subseteq Calls /\ None \notin Calls
  /\ Backends \subseteq {"sqlite", "mariadb"}
  /\ PoolSize \in Nat \ {0} /\ RecentLimit \in Nat \ {0} /\ MaxFaults \in Nat

VARIABLES
  backend,  \* which store the process has made
  db,       \* the committed statements, and the points column they lead to
  open,     \* open[k]: what is not yet committed on connection k, see Transaction
  taken,    \* MariaDB: connections not in the pool, with the call that took each
  lock,     \* who holds the store's lock
  status,   \* status[c]: how far c is
  step,     \* step[c]: the statement of its program that c has reached
  shown,    \* shown[c]: what a login has read
  exposed,  \* history: credits committed half-done by another call's commit
  faults    \* history: number of failures

store == <<backend, db, open>>
vars == <<store, taken, lock, status, step, shown, exposed, faults>>

Credits == {c \in Calls : Op[c] = "partial"}
Writes == {"row", "points", "clear", "difficulty", "singleton", "farmer"}
Statement == [op : Writes, call : Calls]

\* The statements of an open transaction, and what they do to the points column:
\* whether they clear it, and the credits they leave there.
Transaction == [done : SUBSET Statement, cleared : BOOLEAN, added : SUBSET Credits]
Begun == [done |-> {}, cleared |-> FALSE, added |-> {}]

TypeOK ==
  /\ backend \in Backends
  /\ db \in [applied : SUBSET Statement, points : SUBSET Credits]
  /\ open \in [Calls \cup {None} -> Transaction]
  /\ taken \subseteq Calls \X {1, 2} /\ Cardinality(taken) <= PoolSize
  /\ lock \in Calls \cup {None}
  /\ status \in [Calls -> {"waiting", "running", "ok", "raised", "lost"}]
  /\ step \in [Calls -> 0..8]
  /\ shown \in [Calls -> [points : SUBSET Credits, rows : SUBSET Credits]]
  /\ exposed \subseteq Credits /\ faults \in 0..MaxFaults

------------------------------------------------------------------------------
(* The programs.                                                           *)

\* Mutant: the points first, then the row.
PointsFirst ==
  [sqlite |-> <<"points", "row", "commit">>,
   mariadb |-> <<"acquire", "points", "commit", "release", "acquire", "row", "commit", "release">>]

\* Mutant: a commit of its own for each statement.
CommitEach ==
  [sqlite |-> <<"row", "commit", "points", "commit">>,
   mariadb |-> <<"acquire", "row", "commit", "release", "acquire", "points", "commit", "release">>]

\* Mutant: the second connection stays with the call.
AddPartialKeepsSecond ==
  [sqlite |-> <<"row", "points", "commit">>,
   mariadb |-> <<"acquire", "row", "commit", "release", "acquire", "points", "commit">>]

AddPartial ==
  [sqlite |-> <<"row", "points", "commit">>,
   mariadb |-> <<"acquire", "row", "commit", "release", "acquire", "points", "commit", "release">>]

\* Mutant: whether there is anything to commit is left to the next writer.
WriteOnly(statement) ==
  [sqlite |-> <<statement>>, mariadb |-> <<"acquire", statement, "release">>]

Write(statement) ==
  [sqlite |-> <<statement, "commit">>, mariadb |-> <<"acquire", statement, "commit", "release">>]

\* The connection of the with statement is released, the second one is not.
UpdateDifficulty ==
  [sqlite |-> <<"difficulty", "commit">>,
   mariadb |-> <<"acquire", "acquire", "difficulty", "commit", "release">>]

\* Mutant: the partials are read before the record.
PartialsFirst ==
  [sqlite |-> <<"partials", "record">>,
   mariadb |-> <<"acquire", "partials", "release", "acquire", "record", "release">>]

\* get_farmer_record, then get_recent_partials.
LoginResponse ==
  [sqlite |-> <<"record", "partials">>,
   mariadb |-> <<"acquire", "record", "release", "acquire", "partials", "release">>]

\* The program of each operation, in each store.
Programs == [op \in Operations |->
  CASE op = "partial" -> AddPartial
    [] op = "difficulty" -> UpdateDifficulty
    [] op = "login" -> LoginResponse
    [] OTHER -> Write(op)]

Program(c) == Programs[Op[c]][backend]

At(c, what) == status[c] = "running" /\ Program(c)[step[c]] = what
Conn(c) == IF backend = "sqlite" THEN None ELSE c

------------------------------------------------------------------------------
(* What statements do.                                                     *)

Apply(t, s) ==
  [done |-> t.done \cup {s},
   cleared |-> t.cleared \/ s.op = "clear",
   added |-> CASE s.op = "points" -> t.added \cup {s.call}
               [] s.op = "clear" -> {}
               [] OTHER -> t.added]

\* A connection sees its own transaction on top of what is committed.
View(c) ==
  [applied |-> db.applied \cup open[Conn(c)].done,
   points |-> (IF open[Conn(c)].cleared THEN {} ELSE db.points) \cup open[Conn(c)].added]
Rows(d) == {c \in Credits : [op |-> "row", call |-> c] \in d.applied}

End(c, outcome) ==
  /\ status' = [status EXCEPT ![c] = outcome]
  /\ step' = [step EXCEPT ![c] = 0]
  /\ lock' = IF lock = c THEN None ELSE lock

\* The step is done: on to the next one, or back to the caller.
Advance(c) ==
  IF step[c] < Len(Program(c))
    THEN step' = [step EXCEPT ![c] = @ + 1] /\ UNCHANGED <<status, lock>>
    ELSE End(c, "ok")

\* Calls come at any time; those under the lock wait until it is free.
Enter(c) ==
  /\ status[c] = "waiting"
  /\ IF c \in Locked THEN lock = None /\ lock' = c ELSE UNCHANGED lock
  /\ status' = [status EXCEPT ![c] = "running"]
  /\ step' = [step EXCEPT ![c] = 1]
  /\ UNCHANGED <<store, taken, shown, exposed, faults>>

\* Mutant: one connection more when the pool has none.
AcquireAnyway(c) ==
  /\ At(c, "acquire")
  /\ taken' = taken \cup {<<c, IF <<c, 1>> \in taken THEN 2 ELSE 1>>}
  /\ Advance(c)
  /\ UNCHANGED <<store, shown, exposed, faults>>

Acquire(c) ==
  /\ At(c, "acquire")
  /\ Cardinality(taken) < PoolSize
  /\ taken' = taken \cup {<<c, IF <<c, 1>> \in taken THEN 2 ELSE 1>>}
  /\ Advance(c)
  /\ UNCHANGED <<store, shown, exposed, faults>>

\* The end of a with statement returns the connection that it began with.
Release(c) ==
  /\ At(c, "release")
  /\ taken' = taken \ {<<c, 1>>}
  /\ Advance(c)
  /\ UNCHANGED <<store, shown, exposed, faults>>

\* MariaDB has a writer of the farmer's row wait for an uncommitted one.
RowFree(c, op) ==
  op = "row" \/ \A k \in (Calls \cup {None}) \ {Conn(c)} : \A s \in open[k].done : s.op = "row"

\* The farmer table has 13 columns in MariaDB, and 11 values are inserted.
Rejected(op) == backend = "mariadb" /\ op = "farmer"

Execute(c, op) ==
  /\ At(c, op)
  /\ ~Rejected(op) /\ RowFree(c, op)
  /\ open' = [open EXCEPT ![Conn(c)] = Apply(@, [op |-> op, call |-> c])]
  /\ Advance(c)
  /\ UNCHANGED <<backend, db, taken, shown, exposed, faults>>

HalfDone(c, d) ==
  [op |-> "row", call |-> c] \in d.applied /\ [op |-> "points", call |-> c] \notin d.applied

Commit(c) ==
  /\ At(c, "commit")
  /\ db' = View(c)
  /\ open' = [open EXCEPT ![Conn(c)] = Begun]
  /\ exposed' = exposed \cup {d \in Credits \ {c} : HalfDone(d, View(c)) /\ ~HalfDone(d, db)}
  /\ Advance(c)
  /\ UNCHANGED <<backend, taken, shown, faults>>

ReadRecord(c) ==
  /\ At(c, "record")
  /\ shown' = [shown EXCEPT ![c].points = View(c).points]
  /\ Advance(c)
  /\ UNCHANGED <<store, taken, exposed, faults>>

\* ORDER BY timestamp DESC LIMIT.  Which rows are the newest is left open.
Newest(rows) ==
  IF Cardinality(rows) <= RecentLimit THEN {rows}
  ELSE {some \in SUBSET rows : Cardinality(some) = RecentLimit}

ReadPartials(c) ==
  /\ At(c, "partials")
  /\ \E rows \in Newest(Rows(View(c))) : shown' = [shown EXCEPT ![c].rows = rows]
  /\ Advance(c)
  /\ UNCHANGED <<store, taken, exposed, faults>>

------------------------------------------------------------------------------
(* Failures.                                                               *)

\* An exception leaves the with statement, which returns its connection.
Raise(c) ==
  /\ End(c, "raised")
  /\ taken' = taken \ {<<c, 1>>}
  /\ UNCHANGED <<backend, shown, exposed>>

\* What the call has not committed.  A connection of MariaDB that is returned, or
\* breaks, rolls it back; SQLite's one connection keeps it, and so does the second
\* one of update_difficulty, which nothing returns, with the lock of its row.
RollBack(c) ==
  \/ (backend = "sqlite" \/ Op[c] = "difficulty") /\ UNCHANGED open
  \/ backend = "mariadb" /\ open' = [open EXCEPT ![c] = Begun]

\* A commit may have reached MariaDB although its answer is lost.
CallFails(c) ==
  /\ status[c] = "running" /\ ~At(c, "release")
  /\ faults < MaxFaults /\ faults' = faults + 1
  /\ \/ UNCHANGED db /\ RollBack(c)
     \/ /\ backend = "mariadb" /\ At(c, "commit")
        /\ db' = View(c) /\ open' = [open EXCEPT ![c] = Begun]
  /\ Raise(c)

InsertRejected(c) ==
  /\ \E op \in Writes : At(c, op) /\ Rejected(op)
  /\ RollBack(c) /\ Raise(c)
  /\ UNCHANGED <<db, faults>>

\* MariaDB has nobody wait for a row for ever.
LockWaitTimeout(c) ==
  /\ \E op \in Writes : At(c, op) /\ ~RowFree(c, op)
  /\ RollBack(c) /\ Raise(c)
  /\ UNCHANGED <<db, faults>>

Crash ==
  /\ faults < MaxFaults /\ faults' = faults + 1
  /\ status' = [c \in Calls |-> IF status[c] = "running" THEN "lost" ELSE status[c]]
  /\ step' = [c \in Calls |-> 0]
  /\ open' = [k \in Calls \cup {None} |-> Begun]
  /\ taken' = {} /\ lock' = None
  /\ UNCHANGED <<backend, db, shown, exposed>>

------------------------------------------------------------------------------
Init ==
  /\ backend \in Backends
  /\ db = [applied |-> {}, points |-> {}]
  /\ open = [k \in Calls \cup {None} |-> Begun]
  /\ taken = {} /\ lock = None
  /\ status = [c \in Calls |-> "waiting"] /\ step = [c \in Calls |-> 0]
  /\ shown = [c \in Calls |-> [points |-> {}, rows |-> {}]]
  /\ exposed = {} /\ faults = 0

Proceed(c) ==
  \/ Enter(c) \/ Acquire(c) \/ Release(c) \/ Commit(c) \/ ReadRecord(c) \/ ReadPartials(c)
  \/ InsertRejected(c) \/ LockWaitTimeout(c)
  \/ \E op \in Writes : Execute(c, op)

Next == Crash \/ \E c \in Calls : Proceed(c) \/ CallFails(c)

\* The database answers, and somebody who can go on does: each call is made once,
\* so that waiting for the lock or for a connection needs no more than that.
Fairness == WF_vars(\E c \in Calls : Proceed(c))

Spec == Init /\ [][Next]_vars
FairSpec == Spec /\ Fairness

------------------------------------------------------------------------------
(* Properties.                                                             *)

\* What a call that has returned has done survives a restart, in either store.
DurableOnReturn ==
  \A c \in Calls : status[c] = "ok" =>
    \A op \in {Program(c)[i] : i \in DOMAIN Program(c)} \cap Writes : [op |-> op, call |-> c] \in db.applied

\* Nobody has points without the partial they come from, not even after a
\* restart in the middle of add_partial, which MariaDB commits in two parts.
PointsHaveRows ==
  \A c \in Credits : [op |-> "points", call |-> c] \in db.applied => c \in Rows(db)

\* In SQLite add_partial is one transaction: its row is committed without its
\* points only by another call, on the connection that they share.
HalfOnlyIfExposed ==
  backend = "sqlite" => \A c \in Credits : HalfDone(c, db) => c \in exposed

\* The points of a login response are those of partials in the same response,
\* although record and partials are read apart, unless the response has as many
\* partials as it asks for (pool_server.py, login_response).
LoginShowsWhatItCounts ==
  \A c \in Calls : Op[c] = "login" /\ status[c] = "ok" =>
    shown[c].points \subseteq shown[c].rows \/ Cardinality(shown[c].rows) = RecentLimit

\* The pool has no connection left: each is one that update_difficulty did not
\* return, or is held by an update that waits for its second (mariadb_store.py,
\* line 141).
Drained ==
  /\ Cardinality(taken) = PoolSize
  /\ \A t \in taken : /\ Op[t[1]] = "difficulty"
                      /\ t[2] = 2 \/ At(t[1], "acquire")

\* Every call returns, unless MariaDB's pool of connections has been drained.
CallsReturn == <>[](Drained \/ \A c \in Calls : status[c] \notin {"waiting", "running"})
==============================================================================
