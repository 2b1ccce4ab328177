--------------------------- MODULE MigrationState --------------------------
(***************************************************************************)
(* The migration state protocol of src/migrations/MigrationState.cpp with  *)
(* the loop of Runner::execute and the SQLite rebuild session of           *)
(* src/migrations/Runner.cpp: several processes, each with one Database    *)
(* session, run up, down, baseline, resolve and validate against one       *)
(* database.                                                               *)
(*                                                                         *)
(* Steps are cut where another process can interfere or where the session  *)
(* can be lost: every round trip that reads or writes shared state, every  *)
(* commit, and every destructor that the unwinding C++ exception runs      *)
(* (~Transaction, ~MigrationLock, ~SqliteRebuildSession, in that order).   *)
(***************************************************************************)
EXTENDS MigrationPlan

CONSTANTS
    Client,          \* processes, one Database session each
    Backend,         \* "sqlite", "postgres" or "mysql" (both MySQL and MariaDB)
    Catalog,         \* Catalog[c]: the catalog process c was built with
    Rebuilds,        \* versions whose context is MigrationExecutionMode::SqliteRebuild
    Ops,             \* Ops[c]: the operations process c calls
    CarefulOperator  \* whether resolve() is only called on evidence that holds

ASSUME ClientAssumption == "free" \notin Client /\ "orphan" \notin Client
ASSUME BackendAssumption ==
    /\ Backend \in {"sqlite", "postgres", "mysql"}
    /\ Rebuilds \subseteq Versions
    /\ Backend # "sqlite" => Rebuilds = {}
ASSUME CatalogAssumption == Catalog \in [Client -> CatalogType]
ASSUME OperatorAssumption == CarefulOperator \in BOOLEAN
ASSUME OpsAssumption ==
    Ops \in [Client -> SUBSET {"up", "down", "baseline", "validate", "resolve"}]

\* MigrationAtomicity: SQLite and PostgreSQL migrate a whole step in one
\* transaction, which also holds the lock; MySQL and MariaDB commit DDL
\* implicitly, hold a session lock and keep a durable marker.
Transactional == Backend # "mysql"

\* What the scripts run so far have done to the schema objects of a version.
Effect == {"absent", "partial", "applied"}
Schema == [Versions -> Effect]
Database == [history : History, marker : Marker \cup {None}, schema : Schema]

ASSUME NoTransactionAssumption == None \notin Database /\ None \notin {"Completed", "Reverted"}

Targets == Versions \cup {0}
Calls == [op : {"up", "down", "baseline"}, target : Targets, sum : {None}, claim : {None}]
         \cup [op : {"validate"}, target : {0}, sum : {None}, claim : {None}]
         \cup [op : {"resolve"}, target : Versions, sum : Sums, claim : {"Completed", "Reverted"}]
NoCall == [op |-> "none", target |-> 0, sum |-> None, claim |-> None]

ErrorCode == {"Ok", "NotConnected", "ActiveTransaction", "InvalidHistory", "ChecksumMismatch",
              "InvalidTarget", "MissingDown", "BaselineBoundary", "LockUnavailable",
              "HistoryChanged", "Execution", "CommitUncertain", "IncompleteMigration",
              "InvalidResolution", "InvalidSql", "InvalidSchema", "SessionRestoration"}

VARIABLES
    db,       \* committed contents: history table, journal and schema effects
    lock,     \* holder of the migration lock: a client, "free", or "orphan"
    orphan,   \* what a lost server session may still commit before it ends
    pc,       \* where each client is in its call
    conn,     \* "up", "dead" (session lost or closed, Database not yet told), "off"
    active,   \* Database::migrationActive
    fk,       \* PRAGMA foreign_keys of the session
    saved,    \* previous values the scoped objects restore
    call,     \* the call in progress
    todo,     \* plan.migrations still to run, the current one included
    expected, \* the history the client believes in
    seen,     \* resolve(): initial.incomplete
    txn,      \* working copy of an open write transaction
    done,     \* the current step's commit was confirmed
    err       \* the exception in flight, or "Ok"

vars == <<db, lock, orphan, pc, conn, active, fk, saved, call, todo, expected, seen, txn, done, err>>
server == <<db, lock, orphan>>
session == <<conn, active, fk, saved>>
request == <<call, todo, expected, seen>>

Labels == {"Idle", "Status", "Rebuild", "Lock", "Check", "Mark", "Script", "Scripting", "Begin",
           "Exec", "Record", "Commit", "Finish", "EndTxn", "EndLock", "EndRebuild", "Return"}
Saved == [txn : BOOLEAN, rebuild : BOOLEAN, fk : BOOLEAN, enabled : BOOLEAN]
NothingSaved == [txn |-> FALSE, rebuild |-> FALSE, fk |-> TRUE, enabled |-> FALSE]

\* The type invariant: every variable stays within its declared shape.
TypeOK ==
    /\ db \in Database
    /\ lock \in Client \cup {"free", "orphan"}
    /\ orphan \in Database \cup {None}
    /\ pc \in [Client -> Labels]
    /\ conn \in [Client -> {"up", "dead", "off"}]
    /\ active \in [Client -> BOOLEAN]
    /\ fk \in [Client -> BOOLEAN]
    /\ saved \in [Client -> Saved]
    /\ call \in [Client -> Calls \cup {NoCall}]
    /\ todo \in [Client -> SUBSET Versions]
    /\ expected \in [Client -> History]
    /\ seen \in [Client -> Marker \cup {None}]
    /\ txn \in [Client -> Database \cup {None}]
    /\ done \in [Client -> BOOLEAN]
    /\ err \in [Client -> ErrorCode]

Init ==
    /\ db = [history |-> NoHistory, marker |-> None, schema |-> [v \in Versions |-> "absent"]]
    /\ lock = "free"
    /\ orphan = None
    /\ pc = [c \in Client |-> "Idle"]
    /\ conn = [c \in Client |-> "up"]
    /\ active = [c \in Client |-> FALSE]
    /\ fk = [c \in Client |-> TRUE]
    /\ saved = [c \in Client |-> NothingSaved]
    /\ call = [c \in Client |-> NoCall]
    /\ todo = [c \in Client |-> {}]
    /\ expected = [c \in Client |-> NoHistory]
    /\ seen = [c \in Client |-> None]
    /\ txn = [c \in Client |-> None]
    /\ done = [c \in Client |-> FALSE]
    /\ err = [c \in Client |-> "Ok"]

-----------------------------------------------------------------------------
(* What a client is working on.                                            *)

\* The direction of the change: an operator's resolution takes the marker's.
DirectionOf(c) ==
    CASE call[c].op = "down" -> "Down"
      [] call[c].op = "resolve" /\ seen[c] # None -> seen[c].direction
      [] OTHER -> "Up"

StepVersion(c) == NextVersion(DirectionOf(c), todo[c])
Migrating(c) == call[c].op \in {"up", "down"}

\* The schema effect a script starts from and the one it ends in.
Source(d) == IF d = "Up" THEN "absent" ELSE "applied"
Outcome(d) == IF d = "Up" THEN "applied" ELSE "absent"

\* Variant: every marker is recorded as an upgrade.
MarkerAlwaysUp(c) == [version |-> StepVersion(c), direction |-> "Up",
                      sum |-> Catalog[c][StepVersion(c)].sum]

\* The marker recordIncomplete() writes and requireMarker() compares with.
MarkerOf(c) == [version |-> StepVersion(c), direction |-> DirectionOf(c),
                sum |-> Catalog[c][StepVersion(c)].sum]

Goto(c, label) == pc' = [pc EXCEPT ![c] = label] /\ UNCHANGED err
Throw(c, code, label) == pc' = [pc EXCEPT ![c] = label] /\ err' = [err EXCEPT ![c] = code]

\* Continue at label unless code is an error, which unwinds from handler.
Continue(c, code, label, handler) ==
    IF code = "Ok" THEN Goto(c, label) ELSE Throw(c, code, handler)

\* Runner::execute's loop body opens with the rebuild session, when the
\* migration's context asks for one.
StepEntry(c, d, plan) ==
    IF Migrating(c) /\ NextVersion(d, plan) \in Rebuilds THEN "Rebuild" ELSE "Lock"

\* Variant: the lock survives its session.
AbandonKeepsLock(c, pending) == UNCHANGED <<lock, orphan>>

\* Database::disconnect() as seen by the server: the session's lock and open
\* transaction stay until the server has ended the session.
Abandon(c, pending) ==
    /\ lock' = IF lock = c THEN "orphan" ELSE lock
    /\ orphan' = IF lock = c THEN pending ELSE orphan

-----------------------------------------------------------------------------
(* Calls: the constructor of MigrationState, status() and the plan.        *)

\* ready(): the codes it may end with.  A lost session may still look connected.
ReadyCodes(c) ==
    (IF conn[c] = "up" THEN {} ELSE {"NotConnected"})
    \cup (IF conn[c] = "off" THEN {} ELSE IF active[c] THEN {"ActiveTransaction"} ELSE {"Ok"})

\* The evidence an operator needs before resolve(): nobody holds the lock or is
\* resolving, and the schema is what the claim says of the marked migration.
Evidence(k) ==
    /\ lock = "free"
    /\ \A c \in Client : call[c].op # "resolve"
    /\ db.marker # None
    /\ db.schema[db.marker.version] =
          IF k.claim = "Completed" THEN Outcome(db.marker.direction) ELSE Source(db.marker.direction)

Call(c, k) ==
    /\ pc[c] = "Idle"
    /\ k.op \in Ops[c]
    /\ k.op = "resolve" /\ CarefulOperator => Evidence(k)
    /\ call' = [call EXCEPT ![c] = k]
    /\ \E code \in ReadyCodes(c) : Continue(c, code, "Status", "Return")
    /\ UNCHANGED <<server, session, todo, expected, seen, txn, done>>

\* What status() and the planning of the operation answer for this history and marker.
Refusal(c, h, m) ==
    LET k == call[c]
        cat == Catalog[c]
    IN  CASE k.op = "validate" -> Invalid(cat, h, m)
          [] k.op = "up" -> PlanRefusal(cat, h, m, "Up", k.target)
          [] k.op = "down" -> PlanRefusal(cat, h, m, "Down", k.target)
          [] k.op = "baseline" ->
                IF Invalid(cat, h, m) = "Ok" /\ (Keys(h) # {} \/ k.target <= 0)
                THEN "InvalidTarget" ELSE PlanRefusal(cat, h, m, "Up", k.target)
          [] OTHER ->
                IF Fault(cat, h, m) # "Ok" THEN Fault(cat, h, m)
                ELSE IF ~Transactional /\ m # None /\ m.version = k.target /\ m.sum = k.sum
                     THEN "Ok" ELSE "InvalidResolution"

PlanOf(c, h) ==
    LET k == call[c]
    IN  CASE k.op = "up" -> Selected(Catalog[c], h, "Up", k.target)
          [] k.op = "down" -> Selected(Catalog[c], h, "Down", k.target)
          [] k.op \in {"baseline", "resolve"} -> {k.target}
          [] OTHER -> {}

\* status() reads history and journal in one read transaction, and the plan is
\* made from what it read; the plan then stands for the target.
ReadStatus(c) ==
    /\ pc[c] = "Status"
    /\ conn[c] = "up"
    /\ LET code == Refusal(c, db.history, db.marker)
           plan == IF code = "Ok" THEN PlanOf(c, db.history) ELSE {}
       IN  /\ Continue(c, code,
                       IF plan = {} THEN "Return"
                       ELSE StepEntry(c, IF call[c].op = "down" THEN "Down" ELSE "Up", plan),
                       "Return")
           /\ todo' = [todo EXCEPT ![c] = plan]
           /\ call' = [call EXCEPT ![c].target = IF Migrating(c) THEN 0 ELSE @]
           /\ expected' = [expected EXCEPT ![c] = IF code = "Ok" THEN db.history ELSE @]
           /\ seen' = [seen EXCEPT ![c] = IF code = "Ok" THEN db.marker ELSE @]
    /\ UNCHANGED <<server, session, txn, done>>

\* The read transaction's commit fails: Transaction::commit disconnects.
StatusUncertain(c) ==
    /\ pc[c] = "Status"
    /\ conn[c] = "up"
    /\ conn' = [conn EXCEPT ![c] = "off"]
    /\ Throw(c, "CommitUncertain", "Return")
    /\ UNCHANGED <<server, active, fk, saved, request, txn, done>>

-----------------------------------------------------------------------------
(* The SQLite rebuild session around a step.                               *)

\* The constructor saves and disables foreign keys outside the transaction.
BeginRebuild(c) ==
    /\ pc[c] = "Rebuild"
    /\ conn[c] = "up"
    /\ active' = [active EXCEPT ![c] = TRUE]
    /\ fk' = [fk EXCEPT ![c] = FALSE]
    /\ saved' = [saved EXCEPT ![c] = [@ EXCEPT !.rebuild = active[c], !.fk = fk[c], !.enabled = TRUE]]
    /\ Goto(c, "Lock")
    /\ UNCHANGED <<server, conn, request, txn, done>>

\* A PRAGMA fails in the constructor: it restores what it can, else disconnects.
FailRebuild(c) ==
    /\ pc[c] = "Rebuild"
    /\ \E code \in {"Execution", "InvalidSchema"} : Throw(c, code, "Return")
    /\ conn' \in {conn, [conn EXCEPT ![c] = "off"]}
    /\ UNCHANGED <<server, active, fk, saved, request, txn, done>>

-----------------------------------------------------------------------------
(* HistoryWrite and the body of apply(), baseline() and resolve().         *)

Grants(c) == lock = "free"

\* beginMigration(): BEGIN IMMEDIATE, the advisory lock or GET_LOCK, never waiting.
AcquireLock(c) ==
    /\ pc[c] = "Lock"
    /\ conn[c] = "up"
    /\ Grants(c)
    /\ lock' = c
    /\ active' = [active EXCEPT ![c] = TRUE]
    /\ IF Transactional
       THEN /\ txn' = [txn EXCEPT ![c] = db]
            /\ saved' = [saved EXCEPT ![c].txn = active[c]]
            /\ Goto(c, "Begin")
       ELSE /\ UNCHANGED <<txn, saved>>
            /\ Goto(c, IF call[c].op = "resolve" THEN "Begin" ELSE "Check")
    /\ UNCHANGED <<db, orphan, conn, fk, request, done>>

\* Variant: the session waits for the lock.
WaitForLock(c) == FALSE /\ c \in Client /\ UNCHANGED vars

RefuseLock(c) ==
    /\ pc[c] = "Lock"
    /\ conn[c] = "up"
    /\ ~Grants(c)
    /\ Throw(c, "LockUnavailable", "EndRebuild")
    /\ UNCHANGED <<server, session, request, txn, done>>

\* requireValid(inspect())
Inspect(c) == Invalid(Catalog[c], db.history, db.marker)

\* A nontransactional writer inspects again under the lock and runs the
\* preflight, before any history DDL.
Check(c) ==
    /\ pc[c] = "Check"
    /\ conn[c] = "up"
    /\ \E preflight \in IF Migrating(c) THEN {"Ok", "InvalidSchema"} ELSE {"Ok"} :
          Continue(c, IF Inspect(c) = "Ok" THEN preflight ELSE Inspect(c),
                   IF Migrating(c) THEN "Mark" ELSE "Begin", "EndLock")
    /\ UNCHANGED <<server, session, request, txn, done>>

\* Variant: nobody looks whether the history is still the expected one.
TrustHistory(c) == IF c \in Client THEN "Ok" ELSE "HistoryChanged"

RequireHistory(c) == IF db.history = expected[c] THEN "Ok" ELSE "HistoryChanged"

\* recordIncomplete(): the slot of the journal, its primary key, must be free.
MarkerCode(c) == IF RequireHistory(c) = "Ok" /\ db.marker # None THEN "Execution" ELSE RequireHistory(c)

\* The marker transaction commits before any of the script's statements run.
WriteMarker(c) ==
    /\ pc[c] = "Mark"
    /\ conn[c] = "up"
    /\ Continue(c, MarkerCode(c), "Script", "EndLock")
    /\ db' = IF MarkerCode(c) = "Ok" THEN [db EXCEPT !.marker = MarkerOf(c)] ELSE db
    /\ UNCHANGED <<lock, orphan, session, request, txn, done>>

MarkerUncertain(c) ==
    /\ pc[c] = "Mark"
    /\ conn[c] = "up"
    /\ MarkerCode(c) = "Ok"
    /\ Abandon(c, [db EXCEPT !.marker = MarkerOf(c)])
    /\ conn' = [conn EXCEPT ![c] = "off"]
    /\ Throw(c, "CommitUncertain", "EndLock")
    /\ UNCHANGED <<db, active, fk, saved, request, txn, done>>

\* executeMigrationScript() on MySQL: statements commit one by one.
BeginScript(c) ==
    /\ pc[c] = "Script"
    /\ conn[c] = "up"
    /\ db' = [db EXCEPT !.schema[StepVersion(c)] = "partial"]
    /\ Goto(c, "Scripting")
    /\ UNCHANGED <<lock, orphan, session, request, txn, done>>

EndScript(c) ==
    /\ pc[c] = "Scripting"
    /\ conn[c] = "up"
    /\ db' = [db EXCEPT !.schema[StepVersion(c)] = Outcome(DirectionOf(c))]
    /\ Goto(c, "Begin")
    /\ UNCHANGED <<lock, orphan, session, request, txn, done>>

\* All statements ran, but the script changed connection settings, left a
\* transaction open or lost the lock: the backend closes the session.  (Scripts on
\* MySQL are assumed to leave the tables of the history and the journal alone; one
\* that removes them ends with InvalidHistory.)
RejectScript(c) ==
    /\ pc[c] = "Scripting"
    /\ conn[c] = "up"
    /\ db' = [db EXCEPT !.schema[StepVersion(c)] = Outcome(DirectionOf(c))]
    /\ Abandon(c, None)
    /\ conn' = [conn EXCEPT ![c] = "dead"]
    /\ \E code \in {"InvalidSql", "LockUnavailable"} : Throw(c, code, "EndLock")
    /\ UNCHANGED <<active, fk, saved, request, txn, done>>

\* beginHistory(), then history (and marker) must be what the call started from.
\* A transactional step runs its preflight here.
BeginHistory(c) ==
    /\ pc[c] = "Begin"
    /\ conn[c] = "up"
    /\ \E preflight \in IF Migrating(c) /\ Transactional THEN {"Ok", "InvalidSchema"} ELSE {"Ok"} :
          Continue(c,
                   IF RequireHistory(c) # "Ok" THEN RequireHistory(c)
                   ELSE IF ~Transactional /\ Migrating(c) /\ db.marker # MarkerOf(c) THEN "InvalidHistory"
                   ELSE IF call[c].op = "resolve" /\ db.marker # seen[c] THEN "HistoryChanged"
                   ELSE preflight,
                   IF Migrating(c) /\ Transactional THEN "Exec" ELSE "Record", "EndTxn")
    /\ IF Transactional
       THEN UNCHANGED <<active, saved, txn>>
       ELSE /\ active' = [active EXCEPT ![c] = TRUE]
            /\ saved' = [saved EXCEPT ![c].txn = active[c]]
            /\ txn' = [txn EXCEPT ![c] = db]
    /\ UNCHANGED <<server, conn, fk, request, done>>

\* What a script could leave of the history: one row inserted, changed or deleted.
Tampered(h) == {h} \cup {[h EXCEPT ![v] = r] : v \in Versions, r \in Row \cup {None}}

\* A transactional script runs inside the writing transaction.  PostgreSQL lets it
\* write to the history; SQLite's authorizer does not, so that there the model allows
\* more than the program.
ExecuteScript(c) ==
    /\ pc[c] = "Exec"
    /\ conn[c] = "up"
    /\ \E h \in Tampered(txn[c].history) :
          txn' = [txn EXCEPT ![c] = [@ EXCEPT !.history = h,
                                              !.schema[StepVersion(c)] = Outcome(DirectionOf(c))]]
    /\ Goto(c, "Record")
    /\ UNCHANGED <<server, session, request, done>>

\* Variant: an applied migration is recorded with the baseline flag.
ChangedAsBaseline(c, h, v, d) ==
    [h EXCEPT ![v] = IF d = "Up" THEN [sum |-> Catalog[c][v].sum, kind |-> "baseline"] ELSE None]

\* changeHistory(): insert the ordinary row or delete it.
Changed(c, h, v, d) ==
    [h EXCEPT ![v] = IF d = "Up" THEN [sum |-> Catalog[c][v].sum, kind |-> "ordinary"] ELSE None]

\* baseline(): rows for the catalog's versions up to the target.
Accepted(c, h) ==
    [v \in Versions |-> IF v \in Keys(Catalog[c]) /\ v <= call[c].target
                        THEN [sum |-> Catalog[c][v].sum, kind |-> "baseline"] ELSE h[v]]

\* The history the operation writes over h.
Written(c, h) ==
    CASE Migrating(c) -> Changed(c, h, StepVersion(c), DirectionOf(c))
      [] call[c].op = "resolve" /\ call[c].claim = "Completed" ->
            Changed(c, h, StepVersion(c), DirectionOf(c))
      [] call[c].op = "baseline" -> Accepted(c, h)
      [] OTHER -> h

\* apply()'s check of what it reads back: the expected rows and one new last
\* row, or the expected rows without the last.
OneRowMore(old, new) ==
    \E v \in Keys(new) \ Keys(old) :
        /\ \A w \in Keys(old) : w < v
        /\ \A w \in Versions \ {v} : new[w] = old[w]
OneRowLess(old, new) ==
    \E v \in Keys(old) \ Keys(new) :
        /\ \A w \in Keys(old) : w <= v
        /\ \A w \in Versions \ {v} : new[w] = old[w]

\* Variant: what the script left of the history is not read back.
NoReadback(c, old, new) == c \in Client

Readback(c, old, new) ==
    CASE Migrating(c) -> IF DirectionOf(c) = "Up" THEN OneRowMore(old, new) ELSE OneRowLess(old, new)
      [] call[c].op = "baseline" ->
            /\ Keys(new) = Selected(Catalog[c], old, "Up", call[c].target)
            /\ CurrentVersion(new) = call[c].target
            /\ BaselineVersion(new) = call[c].target
      [] OTHER ->
            Cardinality(Keys(new)) = Cardinality(Keys(old)) +
                (IF call[c].claim = "Reverted" THEN 0 ELSE IF DirectionOf(c) = "Up" THEN 1 ELSE -1)

\* The versions recordHistory() inserts rows for.
Inserted(c) ==
    CASE call[c].op = "baseline" -> {v \in Keys(Catalog[c]) : v <= call[c].target}
      [] call[c].op = "resolve" /\ call[c].claim = "Reverted" -> {}
      [] OTHER -> IF DirectionOf(c) = "Up" THEN {StepVersion(c)} ELSE {}

\* An insert of a version that already has a row violates the primary key.
RecordFault(c, h) ==
    LET new == Written(c, h)
    IN  IF Inserted(c) \cap Keys(h) # {} THEN "Execution"
        ELSE IF Migrating(c) /\ ~Readback(c, expected[c], new) THEN "InvalidHistory"
        ELSE IF HistoryFault(Catalog[c], new) # "Ok" THEN HistoryFault(Catalog[c], new)
        ELSE IF ~Readback(c, expected[c], new) THEN "InvalidHistory"
        ELSE "Ok"

\* Variant: a resolution forgets clearMarker().
MarkerKeptByResolve(c) == IF call[c].op = "resolve" THEN txn[c].marker ELSE None

MarkerAfter(c) == None

\* The transaction's contents after changeHistory() and clearMarker().
Recorded(c) == [txn[c] EXCEPT !.history = Written(c, txn[c].history), !.marker = MarkerAfter(c)]

\* validateResult(), the history change, its read-back and clearMarker().
RecordHistory(c) ==
    /\ pc[c] = "Record"
    /\ conn[c] = "up"
    /\ \E result \in IF Migrating(c) THEN {"Ok", "InvalidSchema"} ELSE {"Ok"} :
          LET code == IF result = "Ok" THEN RecordFault(c, txn[c].history) ELSE result
          IN  /\ Continue(c, code, "Commit", "EndTxn")
              /\ txn' = [txn EXCEPT ![c] = IF code = "Ok" THEN Recorded(c) ELSE @]
    /\ UNCHANGED <<server, session, request, done>>

\* Variant: the session lock is given up with the transaction.
LockLostWithTransaction == "free"

\* A transactional lock ends with its transaction, a session lock does not.
LockAfterTransaction == IF Transactional THEN "free" ELSE lock

\* Transaction::commit() succeeds; a transactional lock ends with it.
CommitHistory(c) ==
    /\ pc[c] = "Commit"
    /\ conn[c] = "up"
    /\ db' = txn[c]
    /\ lock' = LockAfterTransaction
    /\ txn' = [txn EXCEPT ![c] = None]
    /\ expected' = [expected EXCEPT ![c] = txn[c].history]
    /\ done' = [done EXCEPT ![c] = TRUE]
    /\ Goto(c, IF Transactional THEN "EndTxn" ELSE "Finish")
    /\ UNCHANGED <<orphan, session, call, todo, seen>>

\* It throws: disconnect, and the server may yet commit or roll back.
CommitUncertain(c) ==
    /\ pc[c] = "Commit"
    /\ Abandon(c, txn[c])
    /\ txn' = [txn EXCEPT ![c] = None]
    /\ conn' = [conn EXCEPT ![c] = "off"]
    /\ active' = [active EXCEPT ![c] = FALSE]
    /\ Throw(c, "CommitUncertain", "EndTxn")
    /\ UNCHANGED <<db, fk, saved, request, done>>

\* MigrationLock::finish() releases the session lock after the commit.  A lock the
\* script acquired again is found still owned, and the session is closed; it is not
\* when RELEASE_LOCK does not confirm, and the destructor will try again.
FinishLock(c) ==
    /\ pc[c] = "Finish"
    /\ conn[c] = "up"
    /\ \/ /\ lock' = "free"
          /\ active' = [active EXCEPT ![c] = FALSE]
          /\ Goto(c, "EndTxn")
          /\ UNCHANGED <<orphan, conn>>
       \/ /\ Abandon(c, None)
          /\ conn' = [conn EXCEPT ![c] = "dead"]
          /\ Throw(c, "LockUnavailable", "EndTxn")
          /\ UNCHANGED active
       \/ /\ Throw(c, "LockUnavailable", "EndTxn")
          /\ UNCHANGED <<lock, orphan, conn, active>>
    /\ UNCHANGED <<db, fk, saved, request, txn, done>>

-----------------------------------------------------------------------------
(* Destructors, on return and on an exception alike.                       *)

\* Transaction::finished_
Finished(c) == done[c] \/ err[c] = "CommitUncertain"

\* ~Transaction: roll back unless finished; a failing rollback disconnects.
EndTransaction(c) ==
    /\ pc[c] = "EndTxn"
    /\ \/ /\ Finished(c)
          /\ UNCHANGED <<lock, orphan, conn>>
       \/ /\ ~Finished(c) /\ conn[c] = "up"
          /\ lock' = LockAfterTransaction
          /\ UNCHANGED <<orphan, conn>>
       \/ /\ ~Finished(c)
          /\ Abandon(c, None)
          /\ conn' = [conn EXCEPT ![c] = "off"]
    /\ txn' = [txn EXCEPT ![c] = None]
    /\ active' = [active EXCEPT ![c] = saved[c].txn]
    /\ Goto(c, IF Transactional THEN "EndRebuild" ELSE "EndLock")
    /\ UNCHANGED <<db, fk, saved, request, done>>

\* Access::setActive(database_, false) ends the destructor on every path.
FlagAfterLock(c) == FALSE

\* ~MigrationLock: release unless finish() did; a lost session or a failing
\* release disconnects.
EndMigrationLock(c) ==
    /\ pc[c] = "EndLock"
    /\ \/ /\ err[c] = "Ok" /\ conn[c] = "up"
          /\ UNCHANGED <<lock, orphan, conn>>
       \/ /\ err[c] = "Ok" /\ conn[c] # "up"
          /\ conn' \in {conn, [conn EXCEPT ![c] = "off"]}
          /\ UNCHANGED <<lock, orphan>>
       \/ /\ err[c] # "Ok" /\ conn[c] = "up"
          /\ lock' = "free"
          /\ UNCHANGED <<orphan, conn>>
       \/ /\ err[c] # "Ok"
          /\ Abandon(c, None)
          /\ conn' = [conn EXCEPT ![c] = "off"]
    /\ active' = [active EXCEPT ![c] = FlagAfterLock(c)]
    /\ Goto(c, "EndRebuild")
    /\ UNCHANGED <<db, fk, saved, request, txn, done>>

\* The rest of the loop body: the next step, or the end of the call.
EndStep(c, code) ==
    LET rest == todo[c] \ {StepVersion(c)}
    IN  IF code = "Ok"
        THEN /\ todo' = [todo EXCEPT ![c] = rest]
             /\ done' = [done EXCEPT ![c] = FALSE]
             /\ Goto(c, IF rest = {} THEN "Return" ELSE StepEntry(c, DirectionOf(c), rest))
        ELSE /\ UNCHANGED <<todo, done>>
             /\ Throw(c, code, "Return")

\* Variant: foreign keys are only enabled again after a success.
RestoredAfterSuccess(c) == IF err[c] = "Ok" THEN saved[c].fk ELSE fk[c]

RestoredForeignKeys(c) == IF conn[c] = "up" THEN saved[c].fk ELSE fk[c]

\* restoreAfterCommit() and ~SqliteRebuildSession put the pragma and the flag
\* back, when the session is still connected.
EndRebuildSession(c) ==
    /\ pc[c] = "EndRebuild"
    /\ EndStep(c, err[c])
    /\ IF saved[c].enabled
       THEN /\ fk' = [fk EXCEPT ![c] = RestoredForeignKeys(c)]
            /\ active' = [active EXCEPT ![c] = saved[c].rebuild]
       ELSE UNCHANGED <<fk, active>>
    /\ saved' = [saved EXCEPT ![c] = NothingSaved]
    /\ UNCHANGED <<server, conn, call, expected, seen, txn>>

\* Variant: a failed restoration is reported as a failed statement.
RestorationAsExecution(c) == IF err[c] = "Ok" THEN "Execution" ELSE err[c]

RestorationCode(c) == IF err[c] = "Ok" THEN "SessionRestoration" ELSE err[c]

\* Restoration fails: disconnect; after a commit that is SessionRestoration.
FailRestoration(c) ==
    /\ pc[c] = "EndRebuild"
    /\ saved[c].enabled
    /\ conn[c] = "up"
    /\ conn' = [conn EXCEPT ![c] = "off"]
    /\ active' = [active EXCEPT ![c] = saved[c].rebuild]
    /\ saved' = [saved EXCEPT ![c] = NothingSaved]
    /\ EndStep(c, RestorationCode(c))
    /\ UNCHANGED <<server, fk, call, expected, seen, txn>>

\* The call returns or throws to the application.
Return(c) ==
    /\ pc[c] = "Return"
    /\ Throw(c, "Ok", "Idle")
    /\ call' = [call EXCEPT ![c] = NoCall]
    /\ todo' = [todo EXCEPT ![c] = {}]
    /\ expected' = [expected EXCEPT ![c] = NoHistory]
    /\ seen' = [seen EXCEPT ![c] = None]
    /\ done' = [done EXCEPT ![c] = FALSE]
    /\ saved' = [saved EXCEPT ![c] = NothingSaved]
    /\ UNCHANGED <<server, conn, active, fk, txn>>

\* Any statement may throw soci_error, and every statement on a lost session
\* does: databaseFailure() reports Execution and unwinds what was constructed.
\* A Database without a session refuses the next step's HistoryWrite, and a backend
\* a script that does what it forbids.
StatementFails(c) ==
    /\ \/ pc[c] = "Status" /\ Throw(c, "Execution", "Return")
       \/ pc[c] = "Lock" /\ Throw(c, IF conn[c] = "off" THEN "NotConnected" ELSE "Execution", "EndRebuild")
       \/ pc[c] \in {"Check", "Mark", "Script", "Scripting"} /\ Throw(c, "Execution", "EndLock")
       \/ pc[c] = "Begin" /\ Throw(c, "Execution", IF Transactional THEN "EndTxn" ELSE "EndLock")
       \/ pc[c] = "Exec" /\ Throw(c, "InvalidSql", "EndTxn")
       \/ pc[c] \in {"Exec", "Record", "Finish"} /\ Throw(c, "Execution", "EndTxn")
    /\ UNCHANGED <<server, session, request, txn, done>>

-----------------------------------------------------------------------------
(* The environment.                                                        *)

\* The application disconnects a lost session and connects again; disconnect()
\* resets the flag only when a session is still attached.
Reconnect(c) ==
    /\ pc[c] = "Idle"
    /\ conn[c] # "up"
    /\ conn' = [conn EXCEPT ![c] = "up"]
    /\ active' = [active EXCEPT ![c] = IF conn[c] = "dead" THEN FALSE ELSE @]
    /\ fk' = [fk EXCEPT ![c] = TRUE]
    /\ UNCHANGED <<server, saved, pc, request, txn, done, err>>

\* A multi-statement script goes on to its end in a server session that has
\* lost its client, or stops where it is.
Unattended(c) ==
    IF pc[c] = "Scripting"
    THEN [db EXCEPT !.schema[StepVersion(c)] = Outcome(DirectionOf(c))] ELSE None

\* The network or server loses the session; its transaction is rolled back.
Drop(c) ==
    /\ Backend # "sqlite"
    /\ conn[c] = "up"
    /\ conn' = [conn EXCEPT ![c] = "dead"]
    /\ txn' = [txn EXCEPT ![c] = None]
    /\ Abandon(c, Unattended(c))
    /\ UNCHANGED <<db, pc, active, fk, saved, request, done, err>>

\* The process dies anywhere in a call and is started again.
Crash(c) ==
    /\ pc[c] # "Idle"
    /\ conn' = [conn EXCEPT ![c] = "off"]
    /\ txn' = [txn EXCEPT ![c] = None]
    /\ Abandon(c, Unattended(c))
    /\ pc' = [pc EXCEPT ![c] = "Idle"]
    /\ err' = [err EXCEPT ![c] = "Ok"]
    /\ active' = [active EXCEPT ![c] = FALSE]
    /\ saved' = [saved EXCEPT ![c] = NothingSaved]
    /\ call' = [call EXCEPT ![c] = NoCall]
    /\ todo' = [todo EXCEPT ![c] = {}]
    /\ expected' = [expected EXCEPT ![c] = NoHistory]
    /\ seen' = [seen EXCEPT ![c] = None]
    /\ done' = [done EXCEPT ![c] = FALSE]
    /\ UNCHANGED <<db, fk>>

\* The server ends an orphaned session: what was pending commits or is lost.
OrphanEnds ==
    /\ lock = "orphan"
    /\ lock' = "free"
    /\ orphan' = None
    /\ db' \in {db} \cup ({orphan} \ {None})
    /\ UNCHANGED <<pc, session, request, txn, done, err>>

\* Outside the program: the operator completes the script or restores the
\* state before it, while nothing else touches the database.
OperatorRepair ==
    /\ db.marker # None
    /\ lock = "free"
    /\ CarefulOperator => \A c \in Client : call[c].op # "resolve"
    /\ \E e \in {"absent", "applied"} : db' = [db EXCEPT !.schema[db.marker.version] = e]
    /\ UNCHANGED <<lock, orphan, pc, session, request, txn, done, err>>

\* The code a client runs by itself once called.
Step(c) ==
    \/ ReadStatus(c) \/ StatusUncertain(c)
    \/ BeginRebuild(c) \/ FailRebuild(c)
    \/ AcquireLock(c) \/ RefuseLock(c)
    \/ Check(c) \/ WriteMarker(c) \/ MarkerUncertain(c)
    \/ BeginScript(c) \/ EndScript(c) \/ RejectScript(c)
    \/ BeginHistory(c) \/ ExecuteScript(c)
    \/ RecordHistory(c) \/ CommitHistory(c) \/ CommitUncertain(c) \/ FinishLock(c)
    \/ EndTransaction(c) \/ EndMigrationLock(c)
    \/ EndRebuildSession(c) \/ FailRestoration(c)
    \/ conn[c] # "up" /\ StatementFails(c)
    \/ Return(c)

Next ==
    \/ \E c \in Client : Step(c)
    \/ \E c \in Client, k \in Calls : Call(c, k)
    \/ \E c \in Client : StatementFails(c) \/ Reconnect(c) \/ Drop(c) \/ Crash(c)
    \/ OrphanEnds
    \/ OperatorRepair

Spec == Init /\ [][Next]_vars

-----------------------------------------------------------------------------
(* Properties.                                                             *)

\* A client past beginMigration() whose session lives holds the lock until its
\* transaction and its MigrationLock are gone, and nobody else has an open
\* write transaction: writers exclude each other across all their commits.
Writing(c) ==
    \/ txn[c] # None
    \/ /\ conn[c] = "up"
       /\ \/ pc[c] \in {"Check", "Mark", "Script", "Scripting", "Begin", "Exec", "Record", "Commit", "Finish"}
          \/ pc[c] = "EndLock" /\ err[c] # "Ok"
WriterExclusion == \A c \in Client : Writing(c) => lock = c

\* What the runner's scripts did to the schema is what the history says: an
\* ordinary row exactly where the up script is in force, none where it was
\* reverted or never ran.  Only the version named by an incomplete marker may
\* deviate (apply(): "the runner never replays them automatically").
Agrees(d, v) == d.schema[v] = IF d.history[v] # None /\ d.history[v].kind = "ordinary"
                              THEN "applied" ELSE "absent"
SchemaMatchesHistory ==
    CarefulOperator =>
        \A v \in Versions : (db.marker # None /\ db.marker.version = v) \/ Agrees(db, v)

\* A script only ever starts from the state it was written for: an up script
\* where nothing of its version is in place, a down script where all of it is.
NoReplay ==
    CarefulOperator =>
        \A c \in Client :
            /\ pc[c] = "Script" /\ conn[c] = "up" => db.schema[StepVersion(c)] = Source(DirectionOf(c))
            /\ pc[c] = "Exec" /\ conn[c] = "up" => txn[c].schema[StepVersion(c)] = Source(DirectionOf(c))

\* Whatever was interrupted, the committed history and marker are a state that
\* some client's catalog finds in order, so its operator can resolve it.
Recoverable == \E c \in Client : Fault(Catalog[c], db.history, db.marker) = "Ok"

\* Between calls a Database keeps nothing of a migration: no lock, no open
\* transaction, no active flag that would refuse the next call, and foreign
\* keys enforced as onConnect() left them.
IdleSessionIsClean ==
    \A c \in Client : pc[c] = "Idle" =>
        /\ lock # c
        /\ txn[c] = None
        /\ ~active[c]
        /\ conn[c] = "up" => fk[c]

\* A call that returns normally has run its whole plan; a step whose commit was
\* confirmed is never reported as a failure that left the database unchanged
\* (a failed release of the session lock, or a lost session before it, is the
\* nontransactional exception).
HonestReport ==
    \A c \in Client : pc[c] = "Return" =>
        /\ err[c] = "Ok" => todo[c] = {}
        /\ done[c] => \/ err[c] = "SessionRestoration"
                      \/ ~Transactional /\ err[c] \in {"LockUnavailable", "Execution"}

\* Baseline rows are never deleted or rewritten: no downgrade crosses them.
BaselineIsFloor ==
    [][\A v \in Baselined(db.history) : db'.history[v] = db.history[v]]_vars

\* While a marker stands, nothing but its own resolution or completion changes
\* the history, and it is never overwritten by another marker.
MarkerBlocksWrites ==
    [][db.marker # None =>
          /\ db'.marker \in {db.marker, None}
          /\ db'.history # db.history => db'.marker = None]_vars

\* The history grows and shrinks only at its end, one row at a time, except
\* that a baseline fills an empty history.
HistoryChangesAtItsEnd ==
    [][\/ db'.history = db.history
       \/ OneRowMore(db.history, db'.history)
       \/ OneRowLess(db.history, db'.history)
       \/ Keys(db.history) = {} /\ Keys(db'.history) = Baselined(db'.history)]_vars

\* Under an operator who resolves on evidence, the committed state takes only
\* the steps of MigrationLedger: this protocol implements it.
Ledger == INSTANCE MigrationLedger
             WITH Atomic <- Transactional, history <- db.history,
                  schema <- db.schema, pending <- db.marker
ImplementsLedger == Ledger!Spec

(***************************************************************************)
(* Liveness.  A client keeps executing its own code (weak fairness of its  *)
(* steps, a statement that fails on a healthy session not being one), and  *)
(* the server eventually ends a session that lost its client.              *)
(* Nothing is assumed of the network, of crashes or of the application.    *)
(***************************************************************************)
Fairness == (\A c \in Client : WF_vars(Step(c))) /\ WF_vars(OrphanEnds)
FairSpec == Spec /\ Fairness

\* What docs/schema-migrations.md says of a nontransactional step: "A failure
\* leaves the marker".  A step that is reported as failed, by another code than
\* the two that announce a possible commit, has not been recorded.
FailureLeavesMarker ==
    \A c \in Client : pc[c] = "Return" /\ ~Transactional /\ done[c] =>
        err[c] \in {"Ok", "CommitUncertain", "SessionRestoration"}

\* Every call ends: no lock attempt waits for another process.
CallsReturn == \A c \in Client : pc[c] # "Idle" ~> pc[c] = "Idle"

\* The migration lock is always released, whatever fails while it is held.
LockIsReleased == lock # "free" ~> lock = "free"
=============================================================================
