# Formal models of orm-cxx

TLA+ models of the parts of orm-cxx in which several processes, sessions,
deliveries and failures meet, and of the one algorithm whose output is executed
on other people's data: the versioned-migration protocol, the migration project
directory, the generator of migration scripts, the database session with its
transactions and relation links, and the CI webhook receiver and bridge in
`tools/`. TLC checks the models on small instances; for every number of
processes, versions, tables, workflows or notices TLAPS proves all checked safety
properties of five of the six models, and of the sixth, the script generator,
what its checks guarantee before a script is executed on any backend, and on
SQLite what its scripts then do.

Paths below are relative to the repository root.

## 1. The system

| Part | State | Operations | Hard because |
| --- | --- | --- | --- |
| Migration state protocol (`src/migrations/MigrationState.cpp`, `Runner.cpp`) | tables `_orm_migrations` and `_orm_migrations_incomplete`, the migration lock, `Database::migrationActive`, `PRAGMA foreign_keys`, scoped objects on the stack | status, validate, preview, up, down, baseline, resolve | several deployers, crashes and lost sessions between any two round trips, DDL that commits implicitly, commits of unknown outcome, unwinding that talks to the server |
| Migration project (`src/migrations/MigrationProject.cpp`) | a directory of drafts and finalized migrations, `.orm-cxx-lock`, `.orm-cxx-staging`, temporary files | init, make, makeManual, finalize, catalog, latestSnapshot, draftVersion | readers take no lock, people edit the files, a process may end between any two file operations |
| Schema comparison and generation (`SchemaDiff.cpp`, `SchemaGeneration.cpp`, `SchemaSnapshot.cpp`) | none; its scripts change a database statement by statement | capture, compare, generate | order of dependent statements, permuted names, values read from columns the same script changes, three backends |
| Database session (`src/Database.cpp`, `src/database/mysql_family/MysqlFamily.cpp`) | `transaction`, `transactionFailed`, `backend`; `transactionActive_` and `linkLocks_`; the server's transaction and named locks | connect, disconnect, begin, commit, rollback, mutations, link, unlink | client and server each have an opinion about the transaction and its locks; failures change one and not the other |
| CI receiver (`tools/ci-webhook/src`) | tables of deliveries, commits, pending jobs and the outbox | ingest of push, run and job events; the socket to the bridge | events arrive late, twice and in any order |
| CI bridge (`tools/ci-webhook/bridge`) | SQLite journal of notices, routes and owners, the dispatcher's lock, commands under way | intake, register, adopt, transfer, close, claim, mark, retry, recover, reconcile | a command cannot recognise a repetition; connection, bridge and commands end at any point |
| Catalog and script validation (`Catalog.cpp`, `SqlValidation.cpp`) | none | construction, checksum, validateScript | quoting and comment states of the scanner |
| Command line (`CommandLine.cpp`, `ConnectionEnvironment.cpp`) | none | argument and environment parsing | - |
| SQL rendering, queries, static plans (`modules/orm/query`, `sql`, `static_plan.cppm`, `src/database/defaults`) | none | compile-time and run-time construction of statements | parameter order across clauses |
| Contexts and included relations (`modules/orm/database/context.cppm`) | none beyond the session | insert, update, remove, select, include, link, unlink | batched loading, grouping, bind limits |
| Values and conversions (`numeric.cppm`, `ValueCodec.cpp`, `ValueLimits.cpp`, `Uuid.cpp`) | none | range-checked conversions | widths, signs, limits of each backend |
| Models, reflection, configuration | compile-time descriptors | - | - |

How they interact. A developer's `make` compares two snapshots, generates the
scripts and publishes them in a project directory; `finalize` freezes them and
`catalog` hands them to a `Runner`, which borrows a connected `Database` and
drives it through `MigrationState`; both use the one SOCI session of the
`Database`. Nothing in the library runs in a thread of its own: concurrency is
between processes (or `Database` objects) that share a database or a directory,
and between a session and its server. What the library knows of its server it
knows from answers that may not arrive. The CI tools are separate programs: the
receiver folds GitHub's events into notices and sends them to the bridge over a
socket; the bridge's journal outlives both.

What makes each part correct:

- *Migrations*: one writer at a time; the history says what the scripts have
  done to the schema; no script runs twice or from the wrong state; after any
  interruption the database shows an operator what was under way; a call leaves
  its session usable; the error code tells the truth about the commit.
- *Project*: whatever writers race, fail or end anywhere, the published
  migrations are one chain; what is deployed is what was validated; a reader
  without a lock answers with a state the project was in.
- *Scripts*: they run to their end, give the declared schema and data, lose
  nothing that was not approved, and the way down undoes the way up.
- *Sessions*: in a transaction that is not marked as failed, the server has a
  transaction with every reported write; outside one nothing is left behind on
  the server; links of the same pair do not collide; every operation returns.
- *CI*: what is said about a commit depends on the events and not on their
  order; no notice is lost, repeated, misdirected or out of order, and each
  arrives or waits for an operator.

## 2. Modules

| Module | Models |
| --- | --- |
| `MigrationPlan` | the decisions: `evaluate`, `requireValid`, `makePlan` as operators on a catalog, a history and a marker |
| `MigrationState` | the protocol: clients that call `up`, `down`, `baseline`, `resolve` and `validate` against one database |
| `MigrationLedger` | the abstract specification of `MigrationState`: which steps history, schema and marker may take together |
| `MigrationProject` | processes, editors and a person who cleans up, on one project directory |
| `SchemaScript` | `compare`, `generate`, and the server that executes the scripts |
| `DatabaseSession` | sessions, application transactions, many-to-many links and their named locks |
| `CiCommit` | the receiver: events of one commit, its stored state, the notices |
| `CiDelivery` | outbox, connection, journal, dispatcher and commands, composed |
| `MigrationStateProofs` | proofs: types, exclusion of writers, clean sessions |
| `MigrationMovesProofs` | the moves of committed history, schema and marker, and lemmas about `MigrationPlan` |
| `MigrationLedgerProofs` | proofs: history and schema, markers, error codes, the refinement of `MigrationLedger` |
| `MigrationProjectProofs`, `DatabaseSessionProofs`, `CiCommitProofs`, `CiDeliveryProofs`, `SchemaScriptProofs` | proofs about the module of that name |
| `MCMigration`, `MCMigrationProject`, `MCSchemaScript`, `MCDatabaseSession`, `MCCiCommit`, `MCCiDelivery` | instances for TLC |

Definitions introduced by `Variant:` are wrong versions of the definition that
follows, one for each property; replacing the definition by its variant makes
TLC report that property.

### MigrationPlan and MigrationState

Catalogs and histories are functions of the version (both are always handled in
ascending order of unique versions); a row keeps checksum and baseline flag,
the fields the code compares. `applied_at` has a resolution of one second, so a
row deleted and inserted again may compare equal: leaving the field out keeps
exactly that case. Scripts are abstracted to their effect on one version:
`"absent"`, `"partial"`, `"applied"`.

A client's position `pc` follows the code of one call:

| `pc` | code |
| --- | --- |
| Status | `ready()`, `status()`, planning (`ReadStatus`, `StatusUncertain`) |
| Rebuild | constructor of `SqliteRebuildSession` (`BeginRebuild`, `FailRebuild`) |
| Lock | constructor of `HistoryWrite` (`AcquireLock`, `RefuseLock`) |
| Check, Mark | inspection under the session lock and the marker transaction (`Check`, `WriteMarker`, `MarkerUncertain`) |
| Script, Scripting | a nontransactional script, statement by statement (`BeginScript`, `EndScript`, `RejectScript`) |
| Begin, Exec | history transaction; a transactional script inside it (`BeginHistory`, `ExecuteScript`) |
| Record, Commit, Finish | history change with its read-back, commit, release of the session lock |
| EndTxn, EndLock, EndRebuild | the destructors, in the order C++ runs them |
| Return | the end of `execute`, `baseline` or `resolve`; next step of the plan before it |

Exceptions set `err` and jump to the first destructor of what had been
constructed. `Drop` loses a session, `Crash` ends a process at any point of a
call, and the server ends the orphaned session later (`OrphanEnds`), having
possibly finished what it was executing (`Unattended`). `txn` is the working
copy of an open write transaction. `saved` holds what the scoped objects will
restore.

The transactional backends differ from MySQL and MariaDB by `Transactional`;
SQLite has rebuild sessions and cannot lose its session, PostgreSQL can.
That a script of a transactional backend edits the history table itself is
part of `ExecuteScript`; the code's read-back must notice. Only PostgreSQL lets
a script do this. On SQLite the authorizer (`SqliteBackend.cpp:111-131`) denies
it and the script ends with `InvalidSql`, which is an outcome of
`StatementFails`; the model nevertheless allows the edit on SQLite too, where it
says more than the program does, so that the run on a transactional backend
exercises the read-back. What holds in the model holds without the edits. On
MySQL and MariaDB scripts are assumed to leave history and journal alone: a
script that drops one of these tables ends with `InvalidHistory`
(`MysqlFamily.cpp:1047-1051`) and has taken with it what the protocol keeps
there, so nothing is stated about that case.

Primary keys are second guards and are modelled as such: a row for a version
that has one (`Inserted`) and a marker in an occupied slot (`MarkerCode`) end
with `Execution`.

*The operator.* Resolution is an assertion by a person. `OperatorRepair` is the
work of that person on the schema, `Evidence` what has to hold when `resolve`
is called: with `CarefulOperator`, the lock is free, the marker is there, no
other resolution is running and the schema is as claimed. The code cannot check
it: `resolve()` recognizes an attempt by version and checksum only, and the
evidence is collected before the lock is taken. If the marker was resolved and
the same migration was started again in between, the second attempt is resolved
on the evidence of the first. The properties that relate schema and history are
therefore stated for careful operators; exclusion, clean sessions and types
hold, and are proved, without that assumption.

### MigrationProject

`dirs` is the directory: for each `<version>_<name>` the content of
`migration.json`, `schema.json`, the SQL files, `ready.json` and whether
`.ready.json.tmp` is there. `config`, `lock` and `staging` are the other names
the code tests. A hash is represented by what it is the hash of, so two files
have the same hash exactly if they are equal. A client's `pc` separates the
file operations that others can come between: `Open` and `List` (the checks
before the iteration and the iteration), `Read` and `Verify` (the two readings
of one migration's SQL: as scripts and as files), `Stage` and `Publish`,
`Hash`, `Write` and `Rename` of `finalize()`. `view` is what the call has in
memory.

`Fault` is a failing file operation, whose exception runs the destructor of
`ProjectLock`; `Crash` leaves the lock behind, as `"stale"`; `PublishDenied` is
the denied rename that Windows repeats. `Edit` is a person who changes SQL
files, of a draft or of a finalized migration, at any time; `Inspect` is the
person who removes what a dead writer left. `torn` records the migrations that
were edited after `finalize()` had loaded them: those, and only those, may
disagree with their manifest.

### SchemaScript

An input is a pair of models, the decisions of a developer (renames, backfills,
conversions, approval) and a backend. `Generate` is `generate()`: it refuses, or
gives a script; `Execute` and `Reject` are the server on the next statement;
`Undo` starts the down script on the database the up script left.

Names are the numbers `1..MaxName` in the order of `canonicalize()`, and the
temporary names of a script are numbers above them. A column of the
database carries its definition and its *value*: which columns of the first
database it was read from, in the order of `COALESCE`, and whether a row may
hold `NULL`. That is enough to tell every misdirected, overwritten or lost copy
apart, and no more. A transformation is a constant, a column of its own table
or an expression over another table. The server (`Accepts`, `Effect`, external)
refuses a statement that names what is not there, takes a name in use, breaks a
key, or makes `NOT NULL` what may hold `NULL`.

Left out: sequences' high-water marks (`setval`), values that violate
uniqueness or references, string lengths and the other types (two integer types
stand for widening and narrowing), declared unique indexes, junction tables,
the checks of backend profiles, approval of single changes (all or none), and
several backends in one call (the loop over them has no common state).
Transformations of a table without a change are ignored by the code, and
`MigratedAsDeclared` follows it.

What may be asked is stated in two assumptions that TLC evaluates:
`ModelsAssumption` (schemas are `WellFormed`: definitions of columns are
definitions, foreign keys have the names `constraintName()` gives them; whether
the schemas make sense is left to `validateSnapshot()`) and
`DecisionsAssumption` (an expression over another table reads a table and a
column that exist, in the direction it is used in; the code passes expressions
on and cannot know).

### DatabaseSession

The state pairs what the client believes (`transaction`, `failed`, `native`,
`linkLocks`) with what the server has (`rows`, `draft`, `server`, `holder`).
`acked` is a history variable: the writes reported as done since
`beginTransaction()`. A link on MySQL or MariaDB is `GetLock`, `Probe`,
`Insert` and, outside a transaction, `Release`; on the other backends it is one
statement. `FailStatement` takes the kinds of failure that
`statementErrorInvalidatesTransaction()` tells apart, with what each does to
the server's transaction (`Undo`, external). Losing a session (`Drop`) may
happen at any point; `LoseTransaction` is a `COMMIT` or `ROLLBACK` that loses
it, the outcome of the `COMMIT` being open. `CleanUp` is the failing
`RELEASE_LOCK`, which closes the connection.

Abstractions: rows of junction tables stand for all data, unlink for every
single-statement mutation; the share and gap locks of the probe are left out,
which allows more interleavings than InnoDB does; the server ends a lost
session's transaction and named locks together; reads of the endpoints only
matter by failing, which a statement failure from `Idle` covers.

### CiCommit

`ingest()` for one commit of one branch. An event is a push, a run with its
status and conclusion, or a failed job; `said` is what was delivered so far,
and any event may be delivered again at any time. `reduce` is the function of
that name in `state.ts`, `Stored` and `Announce` its two halves, on a record of
what the transaction of `ingest()` has so far: state, outbox and last notice.
`order` is the insertion order of the object `runs`, which decides which failure
is announced.
The bridge takes notices from the head of the outbox (`Take`) and remembers
what it took, as the journal does.

### CiDelivery

Four programs' worth of state in one composition: the receiver's `outbox` and
socket (`sendNext()`, acknowledgments), the newest connection with what is on
the way in it and the acknowledgment that may still arrive from the one before
(`stale`), the journal (`rows`, `status`, `data`, `dest`, `route`, `owner`) and
the dispatcher (`active`). A socket's attachment (`inflight`) is not a variable:
it is set exactly while a notice or its acknowledgment is on the way
(`Inflight`).

A notice has an id and contents. The outbox, the acknowledgments and the journal
go by the id; `reduce()` may issue an id again with newer contents (finding 3),
`Issues` says how often. If the first notice is still in the outbox the second
is ignored (`Issue`); otherwise it is sent, and the bridge, whose journal has the
id with other contents (`Conflicts`), ends the connection instead of
acknowledging (`RefuseNotice`). The receiver sends it again on every new
connection.

 A dispatch is a probe, a claim, a command and a mark, and
every other action may come between them: registrations and transfers by other
processes, intake, disconnection, a stop or a crash. A command outlives its
bridge in `limbo` and may still deliver. `sent` counts what really arrived.
`Reconcile` is the operator who settles an uncertain delivery, and is believed.

`NoticesArrive` states what progress there is in spite of finding 3: every
notice reaches the journal, or else from some time on the head of the outbox is
one that the bridge refuses (`[]Blocked`); and what is in the journal with a
destination is accepted, unless an uncertain delivery to that conversation waits
for an operator. A notice that was refused once does not excuse anything: the
exception is only a head that conflicts for ever.

### Composition

`CiDelivery` composes components that share a journal and a connection.
`MigrationState` composes plan, session lock, session flags and server. The two
are not composed with each other, nor `MigrationProject` with `MigrationState`:
they share only finished values (a catalog, a set of scripts), whose
correctness is an invariant of the one (`CatalogIsAccepted`) and a constant of
the other.

## 3. Runs

| Run | Instance | Checks | Shows |
| --- | --- | --- | --- |
| `migration_sqlite` | SQLite, two releases that disagree about version 2, version 2 a rebuild, all operations | `SchemaMatchesHistory`, `IdleSessionIsClean`, `HonestReport`, `BaselineIsFloor`, `HistoryChangesAtItsEnd`, `ImplementsLedger` | transactional steps are atomic, foreign keys come back, a committed step is never reported as undone, a script that edits the history is noticed |
| `migration_mysql` | MySQL, a release with two versions and an older one with a single, irreversible version | `WriterExclusion`, `NoReplay`, `Recoverable`, `ImplementsLedger` | marker, session lock and resolution replace atomicity |
| `migration_live` | MySQL, two processes that upgrade and resolve one version | `MarkerBlocksWrites`, `CallsReturn`, `LockIsReleased` | every call ends and the lock is always given back |
| `migration_report` | as above | `FailureLeavesMarker` (violated) | finding 1 |
| `session_mysql` | MySQL, two sessions, one link in each of two tables | `LinkNeverCollides`, `TransactionIsWhole`, `LocksFollowSession`, `ClosedIsClean`, `OperationsReturn` | what the client believes of transaction and locks is never wrong where it acts on it; opposite lock orders end in a timeout |
| `session_sqlite` | SQLite, two sessions | `StatementsJoinTransaction` (violated) | finding 2 |
| `project` | two processes (one makes and finalizes; one makes, reads and deploys), two schemas, a valid and an invalid content of the SQL files, two versions | `TypeOK`, `ChainIsSound`, `CatalogIsAccepted`, `ReadyMatchesFiles`, `ReadsAreCurrent`, `FinalizedStays` | the directory protocol survives races, edits, faults and crashes |
| `ci_commit` | two workflows, one run of the first, a second attempt and a second run of the other, one pull-request run | `TypeOK`, `OrderIndependent`, `LastWordIsRight` | stored results and the last word do not depend on the order of deliveries |
| `ci_identity` | as above | `IdentityFixesPayload` (violated) | finding 3 |
| `ci_delivery` | two notices of two commits, one of them issued twice with different contents, two conversations, one dispatched at a time, two faults | `NothingLost`, `SentOnce`, `DestinationIsPinned`, `InOrder`, `NoticesArrive` | at-most-once, in-order delivery across crashes, and progress unless a refused notice blocks the outbox |
| `schema_scripts` | every pair out of 8 schemas of two tables, and of 16 shapes of one table (with and without a table referencing it), every rename, one transformation, approved or not, three backends (`MaxName` 2) | `ScriptsExecute`, `MigratedAsDeclared`, `NothingLostSilently`, `RoundTrip` | generated scripts do what was decided, up and down |
| `schema_swap` | the pairs in which two tables swap names | `PermutationsExecute` (violated) | finding 4 |

*What the properties are about.* In words: `SchemaMatchesHistory` relates the
committed history to what the scripts did; `NoReplay` says that a script starts
only where it should; `Recoverable` that some operator can always go on from
what an interruption left; `HonestReport` that an error code never denies a
confirmed commit; `ReadsAreCurrent` that a reader's answer was true at some time
of its call; `OrderIndependent` compares the fold of `reduce()` with a
definition over the set of events; `MigratedAsDeclared` compares the script's
effect with a definition over source and decisions. Each property's comment
names the code it is about.

*Bounds.* Two clients give every pairwise race, and a third adds no new kind of
interference through a lock with one holder. Two versions give a plan of more
than one step, a baseline below an ordinary row, a chain with a parent, and the
end of the range of `Version`; two checksums give releases that agree and that
differ. Two links in two tables let transactions take named locks in opposite
order. In `ci_delivery` two faults cover a crash whose recovery fails again, and
two notices to one conversation are the least for which an order exists; with
one dispatch at a time (`Concurrency`) the second conversation also shows that
a busy one does not starve it. One id issued twice is the least for a conflict,
which may stand before or behind the other notice, be ignored while the first is
still in the outbox, or meet a crash. In `project` one repetition of a denied rename
stands for four. Two tables and two columns give every permutation of two
names, cycles of references and a self-reference; a permutation of three is two
such steps, which go through the same temporary names. Apart from `MaxFaults`,
`Issues` and `Retries` no counter is bounded: the models are finite once the
constants are. Symmetry is not used.

*PostgreSQL.* In `MigrationState` it differs from SQLite by losing sessions
(checked on MySQL) and by having no rebuild; in `DatabaseSession` from MySQL by
having no named locks and aborting transactions on errors. It has no run of its
own; the theorems cover all backends.

*Deadlock* is checked everywhere except in the two schema runs, where a
migration that is done is the end.

*Fairness.* `MigrationState`: each client keeps executing its own code, and the
server eventually ends a session whose client is gone; failures on a healthy
session, crashes, reconnections and new calls are never assumed. In
`DatabaseSession`: a client continues the operation it is in, and waits end
because `GET_LOCK(name, 10)` and `innodb_lock_wait_timeout` do. Nothing is
assumed of when an application ends its transaction. The liveness claims hence
concern MySQL and MariaDB; PostgreSQL has no statement timeout by default.
`CiDelivery`: the bridge's timers start, reconnect and wake it, what is on the
way in a connection arrives, and a dispatch goes on because its command is
killed after 30 s; faults are finite, and nothing is assumed of operators.
Of the steps `Bridge` is made of, at most one is possible at a time, and it stays
so until it is taken or a fault comes, so that one fairness condition does for
all of them.

## 4. Findings

1. `src/migrations/MigrationState.cpp:458`. On MySQL and MariaDB the release of
   the session lock follows the commit of the step. When it fails, or the
   session is lost there, the step ends with `LockUnavailable` or `Execution`
   although it is recorded and its marker is gone; the documentation says "A
   failure leaves the marker" and reserves `SessionRestoration` for confirmed
   commits. `HonestReport` states what does hold.
2. `modules/orm/sql/contracts.cppm:339`. SQLite rolls a whole transaction back
   on some statement errors (disk full, I/O error). The SQLite runtime inherits
   `statementErrorInvalidatesTransaction() == false`, so the `Database` keeps
   its transaction and the next `link` or `unlink` commits alone, where the
   documentation says that they "participate in the current explicit
   transaction".
3. `tools/ci-webhook/src/state.ts:66`. A failure notice is identified by run and
   attempt, but a new run of any workflow resets `failureSent` (line 52), and the
   failure of a workflow that was not run again is announced a second time under
   the old identity with other `runs`. The bridge refuses it as "Conflicting
   payload for CI event" and closes the connection; since the receiver always
   sends the head of its outbox, nothing behind it arrives. (`CiDelivery` has
   this path, and `NoticesArrive` names it as the exception.)
4. `src/migrations/SchemaGeneration.cpp:716`. When two tables swap names on
   PostgreSQL, the first primary key is added under the name the second one
   still has. The comment at line 691 says that permutations are supported; on
   MySQL and SQLite they are.

Two further limits, found while modelling and excluded or noted where they
occur. On PostgreSQL a column that becomes an identity through a staging column
is added as `NOT NULL` without a default (`SchemaGeneration.cpp:618-619`), which
a table with rows refuses (`StagesIdentity` in `ScriptsExecute`). An uncertain
delivery holds later notices back, but an earlier one that gets its route only
then is still sent; `tools/ci-webhook/README.md:96-97` can be read either way.
And an edit of the SQL between the two readings of `finalize()` publishes a
manifest that never loads again: it fails closed, as the documentation of
finalized migrations says edits do.

## 5. Proofs

All theorems hold for arbitrary values of the constants, under the named
`ASSUME`s of the modules (types of the constants, `None` different from the
values it is mixed with, reserved lock values that are no process; for
`SchemaScript` a bound on names, well-formed models, and expressions that read
what exists).

| Module | Theorem | States |
| --- | --- | --- |
| `MigrationStateProofs` | `Invariance`, `TypeCorrect` | `Spec => []IInv`, `Spec => []TypeOK` |
| | `WritersExclude` | `Spec => []WriterExclusion` |
| | `SessionsEndClean` | `Spec => []IdleSessionIsClean` |
| `MigrationLedgerProofs` | `LedgerInvariance` | `Spec => [](IInv /\ LInv)` |
| | `SchemaFollowsHistory`, `ScriptsNeverReplay` | `Spec => []SchemaMatchesHistory`, `Spec => []NoReplay` |
| | `AlwaysRecoverable` | `Spec => []Recoverable`, assuming `Client # {}` |
| | `ReportsAreHonest` | `Spec => []HonestReport` |
| | `BaselinesStay`, `MarkersBlock` | `Spec => BaselineIsFloor`, `Spec => MarkerBlocksWrites` |
| | `HistoryGrowsAtItsEnd` | `Spec => HistoryChangesAtItsEnd` |
| | `LedgerImplemented` | `Spec => ImplementsLedger`, assuming `CarefulOperator` |
| `DatabaseSessionProofs` | `Invariance`, `TypeCorrect` | `Spec => []IInv`, `Spec => []TypeOK` |
| | `LinksNeverCollide` | `Spec => []LinkNeverCollides` |
| | `TransactionsAreWhole` | `Spec => []TransactionIsWhole`, assuming `Backend # "sqlite"` (finding 2 is why) |
| | `LocksAreTheServers` | `Spec => []LocksFollowSession` |
| | `ClosedSessionsAreClean` | `Spec => []ClosedIsClean` |
| `MigrationProjectProofs` | `Invariance`, `TypeCorrect` | `Spec => []IInv`, `Spec => []TypeOK` |
| | `OneChain` | `Spec => []ChainIsSound` |
| | `CatalogsAreAccepted` | `Spec => []CatalogIsAccepted` |
| | `ManifestsMatchFiles` | `Spec => []ReadyMatchesFiles` |
| | `ReadersAreCurrent` | `Spec => []ReadsAreCurrent` |
| | `FinalizedIsForEver` | `Spec => FinalizedStays` |
| `CiDeliveryProofs` | `Invariance`, `TypeCorrect` | `Spec => []IInv`, `Spec => []TypeOK` |
| | `NothingIsLost`, `SendsOnce` | `Spec => []NothingLost`, `Spec => []SentOnce` |
| | `DestinationsArePinned`, `ConversationsAreInOrder` | `Spec => DestinationIsPinned`, `Spec => InOrder` |
| `CiCommitProofs` | `CommitInvariance`, `CommitTypeCorrect` | `Spec => []IInv`, `Spec => []TypeOK` |
| | `ArrivalOrderIsIrrelevant` | `Spec => []OrderIndependent` |
| | `LastWordStands` | `Spec => []LastWordIsRight` |
| `SchemaScriptProofs` | `ScriptsAreDecided` | `Spec => []Decided` |
| | `NothingIsMerged` | renames of an executed script are one to one (`OneToOne`) |
| | `UnapprovedScriptsKeep` | without approval every column has a column that holds its values (`Kept`) |
| | `ForbiddenNullsAreSupplied` | a column that forbids `NULL` is supplied with a value (`Supplied`) |
| | `WayDownUndoesRenames` | the way down renames everything back (`Undone`) |
| | `InputsAreGiven`, `ScriptsAreFollowed` | `Spec => []Given`, `Spec => [](input.backend = "sqlite" => Followed)` |
| | `SqliteScriptsExecute` | `Spec => [](input.backend = "sqlite" => ScriptsExecute)` |
| | `SqliteMigratesAsDeclared` | the same of `MigratedAsDeclared` |
| | `SqliteLosesNothingSilently` | the same of `NothingLostSilently` |
| | `SqliteRoundTrip` | the same of `RoundTrip` |

The proofs have the same shape: an inductive invariant, one lemma per action, a
step that combines them, and `PTL` at the end. The inductive invariants were
checked with TLC on the instances of the runs before they were proved.

*MigrationState.* That nobody else holds the lock depends on where every client
is in its call, and that a session ends clean depends on what the scoped objects
saved on the way in. `IInv` is `TypeOK` with four facts about each client:
`PathOK` (a step comes from the client's own catalog and follows its backend's
path), `LockOK` (the lock belongs to a client exactly at the labels of `Holds`
with a live session), `TxnOK` (a write transaction is open exactly from the lock
to its commit or destructor) and `FlagOK` (`migrationActive` and `PRAGMA
foreign_keys` at each label, with the value that will be restored). Each action
changes one client; lemma `Frame` keeps the facts for the others, who can only
be disturbed through the lock.

*MigrationState and its ledger.* What the committed history, schema and marker
may do together is one relation, `Moves`: a step committed with its schema
change, a marker written, a schema change under a marker, a marker completed or
resolved, a baseline of an empty history. `MigrationMovesProofs` proves what
follows from a move alone (it keeps `Sound`, it is a step of `MigrationLedger`,
it changes the history at its end and above the baseline), and that `makePlan`
gives plans that stay plans as their steps are committed (`Planned`). That every
step of the protocol is a move is not evident from the step: what is committed
was decided many steps earlier, from a history read before the lock was taken.
The second invariant, `LInv`, carries that knowledge: `ServerOK` (what is
committed is sound and in order, and what a lost session may still commit is
one move away), `PlanOK` (what a client knows from its own catalog and the
history it read, whatever others do meanwhile), `HeldOK` (what the holder of the
lock knows of the database at each label, up to the commit, which is a move),
`EvidenceOK` (a careful operator's evidence lasts until the resolution is
recorded, because whoever takes the lock in between is turned away by the
marker) and `ReportOK` (what the error code says of the commit while the
destructors run). It needs `IInv`: only the holder of the lock writes.
Exactly the statements that relate the schema to the history rest on the
operator: `SchemaMatchesHistory` and `NoReplay` carry `CarefulOperator` as a
premise of their own, the refinement has it as hypothesis. Exclusion, error
codes, recoverability and the three action properties of the history do not.

*DatabaseSession.* For each client `WorkOK` (what an operation at each position
has been granted), `SessionOK` and `TransactionOK` (both sides' state of session
and transaction) and `WholeOK` (reported writes are in the draft). On top of
these, `AbsentOK`: a pair that a probe under the named lock has found absent
stays absent until the `INSERT`, because every other writer of the pair would
need that lock. `LinkNeverCollides` is the last step of that argument.

*MigrationProject.* `ChainIsSound`, `ManifestsOK` and `ReadyMatchesFiles` speak
of the directory, `ClientOK` of each call: `LockOK` and `CallOK` (who holds the
lock, and which call can be where), `LoadOK` and `SeenOK` (what `loadEntries()`
has collected so far, against a directory that may have grown since),
`WriterOK` (under the lock nobody else changes the chain, so what a writer has
loaded is still so when it publishes) and `FinalOK` (what `finalize()` read and
hashed, unless the migration is `torn`). Readers hold no lock; the frame lemmas
rest on `Grows`: directories and manifests stay, and only new ones appear.

*CiDelivery.* `RowsOK` (the journal has each notice once), `OutboxOK` (an id that
was issued is in the outbox or the journal, and one that is being acknowledged,
on whichever connection and for whichever contents, is in the journal), `RouteOK` (destinations come from routes),
`WorkOK` (a notice that is being sent is `dispatching`, to the conversation it
is pinned to, and not in limbo), `IdleOK` (without a bridge nothing is under way
but what is in limbo, which has not arrived and is not ready) and `SentOnce`
itself. The two action properties follow from `IInv` and the step.

*CiCommit.* `OrderIndependent` compares what is stored with a definition over
the set of delivered events, so the invariant has to say what `ingest()` keeps
instead of that set: for each workflow, `Agrees` (the stored run is the newest
that was told of, with its conclusion if one was delivered and otherwise the
failure of one of its jobs) and `Waiting` (the waiting jobs are the failed jobs
of runs newer than the stored one; older ones can be forgotten). With both, one
event more gives the same record whenever it arrives. `LastWordIsRight` needs
what the flags stand for: `SuccessOK` (the announced success is of runs that
are not newer than the stored ones, and if it is of the same runs it is the last
word), `FailureOK` (an announced failure names the runs as they are, and is the
last word unless they passed after all) and `Announced` (what is due was
announced in the same transaction).

*SchemaScript.* `Decided` says that a script exists only where `compare()` found
every change resolved, and a way down only where both directions are. From that
follow, for any schemas and decisions, the static halves of
`NothingLostSilently` and `RoundTrip`: renames are one to one, so that nothing
is merged and the two look-ups of `SchemaGeneration.cpp` find what
`SchemaDiff.cpp` mapped; without approval each column has somewhere to go; each
column that forbids `NULL` gets a value; and `inverseDecisions()` inverts the
names. The last needs both directions: a new table under the old name of a
renamed one would break it, and is refused because the inverse decisions then
collide.

*The scripts for SQLite, executed.* A script of `sqliteSql()` copies every
changed table into a new one under a temporary name, drops the old ones, renames
the copies and creates what is new: five kinds of statements, as many of each as
there are tables. The four properties speak of its end only; what is needed is
the database after each statement. The invariant `Followed` says it without an
induction over the script, by position: after `k` statements the tables are
those of `ShapeAt(db, k)`, in which the sources not yet dropped are as they were
at the start (`base`), and the copies made, filled and renamed, and the tables
created, are the ones whose place among the sorted tables lies below `k`
(`SourcesLeft`, `CopiesMade`, `CopiesFilled`, `CopiesRenamed`, `TablesCreated`).
`OnTheWay(k)` adds that what is left of the script are the statements after the
`k`-th.

The argument has three parts. That the script is what one thinks it is
(`WholeScript`, `StatementsInOrder`, `NextStatement`): lemmas about sorting a
finite set of names and about flattening statements of equal number per table
give the statement at every position; they cite the library's facts on
cardinality and sequences and need no induction of their own. That each
statement is accepted and leads from one shape to the next (`ExecuteAdvances`,
one lemma per kind): the temporary names are no names of a model, nothing is
read from a table after its drop, a renamed copy finds its name free because
renames are one to one (`OneToOne`) and the owner of that name was dropped
before, and a copy violates no `NOT NULL` because of `Supplied`. And that the
last shape is what was declared (`ArrivedAsDeclared`, `ArrivedWithoutLoss`),
with `Kept` for what must not be lost. For the way down `Followed` also has to
say on what it starts: the database at the end of the way up fits the snapshot
(`ArrivedFitsWayDown`, `Fits`), and its columns still begin with the values of
the first (`Carried`, from `WayUpCarries`); with `Undone` this is `RoundTrip`.
TLC checked `Followed` on the SQLite inputs of `schema_scripts` before it was
proved.

Checked by TLC only:

- what the scripts for PostgreSQL, MySQL and MariaDB do when they are executed
  (the four properties above on these backends): `nativeSql()` has over a dozen
  kinds of statements, how many of each depends on the columns, keys and indexes
  of every table, and keys, indexes and table renames come in the arbitrary order
  of a set, so that the position of a statement does not say what has been
  executed;
- liveness (`CallsReturn`, `LockIsReleased`, `OperationsReturn`,
  `NoticesArrive`), since fairness is out of the prover's reach.

## 6. Not modelled

- The physical-schema checks of the `Runner` (`contextPreflight`,
  `validateTargetValues`, sequence capture): they appear as outcomes that may
  fail.
- Text: SQL rendering, JSON, command line, messages, the character scanner of
  `SqlValidation.cpp`. A model of a lexer or a printer is the same code again.
- Included relations and result grouping, numeric conversion and value codecs:
  sequential functions of one call.
- Compile-time parts: reflection, descriptors, static plans, query trees.
- In the CI tools: HTTP authentication and payload validation, the deletion of
  records after 30 days, rows of the schema before branches, worktree handling
  and wording of messages; `drain.mjs`, which runs the same dispatcher without a
  connection.
- SOCI, the drivers, the servers, GitHub and the operating system are not part
  of the repository and are modelled from their use; such definitions are marked
  external in `PROJECT.json`.

*Share of the code.* The models map to about 3,500 lines, which is well under a
tenth of the repository's source files. More than half of those files' lines are
the vendored `externals/nlohmann_json`, much of the rest are unit tests that lie
beside the code, and of the library itself the larger part is compile-time
construction and text. Mapped are about two thirds of `MigrationState.cpp`,
`MigrationProject.cpp`, `SchemaDiff.cpp` and `SchemaGeneration.cpp`, about half
of the CI tools' protocol code, and a quarter or less of `Database.cpp`,
`MysqlFamily.cpp`, `SchemaSnapshot.cpp` and `Runner.cpp`, whose other lines are
reads, binding of values, rendering and physical-schema checks.

## 7. What is left

1. Proofs: the scripts for PostgreSQL, MySQL and MariaDB, phase by phase, from
   the one-to-one renames that are proved; the swap through temporary names first.
2. `Runner`: `contextPreflight` and the order of its checks around a rebuild.
3. Query capability checks and compiled statements: parameters in the order of
   their markers; grouping of included collections.
4. Declared unique indexes, junction tables and sequences in `SchemaScript`.
