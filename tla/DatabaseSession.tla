-------------------------- MODULE DatabaseSession --------------------------
(***************************************************************************)
(* Database sessions of src/Database.cpp with application transactions and *)
(* many-to-many links: what the Database object, the MySQL-family          *)
(* SessionBackend (src/database/mysql_family/MysqlFamily.cpp) and the      *)
(* server each believe about one transaction, and the named locks that     *)
(* serialize links.                                                        *)
(*                                                                         *)
(* A link on MySQL and MariaDB takes several round trips (GET_LOCK, a      *)
(* locking probe, INSERT, RELEASE_LOCK); on SQLite and PostgreSQL it is    *)
(* one statement.  The data are the rows of junction tables; every other   *)
(* mutation goes the way of unlink, through executeMutation().             *)
(***************************************************************************)
EXTENDS FiniteSets

CONSTANTS
    Client,   \* Database objects, one session each
    Backend,  \* "sqlite", "postgres" or "mysql" (both MySQL and MariaDB)
    Table,    \* junction tables
    Link,     \* primary keys of junction rows
    TableOf,  \* TableOf[p]: the table of link p
    None      \* no client, no link

ASSUME SessionBackendAssumption == Backend \in {"sqlite", "postgres", "mysql"}
ASSUME LinkAssumption == TableOf \in [Link -> Table] /\ None \notin Client /\ None \notin Link

VARIABLES
    rows,        \* committed links
    draft,       \* draft[c]: uncommitted writes of c's server transaction
    server,      \* the server's view of c's transaction: "auto", "open", "aborted"
    holder,      \* holder[t]: the session that has table t's named lock
    conn,        \* "up", "lost" (session gone, backend still set), "off" (backend == nullptr)
    transaction, \* Database::transaction # nullptr
    failed,      \* Database::transactionFailed
    native,      \* SessionBackend::transactionActive_
    linkLocks,   \* SessionBackend::linkLocks_
    pc,          \* where c is in an operation
    link,        \* the link c works on
    acked        \* writes reported as done since beginTransaction()

vars == <<rows, draft, server, holder, conn, transaction, failed, native, linkLocks, pc, link, acked>>
remote == <<rows, draft, server, holder>>
local == <<transaction, failed, native, linkLocks>>

\* A draft says of the links it wrote whether they are present.
Drafts == UNION {[S -> BOOLEAN] : S \in SUBSET Link}
NoWrites == [p \in {} |-> TRUE]
Merge(old, d) == {p \in Link : IF p \in DOMAIN d THEN d[p] ELSE p \in old}
Put(d, p, present) == [q \in DOMAIN d \cup {p} |-> IF q = p THEN present ELSE d[q]]
View(c) == Merge(rows, draft[c])

\* The type invariant: every variable stays within its declared shape.
TypeOK ==
    /\ rows \subseteq Link
    /\ draft \in [Client -> Drafts]
    /\ server \in [Client -> {"auto", "open", "aborted"}]
    /\ holder \in [Table -> Client \cup {None}]
    /\ conn \in [Client -> {"up", "lost", "off"}]
    /\ transaction \in [Client -> BOOLEAN]
    /\ failed \in [Client -> BOOLEAN]
    /\ native \in [Client -> BOOLEAN]
    /\ linkLocks \in [Client -> SUBSET Table]
    /\ pc \in [Client -> {"Idle", "Lock", "Probe", "Insert", "Release", "Finish"}]
    /\ link \in [Client -> Link \cup {None}]
    /\ acked \in [Client -> Drafts]

Init ==
    /\ rows = {}
    /\ draft = [c \in Client |-> NoWrites]
    /\ server = [c \in Client |-> "auto"]
    /\ holder = [t \in Table |-> None]
    /\ conn = [c \in Client |-> "off"]
    /\ transaction = [c \in Client |-> FALSE]
    /\ failed = [c \in Client |-> FALSE]
    /\ native = [c \in Client |-> FALSE]
    /\ linkLocks = [c \in Client |-> {}]
    /\ pc = [c \in Client |-> "Idle"]
    /\ link = [c \in Client |-> None]
    /\ acked = [c \in Client |-> NoWrites]

-----------------------------------------------------------------------------
(* The server, as far as the code relies on it.                            *)

\* The server ends c's session: rollback, and its named locks are free.
EndSession(c) ==
    /\ draft' = [draft EXCEPT ![c] = NoWrites]
    /\ server' = [server EXCEPT ![c] = "auto"]
    /\ holder' = [t \in Table |-> IF holder[t] = c THEN None ELSE holder[t]]

\* A row another transaction has written is locked until it ends; in SQLite the
\* whole database is.
RowFree(c, p) ==
    \A d \in Client \ {c} : p \notin DOMAIN draft[d] /\ (Backend = "sqlite" => draft[d] = NoWrites)

\* A statement's write, if it changes anything: into the open transaction, or
\* committed at once.  acked notes what the application was told.
Write(c, p, present) ==
    /\ RowFree(c, p)
    /\ server[c] # "aborted"
    /\ LET change == present # (p \in View(c))
       IN  /\ draft' = IF change /\ server[c] = "open"
                       THEN [draft EXCEPT ![c] = Put(@, p, present)] ELSE draft
           /\ rows' = IF change /\ server[c] = "auto"
                      THEN Merge(rows, Put(NoWrites, p, present)) ELSE rows
           /\ acked' = IF change /\ transaction[c]
                       THEN [acked EXCEPT ![c] = Put(@, p, present)] ELSE acked

\* The ways a statement fails and what the server does to the transaction:
\* MySQL undoes the statement, after error 1213 the transaction; PostgreSQL
\* aborts the transaction; SQLite undoes the statement, or the transaction when
\* the disk is full or fails; a client error never reaches the server.
Failures == CASE Backend = "mysql" -> {"statement", "lockwait", "deadlock", "linklock"}
              [] Backend = "postgres" -> {"statement", "client"}
              [] OTHER -> {"statement", "full"}
Undo(c, kind) ==
    CASE kind \in {"deadlock", "full"} ->
            draft' = [draft EXCEPT ![c] = NoWrites] /\ server' = [server EXCEPT ![c] = "auto"]
      [] Backend = "postgres" /\ kind = "statement" /\ server[c] = "open" ->
            draft' = [draft EXCEPT ![c] = NoWrites] /\ server' = [server EXCEPT ![c] = "aborted"]
      [] OTHER -> UNCHANGED <<draft, server>>

-----------------------------------------------------------------------------
(* Statements.                                                             *)

\* Variant: only an error of the connection is taken to end the transaction.
InvalidatesIfLost(kind) == kind = "connection"

\* statementErrorInvalidatesTransaction()
Invalidates(kind) ==
    CASE Backend = "mysql" -> kind \in {"connection", "linklock", "lockwait", "deadlock"}
      [] Backend = "postgres" -> kind # "client"
      [] OTHER -> FALSE

\* throwTranslatedError() marks the transaction, if there is one.
Mark(c, kind) == failed' = [failed EXCEPT ![c] = @ \/ (transaction[c] /\ Invalidates(kind))]

\* ensureSessionUsable(), which every statement starts with.
Usable(c) == conn[c] = "up" /\ ~failed[c]

\* Variant: a link relies on its locking probe alone.
NoNamedLock(c, t) == FALSE

\* ownsLinkLock(): a transaction takes the lock of a table once.
NeedsLock(c, t) == Backend = "mysql" /\ t \notin linkLocks[c]

\* LinkLockScope: a lock taken outside a transaction is released at its end.
AfterLink(c) == IF Backend = "mysql" /\ ~native[c] /\ linkLocks[c] # {} THEN "Release" ELSE "Idle"

\* linkImpl(), after its endpoint checks, on the way to executeInsertIfAbsent().
BeginLink(c, p) ==
    /\ pc[c] = "Idle"
    /\ Usable(c)
    /\ link' = [link EXCEPT ![c] = p]
    /\ pc' = [pc EXCEPT ![c] = IF NeedsLock(c, TableOf[p]) THEN "Lock"
                               ELSE IF Backend = "mysql" THEN "Probe" ELSE "Insert"]
    /\ UNCHANGED <<remote, conn, local, acked>>

RememberLinkLock(c) == linkLocks' = [linkLocks EXCEPT ![c] = @ \cup {TableOf[link[c]]}]

\* GET_LOCK(name, 10) succeeds.
GetLock(c) ==
    /\ pc[c] = "Lock"
    /\ conn[c] = "up"
    /\ LET t == TableOf[link[c]]
       IN  /\ holder[t] = None
           /\ holder' = [holder EXCEPT ![t] = c]
    /\ RememberLinkLock(c)
    /\ pc' = [pc EXCEPT ![c] = "Probe"]
    /\ UNCHANGED <<rows, draft, server, conn, transaction, failed, native, link, acked>>

\* The locking probe: an existing link ends the operation with 0.
Probe(c) ==
    /\ pc[c] = "Probe"
    /\ conn[c] = "up"
    /\ RowFree(c, link[c])
    /\ pc' = [pc EXCEPT ![c] = IF link[c] \in View(c) THEN AfterLink(c) ELSE "Insert"]
    /\ UNCHANGED <<remote, conn, local, link, acked>>

\* INSERT; SQLite and PostgreSQL do nothing on a conflict.
Insert(c) ==
    /\ pc[c] = "Insert"
    /\ conn[c] = "up"
    /\ Backend = "mysql" => link[c] \notin View(c)
    /\ Write(c, link[c], TRUE)
    /\ pc' = [pc EXCEPT ![c] = AfterLink(c)]
    /\ UNCHANGED <<server, holder, conn, local, link>>

\* unlinkImpl(), and any other mutation: one statement of executeMutation().
Unlink(c, p) ==
    /\ pc[c] = "Idle"
    /\ Usable(c)
    /\ Write(c, p, FALSE)
    /\ UNCHANGED <<server, holder, conn, local, pc, link>>

\* A statement fails: one of a link, where whatever GET_LOCK fails with is a
\* LinkLockError, or any other mutation or query started from Idle.
FailStatement(c, kind) ==
    /\ pc[c] \in {"Idle", "Lock", "Probe", "Insert"}
    /\ conn[c] = "up"
    /\ pc[c] = "Idle" => ~failed[c]
    /\ kind = "linklock" <=> pc[c] = "Lock"
    /\ Undo(c, kind)
    /\ Mark(c, kind)
    /\ pc' = [pc EXCEPT ![c] = IF pc[c] \in {"Probe", "Insert"} THEN AfterLink(c) ELSE "Idle"]
    /\ UNCHANGED <<rows, holder, conn, transaction, native, linkLocks, link, acked>>

\* A statement on a lost session.  (Where getBackend() notices before the
\* statement is sent it throws NotConnected and nothing changes.)
FailLost(c) ==
    /\ pc[c] \in {"Idle", "Lock", "Probe", "Insert"}
    /\ conn[c] = "lost"
    /\ Mark(c, "connection")
    /\ pc' = [pc EXCEPT ![c] = IF pc[c] \in {"Probe", "Insert"} THEN AfterLink(c) ELSE "Idle"]
    /\ UNCHANGED <<remote, conn, transaction, native, linkLocks, link, acked>>

\* releaseLinkLock(), one lock at a time.
Release(c) ==
    /\ pc[c] \in {"Release", "Finish"}
    /\ \E t \in linkLocks[c] :
          /\ conn[c] = "up"
          /\ holder' = [holder EXCEPT ![t] = None]
          /\ linkLocks' = [linkLocks EXCEPT ![c] = @ \ {t}]
          /\ pc' = [pc EXCEPT ![c] = IF pc[c] = "Finish" /\ linkLocks[c] # {t} THEN "Finish" ELSE "Idle"]
    /\ UNCHANGED <<rows, draft, server, conn, transaction, failed, native, link, acked>>

\* RELEASE_LOCK fails: clean_up() closes the connection and forgets the locks.
CleanUp(c) ==
    /\ pc[c] \in {"Release", "Finish"}
    /\ conn[c] # "off"
    /\ EndSession(c)
    /\ conn' = [conn EXCEPT ![c] = "lost"]
    /\ native' = [native EXCEPT ![c] = FALSE]
    /\ linkLocks' = [linkLocks EXCEPT ![c] = {}]
    /\ pc' = [pc EXCEPT ![c] = "Idle"]
    /\ UNCHANGED <<rows, transaction, failed, link, acked>>

-----------------------------------------------------------------------------
(* Transactions and the connection.                                        *)

\* connect(): open() and onConnect() succeed; a failed attempt changes nothing.
Connect(c) ==
    /\ pc[c] = "Idle"
    /\ conn[c] = "off"
    /\ conn' = [conn EXCEPT ![c] = "up"]
    /\ UNCHANGED <<remote, local, pc, link, acked>>

BeginTransaction(c) ==
    /\ pc[c] = "Idle"
    /\ conn[c] = "up"
    /\ ~transaction[c]
    /\ server' = [server EXCEPT ![c] = "open"]
    /\ transaction' = [transaction EXCEPT ![c] = TRUE]
    /\ failed' = [failed EXCEPT ![c] = FALSE]
    /\ native' = [native EXCEPT ![c] = TRUE]
    /\ acked' = [acked EXCEPT ![c] = NoWrites]
    /\ UNCHANGED <<rows, draft, holder, conn, linkLocks, pc, link>>

\* Variant: the mark outlives the transaction it is about.
ForgetObject(c) ==
    /\ transaction' = [transaction EXCEPT ![c] = FALSE]
    /\ acked' = [acked EXCEPT ![c] = NoWrites]
    /\ UNCHANGED failed

\* What the Database forgets with its transaction object.
ForgetTransaction(c) ==
    /\ transaction' = [transaction EXCEPT ![c] = FALSE]
    /\ failed' = [failed EXCEPT ![c] = FALSE]
    /\ acked' = [acked EXCEPT ![c] = NoWrites]

\* Variant: only the flag is reset.
FinishFlag(c) == native' = [native EXCEPT ![c] = FALSE] /\ UNCHANGED <<pc, linkLocks>>

\* SessionBackend::commit() and rollback() end in finishLinkLocks().
FinishLinkLocks(c) ==
    /\ native' = [native EXCEPT ![c] = FALSE]
    /\ pc' = [pc EXCEPT ![c] = IF linkLocks[c] = {} THEN "Idle" ELSE "Finish"]
    /\ UNCHANGED linkLocks

\* The server has executed the COMMIT or the ROLLBACK it was sent.
EndTransaction(c) ==
    /\ draft' = [draft EXCEPT ![c] = NoWrites]
    /\ server' = [server EXCEPT ![c] = "auto"]

MayCommit(c) == transaction[c] /\ ~failed[c]

\* The server commits what it has; a COMMIT of an aborted or a missing
\* transaction reports success and commits nothing.
CommitTransaction(c) ==
    /\ pc[c] = "Idle"
    /\ conn[c] = "up"
    /\ MayCommit(c)
    /\ rows' = View(c)
    /\ EndTransaction(c)
    /\ ForgetTransaction(c)
    /\ FinishLinkLocks(c)
    /\ UNCHANGED <<holder, conn, link>>

\* The server rolls back, by rollbackTransaction() or because its COMMIT failed
\* and ~transaction rolls back what was not handled.
RollbackTransaction(c) ==
    /\ pc[c] = "Idle"
    /\ conn[c] = "up"
    /\ transaction[c]
    /\ EndTransaction(c)
    /\ ForgetTransaction(c)
    /\ FinishLinkLocks(c)
    /\ UNCHANGED <<rows, holder, conn, link>>

\* COMMIT or ROLLBACK loses the session: the outcome of a COMMIT is unknown;
\* the failing rollback that follows closes the connection.
LoseTransaction(c) ==
    /\ pc[c] = "Idle"
    /\ conn[c] # "off"
    /\ transaction[c]
    /\ rows' \in {rows} \cup (IF conn[c] = "up" /\ MayCommit(c) THEN {View(c)} ELSE {})
    /\ EndSession(c)
    /\ conn' = [conn EXCEPT ![c] = "lost"]
    /\ ForgetTransaction(c)
    /\ native' = [native EXCEPT ![c] = FALSE]
    /\ linkLocks' = [linkLocks EXCEPT ![c] = {}]
    /\ UNCHANGED <<pc, link>>

\* disconnect() rolls back, closes the session and forgets everything, and
\* throws only afterwards.
Disconnect(c) ==
    /\ pc[c] = "Idle"
    /\ conn[c] # "off"
    /\ EndSession(c)
    /\ conn' = [conn EXCEPT ![c] = "off"]
    /\ ForgetTransaction(c)
    /\ native' = [native EXCEPT ![c] = FALSE]
    /\ linkLocks' = [linkLocks EXCEPT ![c] = {}]
    /\ UNCHANGED <<rows, pc, link>>

\* The network or the server loses the session.
Drop(c) ==
    /\ Backend # "sqlite"
    /\ conn[c] = "up"
    /\ EndSession(c)
    /\ conn' = [conn EXCEPT ![c] = "lost"]
    /\ UNCHANGED <<rows, local, pc, link, acked>>

\* The code of an operation that has begun, when nothing new goes wrong.
Step(c) ==
    \/ GetLock(c) \/ Probe(c) \/ Insert(c) \/ Release(c)
    \/ conn[c] = "lost" /\ (CleanUp(c) \/ (pc[c] # "Idle" /\ FailLost(c)))

Next ==
    \E c \in Client :
        \/ Step(c) \/ CleanUp(c) \/ FailLost(c)
        \/ \E p \in Link : BeginLink(c, p) \/ Unlink(c, p)
        \/ \E kind \in Failures : FailStatement(c, kind)
        \/ Connect(c) \/ Disconnect(c) \/ Drop(c)
        \/ BeginTransaction(c) \/ CommitTransaction(c) \/ RollbackTransaction(c) \/ LoseTransaction(c)

Spec == Init /\ [][Next]_vars

-----------------------------------------------------------------------------
(* Properties.                                                             *)

\* A link whose probe found nothing inserts a row that is really absent: no
\* other session's link can have put it there between the probe and the INSERT,
\* so link() never fails with a duplicate key (executeInsertIfAbsent()).
LinkNeverCollides ==
    Backend = "mysql" =>
        \A c \in Client : pc[c] = "Insert" /\ conn[c] = "up" =>
            /\ link[c] \notin View(c)
            /\ \A d \in Client \ {c} : link[c] \in DOMAIN draft[d] => ~draft[d][link[c]]

\* As long as the Database accepts statements and commits in a transaction, the
\* server has that transaction open with every write it reported: no statement
\* is committed on its own, and a commit that returns has committed them all.
TransactionIsWhole ==
    \A c \in Client : transaction[c] /\ ~failed[c] /\ conn[c] = "up" =>
        /\ server[c] = "open"
        /\ draft[c] = acked[c]

\* Outside a transaction and between calls a session keeps nothing on the
\* server: no open transaction, no write, no named lock; and what linkLocks_
\* remembers of a live session is what the server has granted it.
LocksFollowSession ==
    \A c \in Client :
        /\ pc[c] = "Idle" /\ ~transaction[c] =>
              server[c] = "auto" /\ draft[c] = NoWrites /\ \A t \in Table : holder[t] # c
        /\ conn[c] = "up" => linkLocks[c] = {t \in Table : holder[t] = c}

\* A closed Database can be connected and used like a new one.
ClosedIsClean ==
    \A c \in Client : conn[c] = "off" =>
        ~transaction[c] /\ ~failed[c] /\ ~native[c] /\ linkLocks[c] = {}

\* link and unlink "participate in the current explicit transaction"
\* (docs/database.md): while the Database has one, no statement commits.
StatementsJoinTransaction ==
    [][\A c \in Client :
          transaction[c] /\ (Insert(c) \/ \E p \in Link : Unlink(c, p)) => UNCHANGED rows]_vars

(***************************************************************************)
(* Liveness, for MySQL and MariaDB.  A client executes the operation it is *)
(* in, and a wait ends: GET_LOCK gives up after 10 seconds, a row lock     *)
(* after innodb_lock_wait_timeout.  No other failure is relied upon, and   *)
(* nothing is assumed of when an application ends its transaction.         *)
(***************************************************************************)

\* Variant: GET_LOCK with no timeout.
WaitForLock(c) == pc[c] \in {"Probe", "Insert"} /\ FailStatement(c, "lockwait")

TimeOut(c) ==
    \/ pc[c] = "Lock" /\ FailStatement(c, "linklock")
    \/ pc[c] \in {"Probe", "Insert"} /\ FailStatement(c, "lockwait")

FairSpec == Spec /\ \A c \in Client : WF_vars(Step(c) \/ TimeOut(c))

\* Every operation returns, even when two transactions link the same tables in
\* opposite order and wait for each other's named locks, or when an application
\* never ends the transaction that has them.
OperationsReturn == \A c \in Client : pc[c] # "Idle" ~> pc[c] = "Idle"
=============================================================================
