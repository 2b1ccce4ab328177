----------------------- MODULE DatabaseSessionProofs -----------------------
(***************************************************************************)
(* Proofs about DatabaseSession for any number of sessions, tables and     *)
(* links: type correctness, the correspondence of linkLocks_ with the      *)
(* locks of the server, whole transactions, clean closed sessions, and     *)
(* links that never collide.                                               *)
(*                                                                         *)
(* A step belongs to one session.  For each action, ClientOK of that       *)
(* session is shown, and that the step leaves every other one alone;       *)
(* lemma OthersKeep does the rest.  Only AbsentOK relates two sessions.    *)
(***************************************************************************)
EXTENDS DatabaseSession, TLAPS

-----------------------------------------------------------------------------
(* The inductive invariant.                                                *)

\* An operation has its link, and on MySQL the lock of the table from the probe on.
WorkOK(c) ==
    /\ pc[c] \in {"Lock", "Probe", "Insert"} => link[c] \in Link
    /\ Backend = "mysql" /\ pc[c] \in {"Probe", "Insert"} => TableOf[link[c]] \in linkLocks[c]

\* What the server has for a session that is gone, and for one that lives.
SessionOK(c) ==
    /\ conn[c] # "up" => server[c] = "auto" /\ draft[c] = NoWrites /\ \A t \in Table : holder[t] # c
    /\ conn[c] = "up" => \A t \in Table : t \in linkLocks[c] <=> holder[t] = c
    /\ conn[c] = "off" => pc[c] = "Idle" /\ ~transaction[c] /\ linkLocks[c] = {}

\* Database and SessionBackend agree about the transaction; outside one the server
\* has nothing, and a link has at most the lock it took itself.
TransactionOK(c) ==
    /\ native[c] <=> transaction[c]
    /\ failed[c] => transaction[c]
    /\ pc[c] \in {"Release", "Finish"} => ~transaction[c]
    /\ ~transaction[c] => server[c] = "auto" /\ draft[c] = NoWrites
    /\ ~transaction[c] /\ pc[c] \in {"Idle", "Lock"} => linkLocks[c] = {}
    /\ ~transaction[c] /\ pc[c] \in {"Probe", "Insert", "Release"} =>
          \A s, t \in linkLocks[c] : s = t
    /\ linkLocks[c] # {} \/ pc[c] = "Lock" => Backend = "mysql"

\* A transaction that has not been given up is the server's.
WholeOK(c) ==
    Backend # "sqlite" /\ transaction[c] /\ ~failed[c] /\ conn[c] = "up" =>
        server[c] = "open" /\ draft[c] = acked[c]

ClientOK(c) == WorkOK(c) /\ SessionOK(c) /\ TransactionOK(c) /\ WholeOK(c)

\* The link that is about to be inserted is absent, and nobody else is inserting it.
AbsentOK(c) ==
    Backend = "mysql" /\ pc[c] = "Insert" /\ conn[c] = "up" =>
        /\ link[c] \notin View(c)
        /\ \A d \in Client \ {c} : link[c] \in DOMAIN draft[d] => ~draft[d][link[c]]

Sessions == TypeOK /\ \A c \in Client : ClientOK(c)
IInv == Sessions /\ \A c \in Client : AbsentOK(c)

\* Everything about session d is as it was.
Same(d) ==
    /\ draft'[d] = draft[d] /\ server'[d] = server[d] /\ conn'[d] = conn[d]
    /\ transaction'[d] = transaction[d] /\ failed'[d] = failed[d] /\ native'[d] = native[d]
    /\ linkLocks'[d] = linkLocks[d] /\ pc'[d] = pc[d] /\ link'[d] = link[d] /\ acked'[d] = acked[d]
    /\ \A t \in Table : holder'[t] = d <=> holder[t] = d
OthersSame(c) == \A d \in Client \ {c} : Same(d)

-----------------------------------------------------------------------------
(* Lemmas about drafts and frames.                                         *)

\* Put and Merge stand for the writes of statements and transactions.
LEMMA DraftTypes ==
    /\ NoWrites \in Drafts
    /\ \A d \in Drafts, p \in Link, b \in BOOLEAN : Put(d, p, b) \in Drafts
    /\ \A old, d : Merge(old, d) \in SUBSET Link
<1>1. NoWrites \in Drafts
  <2>1. NoWrites \in [{} -> BOOLEAN]
    BY DEF NoWrites
  <2> QED BY <2>1 DEF Drafts
<1>2. \A d \in Drafts, p \in Link, b \in BOOLEAN : Put(d, p, b) \in Drafts
  <2> TAKE d \in Drafts, p \in Link, b \in BOOLEAN
  <2>1. PICK S \in SUBSET Link : d \in [S -> BOOLEAN]
    BY DEF Drafts
  <2>2. Put(d, p, b) \in [S \cup {p} -> BOOLEAN]
    BY <2>1 DEF Put
  <2>3. S \cup {p} \in SUBSET Link
    OBVIOUS
  <2> QED BY <2>2, <2>3 DEF Drafts
<1>3. \A old, d : Merge(old, d) \in SUBSET Link
  BY DEF Merge
<1> QED BY <1>1, <1>2, <1>3, Zenon

\* A transaction that has written nothing.
LEMMA NoWritesDomain == DOMAIN NoWrites = {}
BY DEF NoWrites

\* What a step of another session leaves of ClientOK.
LEMMA OthersKeep ==
    ASSUME Sessions, NEW c \in Client, TypeOK', ClientOK(c)', OthersSame(c)
    PROVE  Sessions'
<1> SUFFICES ASSUME NEW d \in Client, d # c PROVE ClientOK(d)'
  BY DEF Sessions
<1>1. ClientOK(d) /\ Same(d)
  BY DEF Sessions, OthersSame
<1>2. WorkOK(d)'
  BY <1>1 DEF ClientOK, Same, WorkOK
<1>3. SessionOK(d)'
  BY <1>1 DEF ClientOK, Same, SessionOK
<1>4. TransactionOK(d)'
  BY <1>1 DEF ClientOK, Same, TransactionOK
<1>5. WholeOK(d)'
  BY <1>1 DEF ClientOK, Same, WholeOK
<1> QED BY <1>2, <1>3, <1>4, <1>5 DEF ClientOK
-----------------------------------------------------------------------------
(* The steps of the sessions.                                              *)

\* BeginLink: linkImpl() begins.
LEMMA BeginLinkStep ==
    ASSUME Sessions, NEW c \in Client, NEW p \in Link, BeginLink(c, p)
    PROVE  Sessions' /\ OthersSame(c)
<1> USE LinkAssumption, SessionBackendAssumption DEF BeginLink, Usable, NeedsLock, remote, local
<1>0. ClientOK(c) /\ TypeOK
  BY DEF Sessions
<1>1. TypeOK'
  BY <1>0, DraftTypes DEF TypeOK
<1>2. WorkOK(c)'
  BY <1>0 DEF TypeOK, ClientOK, WorkOK
<1>3. SessionOK(c)'
  BY <1>0 DEF TypeOK, ClientOK, SessionOK, WorkOK, TransactionOK
<1>4. TransactionOK(c)'
  BY <1>0 DEF TypeOK, ClientOK, TransactionOK, SessionOK, WorkOK
<1>5. WholeOK(c)'
  BY <1>0 DEF TypeOK, ClientOK, TransactionOK, SessionOK, WholeOK
<1>6. OthersSame(c)
  BY <1>0 DEF TypeOK, ClientOK, SessionOK, OthersSame, Same
<1> QED BY <1>1, <1>2, <1>3, <1>4, <1>5, <1>6, OthersKeep DEF ClientOK

\* GetLock: GET_LOCK succeeds: the lock was free, and both sides note it.
LEMMA GetLockStep ==
    ASSUME Sessions, NEW c \in Client, GetLock(c)
    PROVE  Sessions' /\ OthersSame(c)
<1> USE LinkAssumption, SessionBackendAssumption DEF GetLock, RememberLinkLock, remote, local
<1>0. ClientOK(c) /\ TypeOK
  BY DEF Sessions
<1>1. TypeOK'
  BY <1>0 DEF TypeOK, ClientOK, WorkOK
<1>2. WorkOK(c)'
  BY <1>0 DEF TypeOK, ClientOK, WorkOK
<1>3. SessionOK(c)'
  BY <1>0 DEF TypeOK, ClientOK, SessionOK, WorkOK, TransactionOK
<1>4. TransactionOK(c)'
  BY <1>0 DEF TypeOK, ClientOK, TransactionOK, SessionOK, WorkOK
<1>5. WholeOK(c)'
  BY <1>0 DEF TypeOK, ClientOK, TransactionOK, SessionOK, WholeOK
<1>6. OthersSame(c)
  BY <1>0 DEF TypeOK, ClientOK, SessionOK, OthersSame, Same
<1> QED BY <1>1, <1>2, <1>3, <1>4, <1>5, <1>6, OthersKeep DEF ClientOK

\* Probe: the locking probe.
LEMMA ProbeStep ==
    ASSUME Sessions, NEW c \in Client, Probe(c)
    PROVE  Sessions' /\ OthersSame(c)
<1> USE LinkAssumption, SessionBackendAssumption DEF Probe, AfterLink, remote, local
<1>0. ClientOK(c) /\ TypeOK
  BY DEF Sessions
<1>1. TypeOK'
  BY <1>0, DraftTypes DEF TypeOK
<1>2. WorkOK(c)'
  BY <1>0 DEF TypeOK, ClientOK, WorkOK
<1>3. SessionOK(c)'
  BY <1>0 DEF TypeOK, ClientOK, SessionOK, WorkOK, TransactionOK
<1>4. TransactionOK(c)'
  BY <1>0 DEF TypeOK, ClientOK, TransactionOK, SessionOK, WorkOK
<1>5. WholeOK(c)'
  BY <1>0 DEF TypeOK, ClientOK, TransactionOK, SessionOK, WholeOK
<1>6. OthersSame(c)
  BY <1>0 DEF TypeOK, ClientOK, SessionOK, OthersSame, Same
<1> QED BY <1>1, <1>2, <1>3, <1>4, <1>5, <1>6, OthersKeep DEF ClientOK

\* Insert: the INSERT of a link.
LEMMA InsertStep ==
    ASSUME Sessions, NEW c \in Client, Insert(c)
    PROVE  Sessions' /\ OthersSame(c)
<1> USE LinkAssumption, SessionBackendAssumption DEF Insert, Write, AfterLink, remote, local
<1>0. ClientOK(c) /\ TypeOK
  BY DEF Sessions
<1>1. TypeOK'
  BY <1>0, DraftTypes DEF TypeOK, ClientOK, WorkOK
<1>2. WorkOK(c)'
  BY <1>0 DEF TypeOK, ClientOK, WorkOK
<1>3. SessionOK(c)'
  BY <1>0 DEF TypeOK, ClientOK, SessionOK, WorkOK, TransactionOK
<1>4. TransactionOK(c)'
  BY <1>0 DEF TypeOK, ClientOK, TransactionOK, SessionOK, WorkOK
<1>5. WholeOK(c)'
  BY <1>0 DEF TypeOK, ClientOK, TransactionOK, SessionOK, WholeOK
<1>6. OthersSame(c)
  BY <1>0 DEF TypeOK, ClientOK, SessionOK, OthersSame, Same
<1> QED BY <1>1, <1>2, <1>3, <1>4, <1>5, <1>6, OthersKeep DEF ClientOK

\* Unlink: one mutation.
LEMMA UnlinkStep ==
    ASSUME Sessions, NEW c \in Client, NEW p \in Link, Unlink(c, p)
    PROVE  Sessions' /\ OthersSame(c)
<1> USE LinkAssumption, SessionBackendAssumption DEF Unlink, Write, Usable, remote, local
<1>0. ClientOK(c) /\ TypeOK
  BY DEF Sessions
<1>1. TypeOK'
  BY <1>0, DraftTypes DEF TypeOK
<1>2. WorkOK(c)'
  BY <1>0 DEF TypeOK, ClientOK, WorkOK
<1>3. SessionOK(c)'
  BY <1>0 DEF TypeOK, ClientOK, SessionOK, WorkOK, TransactionOK
<1>4. TransactionOK(c)'
  BY <1>0 DEF TypeOK, ClientOK, TransactionOK, SessionOK, WorkOK
<1>5. WholeOK(c)'
  BY <1>0 DEF TypeOK, ClientOK, TransactionOK, SessionOK, WholeOK
<1>6. OthersSame(c)
  BY <1>0 DEF TypeOK, ClientOK, SessionOK, OthersSame, Same
<1> QED BY <1>1, <1>2, <1>3, <1>4, <1>5, <1>6, OthersKeep DEF ClientOK

\* FailStatement: a statement fails.
LEMMA FailStatementStep ==
    ASSUME Sessions, NEW c \in Client, NEW kind \in Failures, FailStatement(c, kind)
    PROVE  Sessions' /\ OthersSame(c)
<1> USE LinkAssumption, SessionBackendAssumption DEF FailStatement, Failures, Undo, Mark, Invalidates, AfterLink, remote, local
<1>0. ClientOK(c) /\ TypeOK
  BY DEF Sessions
<1>1. TypeOK'
  <2>1. draft' \in [Client -> Drafts] /\ server' \in [Client -> {"auto", "open", "aborted"}]
    <3>1. \/ /\ draft' = [draft EXCEPT ![c] = NoWrites]
             /\ \E x \in {"auto", "aborted"} : server' = [server EXCEPT ![c] = x]
          \/ UNCHANGED <<draft, server>>
      OBVIOUS
    <3> HIDE DEF FailStatement
    <3>2. NoWrites \in Drafts
      BY DraftTypes
    <3>3. draft \in [Client -> Drafts] /\ server \in [Client -> {"auto", "open", "aborted"}]
      BY <1>0 DEF TypeOK
    <3> QED BY <3>1, <3>2, <3>3
  <2>2. failed' \in [Client -> BOOLEAN]
    BY <1>0 DEF TypeOK
  <2> QED BY <1>0, <2>1, <2>2 DEF TypeOK
<1>2. WorkOK(c)'
  BY <1>0 DEF TypeOK, ClientOK, WorkOK
<1>3. SessionOK(c)'
  BY <1>0 DEF TypeOK, ClientOK, SessionOK, WorkOK, TransactionOK
<1>4. TransactionOK(c)'
  BY <1>0 DEF TypeOK, ClientOK, TransactionOK, SessionOK, WorkOK
<1>5. WholeOK(c)'
  BY <1>0 DEF TypeOK, ClientOK, TransactionOK, SessionOK, WholeOK
<1>6. OthersSame(c)
  BY <1>0 DEF TypeOK, ClientOK, SessionOK, OthersSame, Same
<1> QED BY <1>1, <1>2, <1>3, <1>4, <1>5, <1>6, OthersKeep DEF ClientOK

\* FailLost: a statement meets a lost session.
LEMMA FailLostStep ==
    ASSUME Sessions, NEW c \in Client, FailLost(c)
    PROVE  Sessions' /\ OthersSame(c)
<1> USE LinkAssumption, SessionBackendAssumption DEF FailLost, Mark, Invalidates, AfterLink, remote, local
<1>0. ClientOK(c) /\ TypeOK
  BY DEF Sessions
<1>1. TypeOK'
  BY <1>0, DraftTypes DEF TypeOK
<1>2. WorkOK(c)'
  BY <1>0 DEF TypeOK, ClientOK, WorkOK
<1>3. SessionOK(c)'
  BY <1>0 DEF TypeOK, ClientOK, SessionOK, WorkOK, TransactionOK
<1>4. TransactionOK(c)'
  BY <1>0 DEF TypeOK, ClientOK, TransactionOK, SessionOK, WorkOK
<1>5. WholeOK(c)'
  BY <1>0 DEF TypeOK, ClientOK, TransactionOK, SessionOK, WholeOK
<1>6. OthersSame(c)
  BY <1>0 DEF TypeOK, ClientOK, SessionOK, OthersSame, Same
<1> QED BY <1>1, <1>2, <1>3, <1>4, <1>5, <1>6, OthersKeep DEF ClientOK

\* Release: RELEASE_LOCK.
LEMMA ReleaseStep ==
    ASSUME Sessions, NEW c \in Client, Release(c)
    PROVE  Sessions' /\ OthersSame(c)
<1> USE LinkAssumption, SessionBackendAssumption DEF Release, remote, local
<1>0. ClientOK(c) /\ TypeOK
  BY DEF Sessions
<1>1. TypeOK'
  BY <1>0, DraftTypes DEF TypeOK
<1>2. WorkOK(c)'
  BY <1>0 DEF TypeOK, ClientOK, WorkOK
<1>3. SessionOK(c)'
  BY <1>0 DEF TypeOK, ClientOK, SessionOK, WorkOK, TransactionOK
<1>4. TransactionOK(c)'
  BY <1>0 DEF TypeOK, ClientOK, TransactionOK, SessionOK, WorkOK
<1>5. WholeOK(c)'
  BY <1>0 DEF TypeOK, ClientOK, TransactionOK, SessionOK, WholeOK
<1>6. OthersSame(c)
  BY <1>0 DEF TypeOK, ClientOK, SessionOK, OthersSame, Same
<1> QED BY <1>1, <1>2, <1>3, <1>4, <1>5, <1>6, OthersKeep DEF ClientOK

\* CleanUp: clean_up() after a failed RELEASE_LOCK.
LEMMA CleanUpStep ==
    ASSUME Sessions, NEW c \in Client, CleanUp(c)
    PROVE  Sessions' /\ OthersSame(c)
<1> USE LinkAssumption, SessionBackendAssumption DEF CleanUp, EndSession, remote, local
<1>0. ClientOK(c) /\ TypeOK
  BY DEF Sessions
<1>1. TypeOK'
  BY <1>0, DraftTypes DEF TypeOK
<1>2. WorkOK(c)'
  BY <1>0 DEF TypeOK, ClientOK, WorkOK
<1>3. SessionOK(c)'
  BY <1>0 DEF TypeOK, ClientOK, SessionOK, WorkOK, TransactionOK
<1>4. TransactionOK(c)'
  <2>1. ~transaction[c] /\ ~native[c]
    BY <1>0 DEF TypeOK, ClientOK, TransactionOK
  <2>2. ~transaction'[c] /\ ~native'[c] /\ transaction' = transaction /\ failed' = failed
    BY <1>0, <2>1 DEF TypeOK
  <2> QED BY <1>0, <2>1, <2>2 DEF TypeOK, ClientOK, TransactionOK
<1>5. WholeOK(c)'
  BY <1>0 DEF TypeOK, ClientOK, TransactionOK, SessionOK, WholeOK
<1>6. OthersSame(c)
  BY <1>0 DEF TypeOK, ClientOK, SessionOK, OthersSame, Same
<1> QED BY <1>1, <1>2, <1>3, <1>4, <1>5, <1>6, OthersKeep DEF ClientOK

\* Connect: connect().
LEMMA ConnectStep ==
    ASSUME Sessions, NEW c \in Client, Connect(c)
    PROVE  Sessions' /\ OthersSame(c)
<1> USE LinkAssumption, SessionBackendAssumption DEF Connect, remote, local
<1>0. ClientOK(c) /\ TypeOK
  BY DEF Sessions
<1>1. TypeOK'
  BY <1>0, DraftTypes DEF TypeOK
<1>2. WorkOK(c)'
  BY <1>0 DEF TypeOK, ClientOK, WorkOK
<1>3. SessionOK(c)'
  BY <1>0 DEF TypeOK, ClientOK, SessionOK, WorkOK, TransactionOK
<1>4. TransactionOK(c)'
  BY <1>0 DEF TypeOK, ClientOK, TransactionOK, SessionOK, WorkOK
<1>5. WholeOK(c)'
  BY <1>0 DEF TypeOK, ClientOK, TransactionOK, SessionOK, WholeOK
<1>6. OthersSame(c)
  BY <1>0 DEF TypeOK, ClientOK, SessionOK, OthersSame, Same
<1> QED BY <1>1, <1>2, <1>3, <1>4, <1>5, <1>6, OthersKeep DEF ClientOK

\* BeginTransaction: beginTransaction().
LEMMA BeginTransactionStep ==
    ASSUME Sessions, NEW c \in Client, BeginTransaction(c)
    PROVE  Sessions' /\ OthersSame(c)
<1> USE LinkAssumption, SessionBackendAssumption DEF BeginTransaction, remote, local
<1>0. ClientOK(c) /\ TypeOK
  BY DEF Sessions
<1>1. TypeOK'
  BY <1>0, DraftTypes DEF TypeOK
<1>2. WorkOK(c)'
  BY <1>0 DEF TypeOK, ClientOK, WorkOK
<1>3. SessionOK(c)'
  BY <1>0 DEF TypeOK, ClientOK, SessionOK, WorkOK, TransactionOK
<1>4. TransactionOK(c)'
  BY <1>0 DEF TypeOK, ClientOK, TransactionOK, SessionOK, WorkOK
<1>5. WholeOK(c)'
  BY <1>0 DEF TypeOK, ClientOK, TransactionOK, SessionOK, WholeOK
<1>6. OthersSame(c)
  BY <1>0 DEF TypeOK, ClientOK, SessionOK, OthersSame, Same
<1> QED BY <1>1, <1>2, <1>3, <1>4, <1>5, <1>6, OthersKeep DEF ClientOK

\* CommitTransaction: commitTransaction().
LEMMA CommitTransactionStep ==
    ASSUME Sessions, NEW c \in Client, CommitTransaction(c)
    PROVE  Sessions' /\ OthersSame(c)
<1> USE LinkAssumption, SessionBackendAssumption DEF CommitTransaction, MayCommit, EndTransaction, ForgetTransaction, FinishLinkLocks, View, remote, local
<1>0. ClientOK(c) /\ TypeOK
  BY DEF Sessions
<1>1. TypeOK'
  BY <1>0, DraftTypes DEF TypeOK
<1>2. WorkOK(c)'
  BY <1>0 DEF TypeOK, ClientOK, WorkOK
<1>3. SessionOK(c)'
  BY <1>0 DEF TypeOK, ClientOK, SessionOK, WorkOK, TransactionOK
<1>4. TransactionOK(c)'
  BY <1>0 DEF TypeOK, ClientOK, TransactionOK, SessionOK, WorkOK
<1>5. WholeOK(c)'
  BY <1>0 DEF TypeOK, ClientOK, TransactionOK, SessionOK, WholeOK
<1>6. OthersSame(c)
  BY <1>0 DEF TypeOK, ClientOK, SessionOK, OthersSame, Same
<1> QED BY <1>1, <1>2, <1>3, <1>4, <1>5, <1>6, OthersKeep DEF ClientOK

\* RollbackTransaction: rollbackTransaction().
LEMMA RollbackTransactionStep ==
    ASSUME Sessions, NEW c \in Client, RollbackTransaction(c)
    PROVE  Sessions' /\ OthersSame(c)
<1> USE LinkAssumption, SessionBackendAssumption DEF RollbackTransaction, EndTransaction, ForgetTransaction, FinishLinkLocks, remote, local
<1>0. ClientOK(c) /\ TypeOK
  BY DEF Sessions
<1>1. TypeOK'
  BY <1>0, DraftTypes DEF TypeOK
<1>2. WorkOK(c)'
  BY <1>0 DEF TypeOK, ClientOK, WorkOK
<1>3. SessionOK(c)'
  BY <1>0 DEF TypeOK, ClientOK, SessionOK, WorkOK, TransactionOK
<1>4. TransactionOK(c)'
  BY <1>0 DEF TypeOK, ClientOK, TransactionOK, SessionOK, WorkOK
<1>5. WholeOK(c)'
  BY <1>0 DEF TypeOK, ClientOK, TransactionOK, SessionOK, WholeOK
<1>6. OthersSame(c)
  BY <1>0 DEF TypeOK, ClientOK, SessionOK, OthersSame, Same
<1> QED BY <1>1, <1>2, <1>3, <1>4, <1>5, <1>6, OthersKeep DEF ClientOK

\* LoseTransaction: a COMMIT or ROLLBACK that loses the session.
LEMMA LoseTransactionStep ==
    ASSUME Sessions, NEW c \in Client, LoseTransaction(c)
    PROVE  Sessions' /\ OthersSame(c)
<1> USE LinkAssumption, SessionBackendAssumption DEF LoseTransaction, EndSession, ForgetTransaction, MayCommit, View, remote, local
<1>0. ClientOK(c) /\ TypeOK
  BY DEF Sessions
<1>1. TypeOK'
  BY <1>0, DraftTypes DEF TypeOK
<1>2. WorkOK(c)'
  BY <1>0 DEF TypeOK, ClientOK, WorkOK
<1>3. SessionOK(c)'
  BY <1>0 DEF TypeOK, ClientOK, SessionOK, WorkOK, TransactionOK
<1>4. TransactionOK(c)'
  BY <1>0 DEF TypeOK, ClientOK, TransactionOK, SessionOK, WorkOK
<1>5. WholeOK(c)'
  BY <1>0 DEF TypeOK, ClientOK, TransactionOK, SessionOK, WholeOK
<1>6. OthersSame(c)
  BY <1>0 DEF TypeOK, ClientOK, SessionOK, OthersSame, Same
<1> QED BY <1>1, <1>2, <1>3, <1>4, <1>5, <1>6, OthersKeep DEF ClientOK

\* Disconnect: disconnect().
LEMMA DisconnectStep ==
    ASSUME Sessions, NEW c \in Client, Disconnect(c)
    PROVE  Sessions' /\ OthersSame(c)
<1> USE LinkAssumption, SessionBackendAssumption DEF Disconnect, EndSession, ForgetTransaction, remote, local
<1>0. ClientOK(c) /\ TypeOK
  BY DEF Sessions
<1>1. TypeOK'
  BY <1>0, DraftTypes DEF TypeOK
<1>2. WorkOK(c)'
  BY <1>0 DEF TypeOK, ClientOK, WorkOK
<1>3. SessionOK(c)'
  BY <1>0 DEF TypeOK, ClientOK, SessionOK, WorkOK, TransactionOK
<1>4. TransactionOK(c)'
  BY <1>0 DEF TypeOK, ClientOK, TransactionOK, SessionOK, WorkOK
<1>5. WholeOK(c)'
  BY <1>0 DEF TypeOK, ClientOK, TransactionOK, SessionOK, WholeOK
<1>6. OthersSame(c)
  BY <1>0 DEF TypeOK, ClientOK, SessionOK, OthersSame, Same
<1> QED BY <1>1, <1>2, <1>3, <1>4, <1>5, <1>6, OthersKeep DEF ClientOK

\* Drop: a lost session.
LEMMA DropStep ==
    ASSUME Sessions, NEW c \in Client, Drop(c)
    PROVE  Sessions' /\ OthersSame(c)
<1> USE LinkAssumption, SessionBackendAssumption DEF Drop, EndSession, remote, local
<1>0. ClientOK(c) /\ TypeOK
  BY DEF Sessions
<1>1. TypeOK'
  BY <1>0, DraftTypes DEF TypeOK
<1>2. WorkOK(c)'
  BY <1>0 DEF TypeOK, ClientOK, WorkOK
<1>3. SessionOK(c)'
  BY <1>0 DEF TypeOK, ClientOK, SessionOK, WorkOK, TransactionOK
<1>4. TransactionOK(c)'
  BY <1>0 DEF TypeOK, ClientOK, TransactionOK, SessionOK, WorkOK
<1>5. WholeOK(c)'
  BY <1>0 DEF TypeOK, ClientOK, TransactionOK, SessionOK, WholeOK
<1>6. OthersSame(c)
  BY <1>0 DEF TypeOK, ClientOK, SessionOK, OthersSame, Same
<1> QED BY <1>1, <1>2, <1>3, <1>4, <1>5, <1>6, OthersKeep DEF ClientOK

-----------------------------------------------------------------------------
(* Links never collide.                                                    *)

\* The step of c does not make link p present for anybody else.
Quiet(c, p) ==
    /\ p \in rows' => p \in rows \/ (p \in DOMAIN draft[c] /\ draft[c][p])
    /\ p \in DOMAIN draft'[c] /\ draft'[c][p] => p \in DOMAIN draft[c] /\ draft[c][p]

\* A step of c that is quiet about the link d is about to insert leaves it absent.
LEMMA QuietStep ==
    ASSUME IInv, NEW c \in Client, OthersSame(c), AbsentOK(c)',
           \A d \in Client \ {c} : pc[d] = "Insert" /\ conn[d] = "up" => Quiet(c, link[d])
    PROVE  Backend = "mysql" => \A d \in Client : AbsentOK(d)'
<1> SUFFICES ASSUME Backend = "mysql", NEW d \in Client, d # c, pc[d] = "Insert", conn[d] = "up"
             PROVE  /\ link[d] \notin View(d)'
                    /\ \A e \in Client \ {d} : link[d] \in DOMAIN draft'[e] => ~draft'[e][link[d]]
  <2>1. \A d \in Client \ {c} : pc'[d] = pc[d] /\ conn'[d] = conn[d] /\ link'[d] = link[d]
    BY DEF OthersSame, Same
  <2> QED BY <2>1 DEF AbsentOK
<1>1. link[d] \in Link /\ link[d] \notin View(d) /\ Quiet(c, link[d]) /\ draft'[d] = draft[d]
  BY DEF IInv, Sessions, ClientOK, WorkOK, AbsentOK, OthersSame, Same
<1>2. \A e \in Client \ {d} : link[d] \in DOMAIN draft[e] => ~draft[e][link[d]]
  BY DEF IInv, AbsentOK
<1>3. link[d] \notin View(d)'
  BY <1>1, <1>2 DEF View, Merge, Quiet
<1>4. ASSUME NEW e \in Client \ {d}, link[d] \in DOMAIN draft'[e] PROVE ~draft'[e][link[d]]
  <2>1. CASE e = c
    BY <1>1, <1>2, <1>4, <2>1 DEF Quiet
  <2>2. CASE e # c
    BY <1>2, <1>4, <2>2 DEF OthersSame, Same
  <2> QED BY <2>1, <2>2
<1> QED BY <1>3, <1>4

\* Steps that write nothing, undo what c has written, or commit it.
LEMMA NoWriteStep ==
    ASSUME IInv, NEW c \in Client, OthersSame(c),
           rows' = rows \/ rows' = View(c), draft'[c] = draft[c] \/ draft'[c] = NoWrites,
           Backend = "mysql" => pc'[c] # "Insert" \/ conn'[c] # "up"
    PROVE  Backend = "mysql" => \A d \in Client : AbsentOK(d)'
<1>1. \A q \in Link : Quiet(c, q)
  BY NoWritesDomain DEF Quiet, View, Merge
<1>2. AbsentOK(c)'
  BY DEF AbsentOK
<1>3. \A d \in Client : pc[d] = "Insert" => link[d] \in Link
  BY DEF IInv, Sessions, ClientOK, WorkOK
<1> QED BY <1>1, <1>2, <1>3, QuietStep

\* The locking probe finds the link absent for everybody.
LEMMA ProbeAbsent ==
    ASSUME IInv, NEW c \in Client, Probe(c), OthersSame(c)
    PROVE  Backend = "mysql" => \A d \in Client : AbsentOK(d)'
<1> USE DEF Probe, remote, local
<1>1. TypeOK
  BY DEF IInv, Sessions
<1>2. \A q \in Link : Quiet(c, q)
  BY DEF Quiet
<1>3. AbsentOK(c)'
  BY <1>1 DEF TypeOK, AbsentOK, AfterLink, RowFree, View, Merge
<1>4. \A d \in Client : pc[d] = "Insert" => link[d] \in Link
  BY DEF IInv, Sessions, ClientOK, WorkOK
<1> QED BY <1>2, <1>3, <1>4, QuietStep

\* An unlink makes a row absent.
LEMMA UnlinkAbsent ==
    ASSUME IInv, NEW c \in Client, NEW p \in Link, Unlink(c, p), OthersSame(c)
    PROVE  Backend = "mysql" => \A d \in Client : AbsentOK(d)'
<1>1. TypeOK
  BY DEF IInv, Sessions
<1>2. ASSUME NEW q \in Link PROVE Quiet(c, q)
  <2>1. rows' \subseteq rows
    <3>1. rows' = rows \/ rows' = Merge(rows, Put(NoWrites, p, FALSE))
      BY DEF Unlink, Write
    <3>2. Merge(rows, Put(NoWrites, p, FALSE)) \subseteq rows
      BY DEF Merge, Put, NoWrites
    <3> QED BY <3>1, <3>2
  <2>2. draft'[c] = draft[c] \/ draft'[c] = Put(draft[c], p, FALSE)
    BY <1>1 DEF Unlink, Write, TypeOK
  <2>3. q \in DOMAIN Put(draft[c], p, FALSE) /\ Put(draft[c], p, FALSE)[q] => q \in DOMAIN draft[c] /\ draft[c][q]
    BY DEF Put
  <2> QED BY <2>1, <2>2, <2>3 DEF Quiet
<1>3. AbsentOK(c)'
  BY <1>1 DEF TypeOK, AbsentOK, Unlink
<1>4. \A d \in Client : pc[d] = "Insert" => link[d] \in Link
  BY DEF IInv, Sessions, ClientOK, WorkOK
<1> QED BY <1>2, <1>3, <1>4, QuietStep

\* An INSERT makes present a link that nobody else can be about to insert: both
\* would have the named lock of its table.
LEMMA InsertAbsent ==
    ASSUME IInv, NEW c \in Client, Insert(c), OthersSame(c)
    PROVE  Backend = "mysql" => \A d \in Client : AbsentOK(d)'
<1> SUFFICES ASSUME Backend = "mysql" PROVE \A d \in Client : AbsentOK(d)'
  OBVIOUS
<1>1. TypeOK /\ link[c] \in Link
  BY DEF IInv, Sessions, ClientOK, WorkOK, Insert
<1>2. ASSUME NEW d \in Client \ {c}, pc[d] = "Insert", conn[d] = "up" PROVE Quiet(c, link[d])
  <2>1. \A e \in {c, d} : TableOf[link[e]] \in Table /\ holder[TableOf[link[e]]] = e
    BY <1>2, LinkAssumption DEF IInv, Sessions, ClientOK, WorkOK, SessionOK, Insert
  <2>2. link[d] # link[c] /\ link[d] \in Link
    BY <1>2, <2>1 DEF IInv, Sessions, ClientOK, WorkOK
  <2>3. link[d] \in rows' => link[d] \in rows
    <3>1. rows' = rows \/ rows' = Merge(rows, Put(NoWrites, link[c], TRUE))
      BY DEF Insert, Write
    <3>2. link[d] \in Merge(rows, Put(NoWrites, link[c], TRUE)) => link[d] \in rows
      BY <2>2 DEF Merge, Put, NoWrites
    <3> QED BY <3>1, <3>2
  <2>4. draft'[c] = draft[c] \/ draft'[c] = Put(draft[c], link[c], TRUE)
    BY <1>1 DEF Insert, Write, TypeOK
  <2>5. LET new == Put(draft[c], link[c], TRUE)
        IN  link[d] \in DOMAIN new /\ new[link[d]] => link[d] \in DOMAIN draft[c] /\ draft[c][link[d]]
    BY <2>2 DEF Put
  <2> QED BY <2>3, <2>4, <2>5 DEF Quiet
<1>3. AbsentOK(c)'
  BY <1>1 DEF TypeOK, AbsentOK, Insert, AfterLink
<1> QED BY <1>2, <1>3, QuietStep

-----------------------------------------------------------------------------
(* Theorems.                                                               *)

\* Every step keeps the invariant.
LEMMA Inductive == IInv /\ [Next]_vars => IInv'
<1> SUFFICES ASSUME IInv, [Next]_vars PROVE IInv'
  OBVIOUS
<1>0. Sessions /\ TypeOK
  BY DEF IInv, Sessions
<1>1. ASSUME NEW c \in Client, Sessions', Backend = "mysql" => \A d \in Client : AbsentOK(d)'
      PROVE  IInv'
  BY <1>1 DEF IInv, AbsentOK
<1>2. ASSUME NEW c \in Client, GetLock(c) PROVE IInv'
  BY <1>0, <1>1, <1>2, GetLockStep, NoWriteStep DEF GetLock, TypeOK
<1>3. ASSUME NEW c \in Client, Probe(c) PROVE IInv'
  BY <1>0, <1>1, <1>3, ProbeStep, ProbeAbsent
<1>4. ASSUME NEW c \in Client, Insert(c) PROVE IInv'
  BY <1>0, <1>1, <1>4, InsertStep, InsertAbsent
<1>5. ASSUME NEW c \in Client, Release(c) PROVE IInv'
  BY <1>0, <1>1, <1>5, ReleaseStep, NoWriteStep DEF Release, TypeOK
<1>6. ASSUME NEW c \in Client, CleanUp(c) PROVE IInv'
  BY <1>0, <1>1, <1>6, CleanUpStep, NoWriteStep DEF CleanUp, EndSession, TypeOK
<1>7. ASSUME NEW c \in Client, FailLost(c) PROVE IInv'
  BY <1>0, <1>1, <1>7, FailLostStep, NoWriteStep DEF FailLost, AfterLink, remote, TypeOK
<1>8. ASSUME NEW c \in Client, NEW p \in Link, BeginLink(c, p) PROVE IInv'
  BY <1>0, <1>1, <1>8, BeginLinkStep, NoWriteStep DEF BeginLink, remote, TypeOK
<1>9. ASSUME NEW c \in Client, NEW p \in Link, Unlink(c, p) PROVE IInv'
  BY <1>0, <1>1, <1>9, UnlinkStep, UnlinkAbsent
<1>10. ASSUME NEW c \in Client, NEW kind \in Failures, FailStatement(c, kind) PROVE IInv'
  <2>1. draft'[c] = draft[c] \/ draft'[c] = NoWrites
    BY <1>0, <1>10 DEF FailStatement, Undo, TypeOK
  <2> QED BY <1>0, <1>1, <1>10, <2>1, FailStatementStep, NoWriteStep DEF FailStatement, AfterLink, TypeOK
<1>11. ASSUME NEW c \in Client, Connect(c) PROVE IInv'
  BY <1>0, <1>1, <1>11, ConnectStep, NoWriteStep DEF Connect, remote, TypeOK
<1>12. ASSUME NEW c \in Client, Disconnect(c) PROVE IInv'
  BY <1>0, <1>1, <1>12, DisconnectStep, NoWriteStep DEF Disconnect, EndSession, TypeOK
<1>13. ASSUME NEW c \in Client, Drop(c) PROVE IInv'
  BY <1>0, <1>1, <1>13, DropStep, NoWriteStep DEF Drop, EndSession, TypeOK
<1>14. ASSUME NEW c \in Client, BeginTransaction(c) PROVE IInv'
  BY <1>0, <1>1, <1>14, BeginTransactionStep, NoWriteStep DEF BeginTransaction, TypeOK
<1>15. ASSUME NEW c \in Client, CommitTransaction(c) PROVE IInv'
  BY <1>0, <1>1, <1>15, CommitTransactionStep, NoWriteStep DEF CommitTransaction, EndTransaction, FinishLinkLocks, TypeOK
<1>16. ASSUME NEW c \in Client, RollbackTransaction(c) PROVE IInv'
  BY <1>0, <1>1, <1>16, RollbackTransactionStep, NoWriteStep DEF RollbackTransaction, EndTransaction, FinishLinkLocks, TypeOK
<1>17. ASSUME NEW c \in Client, LoseTransaction(c) PROVE IInv'
  BY <1>0, <1>1, <1>17, LoseTransactionStep, NoWriteStep DEF LoseTransaction, EndSession, TypeOK
<1>18. CASE UNCHANGED vars
  <2>1. TypeOK'
    BY <1>0, <1>18 DEF TypeOK, vars
  <2>2. \A c \in Client : WorkOK(c)' /\ SessionOK(c)' /\ TransactionOK(c)' /\ WholeOK(c)'
    BY <1>0, <1>18 DEF vars, Sessions, ClientOK, WorkOK, SessionOK, TransactionOK, WholeOK
  <2>3. \A c \in Client : AbsentOK(c)'
    BY <1>18 DEF vars, IInv, AbsentOK, View
  <2> QED BY <2>1, <2>2, <2>3 DEF IInv, Sessions, ClientOK
<1> QED BY <1>2, <1>3, <1>4, <1>5, <1>6, <1>7, <1>8, <1>9, <1>10, <1>11, <1>12, <1>13, <1>14,
           <1>15, <1>16, <1>17, <1>18 DEF Next, Step

\* The inductive invariant behind the other theorems: what the Database, its
\* SessionBackend and the server believe of a session, at every point of an
\* operation.
THEOREM Invariance == Spec => []IInv
<1>1. Init => IInv
  <2> SUFFICES ASSUME Init PROVE IInv
    OBVIOUS
  <2>1. TypeOK
    BY DraftTypes DEF Init, TypeOK
  <2>2. \A c \in Client : ClientOK(c) /\ AbsentOK(c)
    BY LinkAssumption DEF Init, ClientOK, WorkOK, SessionOK, TransactionOK, WholeOK, AbsentOK
  <2> QED BY <2>1, <2>2 DEF IInv, Sessions
<1> QED BY <1>1, Inductive, PTL DEF Spec

\* Type correctness, for any sessions, tables and links.
THEOREM TypeCorrect == Spec => []TypeOK
<1>1. IInv => TypeOK
  BY DEF IInv, Sessions
<1> QED BY <1>1, Invariance, PTL

\* No link fails with a duplicate key, with any number of sessions: the named lock
\* of the table, held from before the probe, excludes every other insertion.
THEOREM LinksNeverCollide == Spec => []LinkNeverCollides
<1>1. IInv => LinkNeverCollides
  BY DEF IInv, AbsentOK, LinkNeverCollides
<1> QED BY <1>1, Invariance, PTL

\* On MySQL, MariaDB and PostgreSQL a transaction the Database goes on with is open
\* on the server with every write it reported.  (Not on SQLite: see session_sqlite.)
THEOREM TransactionsAreWhole ==
    ASSUME Backend # "sqlite"
    PROVE  Spec => []TransactionIsWhole
<1>1. IInv => TransactionIsWhole
  BY DEF IInv, Sessions, ClientOK, WholeOK, TransactionIsWhole
<1> QED BY <1>1, Invariance, PTL

\* Between calls and outside transactions a session has nothing on the server, and
\* linkLocks_ of a live session is what the server has granted.
THEOREM LocksAreTheServers == Spec => []LocksFollowSession
<1>1. IInv => LocksFollowSession
  <2> SUFFICES ASSUME IInv, NEW c \in Client
               PROVE  /\ pc[c] = "Idle" /\ ~transaction[c] =>
                            server[c] = "auto" /\ draft[c] = NoWrites /\ \A t \in Table : holder[t] # c
                      /\ conn[c] = "up" => linkLocks[c] = {t \in Table : holder[t] = c}
    BY DEF LocksFollowSession
  <2>1. ClientOK(c) /\ linkLocks[c] \subseteq Table /\ conn[c] \in {"up", "lost", "off"}
    BY DEF IInv, Sessions, TypeOK
  <2>2. conn[c] = "up" => linkLocks[c] = {t \in Table : holder[t] = c}
    BY <2>1 DEF ClientOK, SessionOK
  <2>3. pc[c] = "Idle" /\ ~transaction[c] => \A t \in Table : holder[t] # c
    BY <2>1 DEF ClientOK, SessionOK, TransactionOK
  <2> QED BY <2>1, <2>2, <2>3 DEF ClientOK, TransactionOK
<1> QED BY <1>1, Invariance, PTL

\* However it was closed, a closed Database has forgotten its transaction and locks.
THEOREM ClosedSessionsAreClean == Spec => []ClosedIsClean
<1>1. IInv => ClosedIsClean
  BY DEF IInv, Sessions, ClientOK, SessionOK, TransactionOK, ClosedIsClean
<1> QED BY <1>1, Invariance, PTL
=============================================================================
