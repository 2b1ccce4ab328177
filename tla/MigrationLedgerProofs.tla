----------------------- MODULE MigrationLedgerProofs -----------------------
(***************************************************************************)
(* Proofs about what the clients of MigrationState do to the committed     *)
(* history, schema and marker, for any number of processes, any catalogs   *)
(* and any versions: every step of the protocol is a step of               *)
(* MigrationLedger, and the safety properties that follow.                 *)
(*                                                                         *)
(* The invariant LInv says that what is about to be committed, and what a  *)
(* lost session may still commit, is one move away from what is committed, *)
(* and what a client knows at each label.  It rests on IInv of             *)
(* MigrationStateProofs: only the holder of the lock writes.               *)
(***************************************************************************)
EXTENDS MigrationMovesProofs

-----------------------------------------------------------------------------
(* The inductive invariant.                                                *)

\* Some client's catalog finds the contents in order.
Valid(d) == \E c \in Client : Fault(Catalog[c], d.history, d.marker) = "Ok"

\* The committed contents are sound and in order, and what a lost session may
\* still commit is one move away and in order as well.
ServerOK ==
    /\ Sound(db)
    /\ Client # {} => Valid(db)
    /\ lock # "orphan" => orphan = None
    /\ orphan # None => Moves(db, orphan) /\ Valid(orphan)

\* Labels before a step's commit.
Preparing == {"Rebuild", "Lock", "Check", "Mark", "Script", "Scripting", "Begin", "Exec", "Record",
              "Commit"}

Remaining(c) == IF done[c] THEN todo[c] \ {StepVersion(c)} ELSE todo[c]

\* What a client knows of its plan from its own catalog and the history it read,
\* whatever the others do meanwhile.
PlanOK(c) ==
    /\ pc[c] \in Busy => call[c].op \in {"up", "down", "baseline", "resolve"}
    /\ pc[c] \in Busy /\ ~Migrating(c) => todo[c] = {call[c].target}
    /\ pc[c] \in Busy /\ Migrating(c) /\ err[c] = "Ok" =>
          Planned(Catalog[c], expected[c], DirectionOf(c), Remaining(c))
    /\ pc[c] = "Check" => call[c].op # "resolve"
    /\ pc[c] \in Preparing /\ call[c].op = "baseline" => Keys(expected[c]) = {}
    /\ pc[c] \in Preparing /\ call[c].op = "resolve" =>
          /\ ~Transactional
          /\ seen[c] # None /\ seen[c].version = call[c].target
          /\ Fault(Catalog[c], expected[c], seen[c]) = "Ok"

\* What a client that holds the lock knows of the database at each label.
HeldOK(c) ==
    conn[c] = "up" =>
      /\ pc[c] \in {"Mark", "Script", "Scripting", "Exec"} => Migrating(c)
      /\ pc[c] = "Mark" => db.marker = None
      /\ pc[c] \in {"Script", "Scripting"} => db.history = expected[c] /\ db.marker = MarkerOf(c)
      /\ pc[c] = "Script" /\ CarefulOperator => db.schema[StepVersion(c)] = Source(DirectionOf(c))
      /\ pc[c] = "Begin" /\ Transactional => txn[c] = db
      /\ pc[c] = "Begin" /\ ~Transactional /\ Migrating(c) =>
            db.schema[StepVersion(c)] = Outcome(DirectionOf(c))
      /\ pc[c] \in {"Begin", "Record"} /\ call[c].op = "baseline" => db.marker = None
      /\ pc[c] \in {"Exec", "Record"} => db.history = expected[c]
      /\ pc[c] = "Exec" => txn[c] = db
      /\ pc[c] = "Record" =>
            IF Migrating(c) /\ Transactional
            THEN /\ txn[c].marker = None
                 /\ txn[c].schema = [db.schema EXCEPT ![StepVersion(c)] = Outcome(DirectionOf(c))]
            ELSE /\ txn[c] = db
                 /\ Migrating(c) => /\ db.marker = MarkerOf(c)
                                    /\ db.schema[StepVersion(c)] = Outcome(DirectionOf(c))
                 /\ call[c].op = "resolve" => db.marker = seen[c]
      /\ pc[c] = "Commit" =>
            /\ Moves(db, txn[c])
            /\ Fault(Catalog[c], txn[c].history, txn[c].marker) = "Ok"
            /\ Migrating(c) =>
                  Planned(Catalog[c], txn[c].history, DirectionOf(c), todo[c] \ {StepVersion(c)})

\* Labels of a resolution before its commit.
Resolving == {"Status", "Lock", "Begin", "Record"}

\* A careful operator's evidence lasts until the resolution is recorded: nobody
\* else resolves, and whoever takes the lock gives it back at its first check.
EvidenceOK(c) ==
    CarefulOperator /\ call[c].op = "resolve" =>
        /\ \A d \in Client \ {c} : call[d].op # "resolve"
        /\ pc[c] \in Resolving =>
              /\ db.marker # None
              /\ db.schema[db.marker.version] =
                    IF call[c].claim = "Completed" THEN Outcome(db.marker.direction)
                                                   ELSE Source(db.marker.direction)
              /\ orphan = None
              /\ \A d \in Client \ {c} : lock = d => pc[d] \in {"Check", "EndLock"}

\* Where the destructors run, no exception means a confirmed commit, and an
\* exception after one comes from the session lock of a nontransactional step.
LateFailure(c) == ~Transactional /\ err[c] \in {"LockUnavailable", "Execution"}
ReportOK(c) ==
    /\ pc[c] = "Finish" => done[c]
    /\ pc[c] \in {"EndTxn", "EndLock", "EndRebuild"} =>
          IF err[c] = "Ok" THEN done[c] ELSE done[c] => LateFailure(c)
    /\ pc[c] = "Return" => /\ err[c] = "Ok" => todo[c] = {}
                           /\ done[c] => err[c] = "SessionRestoration" \/ LateFailure(c)

LInv == ServerOK /\ \A c \in Client : PlanOK(c) /\ HeldOK(c) /\ EvidenceOK(c) /\ ReportOK(c)

-----------------------------------------------------------------------------
(* What a step of one client means for the server and the other clients.   *)

\* The other clients' calls are left alone.
Alone(c) ==
    \A d \in Client \ {c} :
        /\ pc'[d] = pc[d] /\ conn'[d] = conn[d] /\ call'[d] = call[d] /\ todo'[d] = todo[d]
        /\ expected'[d] = expected[d] /\ seen'[d] = seen[d] /\ txn'[d] = txn[d]
        /\ done'[d] = done[d] /\ err'[d] = err[d]

\* A step that does not spoil the evidence of a resolution under way, its own
\* or another client's: it writes only with the lock and past the first check,
\* which a standing marker refuses.
KeepsEvidence(c) ==
    /\ call'[c].op = "resolve" => call[c].op = "resolve" /\ call'[c].claim = call[c].claim
    /\ call'[c].op = "resolve" /\ pc'[c] \in Resolving =>
          pc[c] \in Resolving /\ db' = db /\ orphan' \in {orphan, None}
    /\ lock # c \/ pc[c] \in {"Check", "EndLock"} => db' = db /\ orphan' \in {orphan, None}
    /\ db.marker # None /\ call[c].op # "resolve" /\ lock' = c
          /\ (lock = c => pc[c] \in {"Check", "EndLock"})
       => pc'[c] \in {"Check", "EndLock"}

\* The same call, plan and marker make the same step.
LEMMA SameStep ==
    ASSUME NEW x, call'[x] = call[x], todo'[x] = todo[x], seen'[x] = seen[x]
    PROVE  /\ StepVersion(x)' = StepVersion(x)
           /\ DirectionOf(x)' = DirectionOf(x)
           /\ MarkerOf(x)' = MarkerOf(x)
BY DEF StepVersion, DirectionOf, MarkerOf

\* The evidence of every resolution outlasts such a step.
LEMMA EvidenceLasts ==
    ASSUME IInv, IInv', LInv, NEW c \in Client, Alone(c), KeepsEvidence(c), NEW x \in Client
    PROVE  EvidenceOK(x)'
<1> EvidenceOK(x) /\ EvidenceOK(c) /\ ServerOK
  BY DEF LInv
<1>1. \A d \in Client \ {c} : lock' = d => lock = d
  BY DEF IInv, ClientOK, LockOK, Holds, Alone
<1> SUFFICES ASSUME CarefulOperator, call'[x].op = "resolve"
             PROVE  /\ \A d \in Client \ {x} : call'[d].op # "resolve"
                    /\ pc'[x] \in Resolving =>
                          /\ db'.marker # None
                          /\ db'.schema[db'.marker.version] =
                                IF call'[x].claim = "Completed" THEN Outcome(db'.marker.direction)
                                                                ELSE Source(db'.marker.direction)
                          /\ orphan' = None
                          /\ \A d \in Client \ {x} : lock' = d => pc'[d] \in {"Check", "EndLock"}
  BY DEF EvidenceOK
<1>2. call[x].op = "resolve" /\ call'[x].claim = call[x].claim
  BY DEF Alone, KeepsEvidence
<1>3. \A d \in Client \ {x} : call'[d].op # "resolve"
  BY <1>2 DEF EvidenceOK, Alone, KeepsEvidence
<1>4. ASSUME pc'[x] \in Resolving
      PROVE  pc[x] \in Resolving /\ db' = db /\ orphan' \in {orphan, None}
  <2>1. CASE x = c
    BY <1>4, <2>1 DEF KeepsEvidence
  <2>2. CASE x # c
    <3>1. pc[x] \in Resolving
      BY <1>4, <2>2 DEF Alone
    <3>2. lock = c => pc[c] \in {"Check", "EndLock"}
      BY <1>2, <2>2, <3>1 DEF EvidenceOK
    <3> QED BY <3>1, <3>2 DEF KeepsEvidence
  <2> QED BY <2>1, <2>2
<1>5. ASSUME pc'[x] \in Resolving, NEW d \in Client \ {x}, lock' = d
      PROVE  pc'[d] \in {"Check", "EndLock"}
  <2>1. /\ pc[x] \in Resolving /\ db.marker # None /\ call[d].op # "resolve"
        /\ lock = d => pc[d] \in {"Check", "EndLock"}
    BY <1>2, <1>4, <1>5 DEF EvidenceOK
  <2>2. CASE d = c
    BY <1>5, <2>1, <2>2 DEF KeepsEvidence
  <2>3. CASE d # c
    BY <1>1, <1>5, <2>1, <2>3 DEF Alone
  <2> QED BY <2>2, <2>3
<1> QED BY <1>2, <1>3, <1>4, <1>5 DEF EvidenceOK

\* A step that is right for its own client, the server and all evidence is
\* right for all, because only the holder of the lock writes.
LEMMA OthersKept ==
    ASSUME IInv, IInv', LInv, NEW c \in Client, Alone(c), lock # c => db' = db,
           ServerOK', PlanOK(c)', HeldOK(c)', ReportOK(c)',
           \A x \in Client : EvidenceOK(x)'
    PROVE  LInv'
<1> SUFFICES ASSUME NEW d \in Client
             PROVE  PlanOK(d)' /\ HeldOK(d)' /\ ReportOK(d)'
  BY DEF LInv
<1>1. CASE d = c
  BY <1>1
<1>2. CASE d # c
  <2> PlanOK(d) /\ HeldOK(d) /\ ReportOK(d) /\ LockOK(d)
    BY DEF LInv, IInv, ClientOK
  <2> /\ pc'[d] = pc[d] /\ conn'[d] = conn[d] /\ call'[d] = call[d] /\ todo'[d] = todo[d]
      /\ expected'[d] = expected[d] /\ seen'[d] = seen[d] /\ txn'[d] = txn[d]
      /\ done'[d] = done[d] /\ err'[d] = err[d]
    BY <1>2 DEF Alone
  <2> /\ StepVersion(d)' = StepVersion(d) /\ DirectionOf(d)' = DirectionOf(d)
      /\ MarkerOf(d)' = MarkerOf(d)
    BY SameStep
  <2>1. PlanOK(d)'
    BY DEF PlanOK, Remaining, Migrating
  <2>2. ReportOK(d)'
    BY DEF ReportOK, LateFailure
  <2>3. CASE Holds(d)
    <3>1. db' = db
      BY <1>2, <2>3 DEF LockOK
    <3>2. HeldOK(d)'
      BY <3>1 DEF HeldOK, Migrating
    <3> QED BY <2>1, <2>2, <3>2
  <2>4. CASE ~Holds(d)
    <3>1. HeldOK(d)'
      BY <2>4 DEF HeldOK, Holds
    <3> QED BY <2>1, <2>2, <3>1
  <2> QED BY <2>3, <2>4
<1> QED BY <1>1, <1>2

\* The usual case: the step keeps every evidence.
LEMMA LedgerFrame ==
    ASSUME IInv, IInv', LInv, NEW c \in Client, Alone(c), KeepsEvidence(c),
           ServerOK', PlanOK(c)', HeldOK(c)', ReportOK(c)'
    PROVE  LInv'
<1>1. \A x \in Client : EvidenceOK(x)'
  BY EvidenceLasts
<1>2. lock # c => db' = db
  BY DEF KeepsEvidence
<1> QED BY <1>1, <1>2, OthersKept

\* A committed move in order, with nothing left to a lost session.
LEMMA ServerMoves ==
    ASSUME IInv, IInv', LInv, Moves(db, db'), Client # {} => Valid(db)', orphan' = None
    PROVE  ServerOK'
<1>1. Sound(db) /\ db \in Database /\ db' \in Database
  BY DEF LInv, ServerOK, IInv, TypeOK
<1>2. Sound(db')
  BY <1>1, MovesSound
<1> QED BY <1>2 DEF ServerOK

\* A step that only takes, keeps or gives up the lock.
LEMMA ServerQuiet ==
    ASSUME IInv, IInv', LInv, NEW c \in Client, db' = db,
           \/ UNCHANGED <<lock, orphan>>
           \/ Abandon(c, None)
           \/ lock = c /\ lock' # "orphan" /\ UNCHANGED orphan
           \/ lock = "free" /\ UNCHANGED orphan
    PROVE  ServerOK' /\ orphan' \in {orphan, None}
<1> ServerOK
  BY DEF LInv
<1>1. orphan' \in {orphan, None} /\ (lock' # "orphan" => orphan' = None)
  BY ClientAssumption DEF ServerOK, Abandon
<1>2. /\ Sound(db)' /\ (Client # {} => Valid(db)')
      /\ orphan' # None => (Moves(db, orphan) /\ Valid(orphan))'
  BY <1>1 DEF ServerOK
<1> QED BY <1>1, <1>2 DEF ServerOK

\* A lost session whose pending commit is a move in order.
LEMMA ServerOrphans ==
    ASSUME IInv, IInv', LInv, NEW c \in Client, NEW pending, db' = db, Abandon(c, pending),
           lock = c => pending = None \/ (Moves(db, pending) /\ Valid(pending))
    PROVE  ServerOK'
<1> ServerOK
  BY DEF LInv
<1>1. CASE lock = c
  <2>1. lock' = "orphan" /\ orphan' = pending
    BY <1>1 DEF Abandon
  <2>2. /\ Sound(db)' /\ (Client # {} => Valid(db)')
        /\ orphan' # None => (Moves(db, orphan) /\ Valid(orphan))'
    BY <1>1, <2>1 DEF ServerOK
  <2> QED BY <2>1, <2>2 DEF ServerOK
<1>2. CASE lock # c
  BY <1>2, ServerQuiet DEF Abandon
<1> QED BY <1>1, <1>2

-----------------------------------------------------------------------------
(* Steps that leave what is committed alone.                               *)

\* A read transaction whose commit fails ends the call.
LEMMA StatusUncertainMoves ==
    ASSUME IInv, IInv', LInv, NEW c \in Client, StatusUncertain(c)
    PROVE  LInv'
<1> /\ TypeOK /\ TypeOK' /\ ClientOK(c) /\ ServerOK
    /\ PlanOK(c) /\ HeldOK(c) /\ EvidenceOK(c) /\ ReportOK(c)
  BY DEF IInv, LInv
<1> USE DEF StatusUncertain, Throw, server, request
<1> /\ StepVersion(c)' = StepVersion(c) /\ DirectionOf(c)' = DirectionOf(c)
    /\ MarkerOf(c)' = MarkerOf(c)
  BY SameStep
<1>1. Alone(c)
  BY DEF Alone, TypeOK
<1>2. ServerOK' /\ orphan' \in {orphan, None}
  BY ServerQuiet, ClientAssumption DEF ClientOK, LockOK, Holds, PathOK
<1>3. PlanOK(c)'
  BY DEF PlanOK, Remaining, Migrating, Busy, Preparing, TypeOK
<1>4. HeldOK(c)'
  BY DEF HeldOK, Migrating, TypeOK
<1>5. ReportOK(c)'
  BY DEF ReportOK, LateFailure, TypeOK, ClientOK, PathOK, Forward, Labels
<1>6. KeepsEvidence(c)
  BY <1>2, ClientAssumption DEF KeepsEvidence, Resolving, TypeOK, ClientOK, LockOK, Holds
<1> QED BY <1>1, <1>2, <1>3, <1>4, <1>5, <1>6, LedgerFrame

\* The rebuild session is opened before the lock.
LEMMA BeginRebuildMoves ==
    ASSUME IInv, IInv', LInv, NEW c \in Client, BeginRebuild(c)
    PROVE  LInv'
<1> /\ TypeOK /\ TypeOK' /\ ClientOK(c) /\ ServerOK
    /\ PlanOK(c) /\ HeldOK(c) /\ EvidenceOK(c) /\ ReportOK(c)
  BY DEF IInv, LInv
<1> USE DEF BeginRebuild, Goto, server, request
<1> /\ StepVersion(c)' = StepVersion(c) /\ DirectionOf(c)' = DirectionOf(c)
    /\ MarkerOf(c)' = MarkerOf(c)
  BY SameStep
<1>1. Alone(c)
  BY DEF Alone, TypeOK
<1>2. ServerOK' /\ orphan' \in {orphan, None}
  BY ServerQuiet, ClientAssumption DEF ClientOK, LockOK, Holds, PathOK
<1>3. PlanOK(c)'
  BY DEF PlanOK, Remaining, Migrating, Busy, Preparing, TypeOK
<1>4. HeldOK(c)'
  BY DEF HeldOK, Migrating, TypeOK
<1>5. ReportOK(c)'
  BY DEF ReportOK, LateFailure, TypeOK, ClientOK, PathOK, Forward, Labels
<1>6. KeepsEvidence(c)
  BY <1>2, ClientAssumption
  DEF KeepsEvidence, Resolving, TypeOK, ClientOK, LockOK, Holds, PlanOK, Preparing, PathOK
<1> QED BY <1>1, <1>2, <1>3, <1>4, <1>5, <1>6, LedgerFrame

\* Or the call ends there.
LEMMA FailRebuildMoves ==
    ASSUME IInv, IInv', LInv, NEW c \in Client, FailRebuild(c)
    PROVE  LInv'
<1> /\ TypeOK /\ TypeOK' /\ ClientOK(c) /\ ServerOK
    /\ PlanOK(c) /\ HeldOK(c) /\ EvidenceOK(c) /\ ReportOK(c)
  BY DEF IInv, LInv
<1> USE DEF FailRebuild, Throw, server, request
<1> /\ StepVersion(c)' = StepVersion(c) /\ DirectionOf(c)' = DirectionOf(c)
    /\ MarkerOf(c)' = MarkerOf(c)
  BY SameStep
<1>1. Alone(c)
  BY DEF Alone, TypeOK
<1>2. ServerOK' /\ orphan' \in {orphan, None}
  BY ServerQuiet, ClientAssumption DEF ClientOK, LockOK, Holds, PathOK
<1>3. PlanOK(c)'
  BY DEF PlanOK, Remaining, Migrating, Busy, Preparing, TypeOK
<1>4. HeldOK(c)'
  BY DEF HeldOK, Migrating, TypeOK
<1>5. ReportOK(c)'
  BY DEF ReportOK, LateFailure, TypeOK, ClientOK, PathOK, Forward, Labels
<1>6. KeepsEvidence(c)
  BY <1>2, ClientAssumption DEF KeepsEvidence, Resolving, TypeOK, ClientOK, LockOK, Holds
<1> QED BY <1>1, <1>2, <1>3, <1>4, <1>5, <1>6, LedgerFrame

\* A lock that is taken ends the step.
LEMMA RefuseLockMoves ==
    ASSUME IInv, IInv', LInv, NEW c \in Client, RefuseLock(c)
    PROVE  LInv'
<1> /\ TypeOK /\ TypeOK' /\ ClientOK(c) /\ ServerOK
    /\ PlanOK(c) /\ HeldOK(c) /\ EvidenceOK(c) /\ ReportOK(c)
  BY DEF IInv, LInv
<1> USE DEF RefuseLock, Grants, Throw, server, session, request
<1> /\ StepVersion(c)' = StepVersion(c) /\ DirectionOf(c)' = DirectionOf(c)
    /\ MarkerOf(c)' = MarkerOf(c)
  BY SameStep
<1>1. Alone(c)
  BY DEF Alone, TypeOK
<1>2. ServerOK' /\ orphan' \in {orphan, None}
  BY ServerQuiet, ClientAssumption DEF ClientOK, LockOK, Holds, PathOK
<1>3. PlanOK(c)'
  BY DEF PlanOK, Remaining, Migrating, Busy, Preparing, TypeOK
<1>4. HeldOK(c)'
  BY DEF HeldOK, Migrating, TypeOK
<1>5. ReportOK(c)'
  BY DEF ReportOK, LateFailure, TypeOK, ClientOK, PathOK, Forward, Labels
<1>6. KeepsEvidence(c)
  BY <1>2, ClientAssumption DEF KeepsEvidence, Resolving, TypeOK, ClientOK, LockOK, Holds
<1> QED BY <1>1, <1>2, <1>3, <1>4, <1>5, <1>6, LedgerFrame

\* finish() follows a confirmed commit.
LEMMA FinishLockMoves ==
    ASSUME IInv, IInv', LInv, NEW c \in Client, FinishLock(c)
    PROVE  LInv'
<1> /\ TypeOK /\ TypeOK' /\ ClientOK(c) /\ ServerOK
    /\ PlanOK(c) /\ HeldOK(c) /\ EvidenceOK(c) /\ ReportOK(c)
  BY DEF IInv, LInv
<1> USE DEF FinishLock, Goto, Throw, Abandon, request
<1> /\ StepVersion(c)' = StepVersion(c) /\ DirectionOf(c)' = DirectionOf(c)
    /\ MarkerOf(c)' = MarkerOf(c)
  BY SameStep
<1>1. Alone(c)
  BY DEF Alone, TypeOK
<1>2. ServerOK' /\ orphan' \in {orphan, None}
  BY ServerQuiet, ClientAssumption DEF ClientOK, LockOK, Holds, PathOK
<1>3. PlanOK(c)'
  BY DEF PlanOK, Remaining, Migrating, Busy, Preparing, TypeOK
<1>4. HeldOK(c)'
  BY DEF HeldOK, Migrating, TypeOK
<1>5. ReportOK(c)'
  BY DEF ReportOK, LateFailure, TypeOK, ClientOK, PathOK, Forward, Labels
<1>6. KeepsEvidence(c)
  BY <1>2, ClientAssumption DEF KeepsEvidence, Resolving, TypeOK, ClientOK, LockOK, Holds
<1> QED BY <1>1, <1>2, <1>3, <1>4, <1>5, <1>6, LedgerFrame

\* ~Transaction changes nothing that is committed.
LEMMA EndTransactionMoves ==
    ASSUME IInv, IInv', LInv, NEW c \in Client, EndTransaction(c)
    PROVE  LInv'
<1> /\ TypeOK /\ TypeOK' /\ ClientOK(c) /\ ServerOK
    /\ PlanOK(c) /\ HeldOK(c) /\ EvidenceOK(c) /\ ReportOK(c)
  BY DEF IInv, LInv
<1> USE DEF EndTransaction, Goto, Finished, Abandon, LockAfterTransaction, request
<1> /\ StepVersion(c)' = StepVersion(c) /\ DirectionOf(c)' = DirectionOf(c)
    /\ MarkerOf(c)' = MarkerOf(c)
  BY SameStep
<1>1. Alone(c)
  BY DEF Alone, TypeOK
<1>2. ServerOK' /\ orphan' \in {orphan, None}
  BY ServerQuiet, ClientAssumption DEF ClientOK, LockOK, Holds, PathOK
<1>3. PlanOK(c)'
  BY DEF PlanOK, Remaining, Migrating, Busy, Preparing, TypeOK
<1>4. HeldOK(c)'
  BY DEF HeldOK, Migrating, TypeOK
<1>5. ReportOK(c)'
  BY DEF ReportOK, LateFailure, TypeOK, ClientOK, PathOK, Forward, Labels
<1>6. KeepsEvidence(c)
  BY <1>2, ClientAssumption DEF KeepsEvidence, Resolving, TypeOK, ClientOK, LockOK, Holds
<1> QED BY <1>1, <1>2, <1>3, <1>4, <1>5, <1>6, LedgerFrame

\* Neither does ~MigrationLock.
LEMMA EndMigrationLockMoves ==
    ASSUME IInv, IInv', LInv, NEW c \in Client, EndMigrationLock(c)
    PROVE  LInv'
<1> /\ TypeOK /\ TypeOK' /\ ClientOK(c) /\ ServerOK
    /\ PlanOK(c) /\ HeldOK(c) /\ EvidenceOK(c) /\ ReportOK(c)
  BY DEF IInv, LInv
<1> USE DEF EndMigrationLock, Goto, Abandon, request
<1> /\ StepVersion(c)' = StepVersion(c) /\ DirectionOf(c)' = DirectionOf(c)
    /\ MarkerOf(c)' = MarkerOf(c)
  BY SameStep
<1>1. Alone(c)
  BY DEF Alone, TypeOK
<1>2. ServerOK' /\ orphan' \in {orphan, None}
  BY ServerQuiet, ClientAssumption DEF ClientOK, LockOK, Holds, PathOK
<1>3. PlanOK(c)'
  BY DEF PlanOK, Remaining, Migrating, Busy, Preparing, TypeOK
<1>4. HeldOK(c)'
  BY DEF HeldOK, Migrating, TypeOK
<1>5. ReportOK(c)'
  BY DEF ReportOK, LateFailure, TypeOK, ClientOK, PathOK, Forward, Labels
<1>6. KeepsEvidence(c)
  BY <1>2, ClientAssumption DEF KeepsEvidence, Resolving, TypeOK, ClientOK, LockOK, Holds
<1> QED BY <1>1, <1>2, <1>3, <1>4, <1>5, <1>6, LedgerFrame

\* A failing statement ends the step before its commit, or after it at the session lock.
LEMMA StatementFailsMoves ==
    ASSUME IInv, IInv', LInv, NEW c \in Client, StatementFails(c)
    PROVE  LInv'
<1> /\ TypeOK /\ TypeOK' /\ ClientOK(c) /\ ServerOK
    /\ PlanOK(c) /\ HeldOK(c) /\ EvidenceOK(c) /\ ReportOK(c)
  BY DEF IInv, LInv
<1> USE DEF StatementFails, Throw, server, session, request
<1> /\ StepVersion(c)' = StepVersion(c) /\ DirectionOf(c)' = DirectionOf(c)
    /\ MarkerOf(c)' = MarkerOf(c)
  BY SameStep
<1>1. Alone(c)
  BY DEF Alone, TypeOK
<1>2. ServerOK' /\ orphan' \in {orphan, None}
  BY ServerQuiet, ClientAssumption DEF ClientOK, LockOK, Holds, PathOK
<1>3. PlanOK(c)'
  BY DEF PlanOK, Remaining, Migrating, Busy, Preparing, TypeOK
<1>4. HeldOK(c)'
  BY DEF HeldOK, Migrating, TypeOK
<1>5. ReportOK(c)'
  BY DEF ReportOK, LateFailure, TypeOK, ClientOK, PathOK, Forward, Labels
<1>6. KeepsEvidence(c)
  BY <1>2, ClientAssumption DEF KeepsEvidence, Resolving, TypeOK, ClientOK, LockOK, Holds
<1> QED BY <1>1, <1>2, <1>3, <1>4, <1>5, <1>6, LedgerFrame

\* A new session starts with nothing.
LEMMA ReconnectMoves ==
    ASSUME IInv, IInv', LInv, NEW c \in Client, Reconnect(c)
    PROVE  LInv'
<1> /\ TypeOK /\ TypeOK' /\ ClientOK(c) /\ ServerOK
    /\ PlanOK(c) /\ HeldOK(c) /\ EvidenceOK(c) /\ ReportOK(c)
  BY DEF IInv, LInv
<1> USE DEF Reconnect, server, request
<1> /\ StepVersion(c)' = StepVersion(c) /\ DirectionOf(c)' = DirectionOf(c)
    /\ MarkerOf(c)' = MarkerOf(c)
  BY SameStep
<1>1. Alone(c)
  BY DEF Alone, TypeOK
<1>2. ServerOK' /\ orphan' \in {orphan, None}
  BY ServerQuiet, ClientAssumption DEF ClientOK, LockOK, Holds, PathOK
<1>3. PlanOK(c)'
  BY DEF PlanOK, Remaining, Migrating, Busy, Preparing, TypeOK
<1>4. HeldOK(c)'
  BY DEF HeldOK, Migrating, TypeOK
<1>5. ReportOK(c)'
  BY DEF ReportOK, LateFailure, TypeOK, ClientOK, PathOK, Forward, Labels
<1>6. KeepsEvidence(c)
  BY <1>2, ClientAssumption DEF KeepsEvidence, Resolving, TypeOK, ClientOK, LockOK, Holds
<1> QED BY <1>1, <1>2, <1>3, <1>4, <1>5, <1>6, LedgerFrame

\* The lock is taken; a transaction starts from what is committed, and a
\* standing marker lets only a resolution past the first check.
LEMMA AcquireLockMoves ==
    ASSUME IInv, IInv', LInv, NEW c \in Client, AcquireLock(c)
    PROVE  LInv'
<1> /\ TypeOK /\ TypeOK' /\ ClientOK(c) /\ ServerOK
    /\ PlanOK(c) /\ HeldOK(c) /\ EvidenceOK(c) /\ ReportOK(c)
  BY DEF IInv, LInv
<1> USE DEF AcquireLock, Grants, Goto, request
<1> /\ StepVersion(c)' = StepVersion(c) /\ DirectionOf(c)' = DirectionOf(c)
    /\ MarkerOf(c)' = MarkerOf(c)
  BY SameStep
<1>1. Alone(c)
  BY DEF Alone, TypeOK
<1>2. ServerOK' /\ orphan' \in {orphan, None}
  BY ServerQuiet, ClientAssumption
<1>3. PlanOK(c)'
  BY DEF PlanOK, Remaining, Migrating, Busy, Preparing, TypeOK
<1>4. HeldOK(c)'
  <2>1. Transactional => db.marker = None /\ txn'[c] = db /\ pc'[c] = "Begin"
    BY DEF ServerOK, Sound, TypeOK
  <2>2. ~Transactional => pc'[c] = IF call[c].op = "resolve" THEN "Begin" ELSE "Check"
    BY DEF TypeOK
  <2>3. pc'[c] = "Begin" /\ ~Transactional => call[c].op = "resolve"
    BY <2>2
  <2>4. pc'[c] \in {"Begin", "Check"}
    BY <2>1, <2>2
  <2> QED BY <2>1, <2>3, <2>4 DEF HeldOK, Migrating
<1>5. ReportOK(c)'
  BY DEF ReportOK, LateFailure, TypeOK
<1>6. KeepsEvidence(c)
  BY <1>2, ClientAssumption DEF KeepsEvidence, Resolving, TypeOK, ServerOK, Sound
<1> QED BY <1>1, <1>2, <1>3, <1>4, <1>5, <1>6, LedgerFrame

\* The check under the lock passes only where no marker stands.
LEMMA CheckMoves ==
    ASSUME IInv, IInv', LInv, NEW c \in Client, Check(c)
    PROVE  LInv'
<1> /\ TypeOK /\ TypeOK' /\ ClientOK(c) /\ ServerOK
    /\ PlanOK(c) /\ HeldOK(c) /\ EvidenceOK(c) /\ ReportOK(c)
  BY DEF IInv, LInv
<1> USE DEF Check, Continue, Goto, Throw, server, session, request
<1> /\ StepVersion(c)' = StepVersion(c) /\ DirectionOf(c)' = DirectionOf(c)
    /\ MarkerOf(c)' = MarkerOf(c)
  BY SameStep
<1>0. pc'[c] # "EndLock" => db.marker = None
  <2>1. Inspect(c) # "Ok" => pc'[c] = "EndLock"
    BY DEF TypeOK
  <2> QED BY <2>1, AcceptedWithoutMarker DEF Inspect
<1>1. Alone(c)
  BY DEF Alone, TypeOK
<1>2. ServerOK' /\ orphan' \in {orphan, None}
  BY ServerQuiet
<1>3. PlanOK(c)'
  BY DEF PlanOK, Remaining, Migrating, Busy, Preparing, TypeOK
<1>4. HeldOK(c)'
  <2>1. /\ pc'[c] \in {"EndLock", IF Migrating(c) THEN "Mark" ELSE "Begin"}
        /\ ~Transactional
    BY DEF TypeOK, ClientOK, PathOK
  <2> QED BY <1>0, <2>1 DEF HeldOK, Migrating
<1>5. ReportOK(c)'
  BY DEF ReportOK, LateFailure, TypeOK, ClientOK, PathOK, Forward, Labels
<1>6. KeepsEvidence(c)
  BY <1>0, <1>2 DEF KeepsEvidence, Resolving, TypeOK, PlanOK
<1> QED BY <1>1, <1>2, <1>3, <1>4, <1>5, <1>6, LedgerFrame

\* The history a client works from is the committed one once the lock and
\* requireHistory() have been passed; what follows starts from there.
LEMMA StepIsReady ==
    ASSUME IInv, LInv, NEW c \in Client, pc[c] \in Preparing, Migrating(c)
    PROVE  /\ StepVersion(c) \in Versions /\ DirectionOf(c) \in Direction
           /\ MarkerOf(c) \in Marker
           /\ Planned(Catalog[c], expected[c], DirectionOf(c), todo[c])
           /\ Ready(expected[c], StepVersion(c), DirectionOf(c))
           /\ Fault(Catalog[c], expected[c], MarkerOf(c)) = "Ok"
           /\ (DirectionOf(c) = "Up") <=> (expected[c][StepVersion(c)] = None)
<1> TypeOK /\ ClientOK(c) /\ PlanOK(c)
  BY DEF IInv, LInv
<1>1. pc[c] \in Busy /\ err[c] = "Ok" /\ ~done[c]
  BY DEF Preparing, Busy, ClientOK, PathOK, Forward, Labels
<1>2. todo[c] # {} /\ todo[c] \in SUBSET Keys(Catalog[c]) /\ expected[c] \in History
  BY <1>1 DEF ClientOK, PathOK, TypeOK
<1>3. Planned(Catalog[c], expected[c], DirectionOf(c), todo[c])
  BY <1>1 DEF PlanOK, Remaining
<1>4. Catalog[c] \in CatalogType
  BY CatalogAssumption
<1>5. DirectionOf(c) \in Direction /\ MarkerOf(c) \in Marker /\ StepVersion(c) \in Versions
  BY <1>1, StepVersionKnown
<1>6. /\ Ready(expected[c], StepVersion(c), DirectionOf(c))
      /\ Fault(Catalog[c], expected[c], MarkerOf(c)) = "Ok"
      /\ (DirectionOf(c) = "Up") <=> (expected[c][StepVersion(c)] = None)
  BY <1>2, <1>3, <1>4, <1>5, NextIsReady DEF StepVersion, MarkerOf
<1> QED BY <1>3, <1>5, <1>6

\* Where the schema agrees with the history, a ready step finds the effect its
\* script was written for.
LEMMA ReadyIsSource ==
    ASSUME NEW d \in Database, NEW v \in Versions, NEW way \in Direction,
           Ready(d.history, v, way), Agrees(d, v)
    PROVE  d.schema[v] = Source(way)
<1>1. \A x \in Versions : ~(x < x)
  BY VersionsAssumption
<1> QED BY <1>1 DEF Ready, Above, Newest, Keys, Agrees, Source, Direction

\* The marker is written where no other stands and a script can start.
LEMMA MarkerIsAMove ==
    ASSUME IInv, LInv, NEW c \in Client, pc[c] = "Mark", conn[c] = "up", RequireHistory(c) = "Ok"
    PROVE  LET marked == [db EXCEPT !.marker = MarkerOf(c)]
           IN  /\ marked \in Database
               /\ marked.marker = MarkerOf(c)
               /\ marked.history = expected[c]
               /\ marked.schema = db.schema
               /\ Moves(db, marked)
               /\ Fault(Catalog[c], marked.history, marked.marker) = "Ok"
               /\ CarefulOperator => db.schema[StepVersion(c)] = Source(DirectionOf(c))
<1> TypeOK /\ ClientOK(c) /\ ServerOK /\ HeldOK(c)
  BY DEF IInv, LInv
<1> DEFINE e == [db EXCEPT !.marker = MarkerOf(c)]
<1>1. Migrating(c) /\ db.marker = None /\ db.history = expected[c] /\ ~Transactional
  BY DEF HeldOK, RequireHistory, ClientOK, PathOK
<1>2. /\ StepVersion(c) \in Versions /\ DirectionOf(c) \in Direction
      /\ MarkerOf(c) \in Marker
      /\ Ready(expected[c], StepVersion(c), DirectionOf(c))
      /\ Fault(Catalog[c], expected[c], MarkerOf(c)) = "Ok"
  BY <1>1, StepIsReady DEF Preparing
<1>3. e.marker = MarkerOf(c) /\ e.history = db.history /\ e.schema = db.schema /\ e \in Database
  BY <1>2, DatabaseUpdates DEF TypeOK, Database
<1>4. e.marker.version = StepVersion(c) /\ e.marker.direction = DirectionOf(c)
  BY <1>3 DEF MarkerOf
<1>5. Marks(db, e)
  BY <1>1, <1>2, <1>3, <1>4 DEF Marks
<1>6. ASSUME CarefulOperator PROVE db.schema[StepVersion(c)] = Source(DirectionOf(c))
  <2>1. Agrees(db, StepVersion(c))
    BY <1>1, <1>2, <1>6 DEF ServerOK, Sound
  <2> QED BY <1>1, <1>2, <2>1, ReadyIsSource DEF TypeOK
<1>7. /\ Moves(db, e) /\ e.history = expected[c]
      /\ Fault(Catalog[c], e.history, e.marker) = "Ok"
  BY <1>1, <1>2, <1>3, <1>5 DEF Moves
<1> QED BY <1>3, <1>6, <1>7

\* Writing the effect of one version changes nothing else.
LEMMA EffectWritten ==
    ASSUME NEW d \in Database, NEW v \in Versions, NEW x \in Effect
    PROVE  LET e == [d EXCEPT !.schema[v] = x]
           IN  /\ e \in Database
               /\ e.history = d.history /\ e.marker = d.marker
               /\ e.schema = [d.schema EXCEPT ![v] = x]
               /\ e.schema[v] = x
<1> DEFINE e == [d EXCEPT !.schema[v] = x]
<1>1. e \in Database
  BY DatabaseUpdates
<1>2. e.history = d.history /\ e.marker = d.marker /\ e.schema = [d.schema EXCEPT ![v] = x]
  BY DEF Database
<1>3. e.schema[v] = x
  BY <1>2 DEF Database, Schema
<1> QED BY <1>1, <1>2, <1>3

\* The script of a marked step works on the marked version only.
LEMMA ScriptIsAMove ==
    ASSUME IInv, LInv, NEW c \in Client, pc[c] \in {"Script", "Scripting"}, conn[c] = "up",
           NEW x \in Effect
    PROVE  LET e == [db EXCEPT !.schema[StepVersion(c)] = x]
           IN  /\ e \in Database
               /\ e.history = db.history /\ e.marker = db.marker
               /\ e.schema[StepVersion(c)] = x
               /\ Moves(db, e)
               /\ Valid(e)
<1> TypeOK /\ ClientOK(c) /\ ServerOK /\ HeldOK(c)
  BY DEF IInv, LInv
<1> DEFINE e == [db EXCEPT !.schema[StepVersion(c)] = x]
<1>1. Migrating(c) /\ db.marker = MarkerOf(c)
  BY DEF HeldOK
<1>2. StepVersion(c) \in Versions /\ MarkerOf(c) \in Marker
  BY <1>1, StepIsReady DEF Preparing
<1>3. db.marker # None /\ db.marker.version = StepVersion(c)
  BY <1>1, <1>2, NoneAssumption DEF MarkerOf
<1>4. /\ e \in Database /\ e.history = db.history /\ e.marker = db.marker
      /\ e.schema = [db.schema EXCEPT ![StepVersion(c)] = x]
      /\ e.schema[StepVersion(c)] = x
  BY <1>2, EffectWritten DEF TypeOK
<1>5. Works(db, e)
  BY <1>3, <1>4 DEF Works
<1>6. Valid(db)
  BY DEF ServerOK
<1>7. Valid(e)
  BY <1>4, <1>6 DEF Valid
<1> QED BY <1>4, <1>5, <1>7 DEF Moves

-----------------------------------------------------------------------------
(* Steps that write, or leave a write to a lost session.                   *)

\* The marker commits.
LEMMA WriteMarkerMoves ==
    ASSUME IInv, IInv', LInv, NEW c \in Client, WriteMarker(c)
    PROVE  LInv'
<1> /\ TypeOK /\ TypeOK' /\ ClientOK(c) /\ ServerOK
    /\ PlanOK(c) /\ HeldOK(c) /\ EvidenceOK(c) /\ ReportOK(c)
  BY DEF IInv, LInv
<1> USE DEF WriteMarker, Continue, Goto, Throw, session, request
<1> /\ StepVersion(c)' = StepVersion(c) /\ DirectionOf(c)' = DirectionOf(c)
    /\ MarkerOf(c)' = MarkerOf(c)
  BY SameStep
<1> lock = c /\ Migrating(c) /\ ~done[c]
  BY DEF ClientOK, LockOK, Holds, HeldOK, PathOK, Forward, Labels
<1>1. Alone(c)
  BY DEF Alone, TypeOK
<1>2. PlanOK(c)'
  BY DEF PlanOK, Remaining, Migrating, Busy, Preparing, TypeOK
<1>3. ReportOK(c)'
  BY DEF ReportOK, LateFailure, TypeOK
<1>4. KeepsEvidence(c)
  BY DEF KeepsEvidence, Resolving, TypeOK, Migrating
<1>5. CASE MarkerCode(c) = "Ok"
  <2>0. RequireHistory(c) = "Ok"
    BY <1>5 DEF MarkerCode
  <2> DEFINE marked == [db EXCEPT !.marker = MarkerOf(c)]
  <2>1. db' = marked /\ pc'[c] = "Script"
    BY <1>5 DEF TypeOK
  <2>a. /\ marked.marker = MarkerOf(c) /\ marked.history = expected[c] /\ marked.schema = db.schema
        /\ Moves(db, marked)
        /\ Fault(Catalog[c], marked.history, marked.marker) = "Ok"
        /\ CarefulOperator => db.schema[StepVersion(c)] = Source(DirectionOf(c))
    BY <2>0, MarkerIsAMove
  <2>2. /\ db'.marker = MarkerOf(c) /\ db'.history = expected[c] /\ db'.schema = db.schema
        /\ Moves(db, db')
        /\ Fault(Catalog[c], db'.history, db'.marker) = "Ok"
        /\ CarefulOperator => db'.schema[StepVersion(c)] = Source(DirectionOf(c))
    <3> HIDE DEF marked, WriteMarker
    <3> QED BY <2>1, <2>a
  <2>3. Valid(db)'
    BY <2>2 DEF Valid
  <2>4. orphan' = None
    BY ClientAssumption DEF ServerOK
  <2>5. ServerOK'
    BY <2>2, <2>3, <2>4, ServerMoves
  <2>6. HeldOK(c)'
    BY <2>1, <2>2 DEF HeldOK, Migrating
  <2> QED BY <1>1, <1>2, <1>3, <1>4, <2>5, <2>6, LedgerFrame
<1>6. CASE MarkerCode(c) # "Ok"
  <2>1. db' = db /\ pc'[c] = "EndLock"
    BY <1>6 DEF TypeOK
  <2>2. ServerOK'
    BY <2>1, ServerQuiet
  <2>3. HeldOK(c)'
    BY <2>1 DEF HeldOK
  <2> QED BY <1>1, <1>2, <1>3, <1>4, <2>2, <2>3, LedgerFrame
<1> QED BY <1>5, <1>6

\* Or the server is left to commit it.
LEMMA MarkerUncertainMoves ==
    ASSUME IInv, IInv', LInv, NEW c \in Client, MarkerUncertain(c)
    PROVE  LInv'
<1> /\ TypeOK /\ TypeOK' /\ ClientOK(c) /\ ServerOK
    /\ PlanOK(c) /\ HeldOK(c) /\ EvidenceOK(c) /\ ReportOK(c)
  BY DEF IInv, LInv
<1> USE DEF MarkerUncertain, Throw, request
<1> /\ StepVersion(c)' = StepVersion(c) /\ DirectionOf(c)' = DirectionOf(c)
    /\ MarkerOf(c)' = MarkerOf(c)
  BY SameStep
<1> DEFINE marked == [db EXCEPT !.marker = MarkerOf(c)]
<1>1. Alone(c)
  BY DEF Alone, TypeOK
<1>2. ServerOK'
  <2>1. Moves(db, marked) /\ Fault(Catalog[c], marked.history, marked.marker) = "Ok"
    <3>1. RequireHistory(c) = "Ok"
      BY DEF MarkerCode
    <3> QED BY <3>1, MarkerIsAMove
  <2>2. Valid(marked)
    BY <2>1 DEF Valid
  <2> QED BY <2>1, <2>2, ServerOrphans
<1>3. PlanOK(c)'
  BY DEF PlanOK, Remaining, Migrating, Busy, Preparing, TypeOK
<1>4. HeldOK(c)'
  BY DEF HeldOK, Migrating, TypeOK
<1>5. ReportOK(c)'
  BY DEF ReportOK, LateFailure, TypeOK, ClientOK, PathOK, Forward, Labels
<1>6. KeepsEvidence(c)
  BY DEF KeepsEvidence, Resolving, TypeOK, Abandon
<1> QED BY <1>1, <1>2, <1>3, <1>4, <1>5, <1>6, LedgerFrame

\* The script starts.
LEMMA BeginScriptMoves ==
    ASSUME IInv, IInv', LInv, NEW c \in Client, BeginScript(c)
    PROVE  LInv'
<1> /\ TypeOK /\ TypeOK' /\ ClientOK(c) /\ ServerOK
    /\ PlanOK(c) /\ HeldOK(c) /\ EvidenceOK(c) /\ ReportOK(c)
  BY DEF IInv, LInv
<1> USE DEF BeginScript, Goto, session, request
<1> /\ StepVersion(c)' = StepVersion(c) /\ DirectionOf(c)' = DirectionOf(c)
    /\ MarkerOf(c)' = MarkerOf(c)
  BY SameStep
<1> lock = c /\ Migrating(c) /\ ~done[c] /\ db.history = expected[c] /\ db.marker = MarkerOf(c)
  BY DEF ClientOK, LockOK, Holds, HeldOK, PathOK, Forward, Labels
<1>1. Alone(c)
  BY DEF Alone, TypeOK
<1>2. db'.history = db.history /\ db'.marker = db.marker /\ Moves(db, db') /\ Valid(db')
  <2>1. "partial" \in Effect
    BY DEF Effect
  <2> QED BY <2>1, ScriptIsAMove
<1>3. ServerOK'
  <2>1. orphan' = None
    BY ClientAssumption DEF ServerOK
  <2>2. Valid(db)'
    BY <1>2
  <2> QED BY <1>2, <2>1, <2>2, ServerMoves
<1>4. PlanOK(c)'
  BY DEF PlanOK, Remaining, Migrating, Busy, Preparing, TypeOK
<1>5. HeldOK(c)'
  <2>1. pc'[c] = "Scripting"
    BY DEF TypeOK
  <2> QED BY <1>2, <2>1 DEF HeldOK, Migrating
<1>6. ReportOK(c)'
  BY DEF ReportOK, LateFailure, TypeOK
<1>7. KeepsEvidence(c)
  BY DEF KeepsEvidence, Resolving, TypeOK, Migrating
<1> QED BY <1>1, <1>3, <1>4, <1>5, <1>6, <1>7, LedgerFrame

\* The script ends.
LEMMA EndScriptMoves ==
    ASSUME IInv, IInv', LInv, NEW c \in Client, EndScript(c)
    PROVE  LInv'
<1> /\ TypeOK /\ TypeOK' /\ ClientOK(c) /\ ServerOK
    /\ PlanOK(c) /\ HeldOK(c) /\ EvidenceOK(c) /\ ReportOK(c)
  BY DEF IInv, LInv
<1> USE DEF EndScript, Goto, session, request
<1> /\ StepVersion(c)' = StepVersion(c) /\ DirectionOf(c)' = DirectionOf(c)
    /\ MarkerOf(c)' = MarkerOf(c)
  BY SameStep
<1> lock = c /\ Migrating(c) /\ ~done[c] /\ ~Transactional
  BY DEF ClientOK, LockOK, Holds, HeldOK, PathOK, Forward, Labels
<1>1. Alone(c)
  BY DEF Alone, TypeOK
<1>2. Moves(db, db') /\ Valid(db') /\ db'.schema[StepVersion(c)] = Outcome(DirectionOf(c))
  <2>1. Outcome(DirectionOf(c)) \in Effect
    BY DEF Effect, Outcome
  <2> QED BY <2>1, ScriptIsAMove
<1>3. ServerOK'
  <2>1. orphan' = None
    BY ClientAssumption DEF ServerOK
  <2>2. Valid(db)'
    BY <1>2
  <2> QED BY <1>2, <2>1, <2>2, ServerMoves
<1>4. PlanOK(c)'
  BY DEF PlanOK, Remaining, Migrating, Busy, Preparing, TypeOK
<1>5. HeldOK(c)'
  <2>1. pc'[c] = "Begin"
    BY DEF TypeOK
  <2> QED BY <1>2, <2>1 DEF HeldOK, Migrating
<1>6. ReportOK(c)'
  BY DEF ReportOK, LateFailure, TypeOK
<1>7. KeepsEvidence(c)
  BY DEF KeepsEvidence, Resolving, TypeOK, Migrating
<1> QED BY <1>1, <1>3, <1>4, <1>5, <1>6, <1>7, LedgerFrame

\* Or it ends and the backend closes the session.
LEMMA RejectScriptMoves ==
    ASSUME IInv, IInv', LInv, NEW c \in Client, RejectScript(c)
    PROVE  LInv'
<1> /\ TypeOK /\ TypeOK' /\ ClientOK(c) /\ ServerOK
    /\ PlanOK(c) /\ HeldOK(c) /\ EvidenceOK(c) /\ ReportOK(c)
  BY DEF IInv, LInv
<1> USE DEF RejectScript, Throw, request
<1> /\ StepVersion(c)' = StepVersion(c) /\ DirectionOf(c)' = DirectionOf(c)
    /\ MarkerOf(c)' = MarkerOf(c)
  BY SameStep
<1> lock = c /\ Migrating(c) /\ ~done[c]
  BY DEF ClientOK, LockOK, Holds, HeldOK, PathOK, Forward, Labels
<1>1. Alone(c)
  BY DEF Alone, TypeOK
<1>2. Moves(db, db') /\ Valid(db')
  <2>1. Outcome(DirectionOf(c)) \in Effect
    BY DEF Effect, Outcome
  <2> QED BY <2>1, ScriptIsAMove
<1>3. ServerOK'
  <2>1. orphan' = None
    BY DEF Abandon
  <2>2. Valid(db)'
    BY <1>2
  <2> QED BY <1>2, <2>1, <2>2, ServerMoves
<1>4. PlanOK(c)'
  BY DEF PlanOK, Remaining, Migrating, Busy, Preparing, TypeOK
<1>5. HeldOK(c)'
  BY DEF HeldOK, TypeOK
<1>6. ReportOK(c)'
  BY DEF ReportOK, LateFailure, TypeOK
<1>7. KeepsEvidence(c)
  BY DEF KeepsEvidence, Resolving, TypeOK, Migrating
<1> QED BY <1>1, <1>3, <1>4, <1>5, <1>6, <1>7, LedgerFrame

\* The transaction starts from the committed contents, which are those the call
\* was planned on.
LEMMA BeginHistoryMoves ==
    ASSUME IInv, IInv', LInv, NEW c \in Client, BeginHistory(c)
    PROVE  LInv'
<1> /\ TypeOK /\ TypeOK' /\ ClientOK(c) /\ ServerOK
    /\ PlanOK(c) /\ HeldOK(c) /\ EvidenceOK(c) /\ ReportOK(c)
  BY DEF IInv, LInv
<1> USE DEF BeginHistory, Continue, Goto, Throw, server, request
<1> /\ StepVersion(c)' = StepVersion(c) /\ DirectionOf(c)' = DirectionOf(c)
    /\ MarkerOf(c)' = MarkerOf(c)
  BY SameStep
<1> lock = c
  BY DEF ClientOK, LockOK, Holds
<1>1. Alone(c)
  BY DEF Alone, TypeOK
<1>2. ServerOK'
  BY ServerQuiet
<1>3. PlanOK(c)'
  BY DEF PlanOK, Remaining, Migrating, Busy, Preparing, TypeOK
<1>4. HeldOK(c)'
  <2>1. pc'[c] \in {"EndTxn", IF Migrating(c) /\ Transactional THEN "Exec" ELSE "Record"}
    BY DEF TypeOK
  <2>2. txn'[c] = db
    BY DEF HeldOK, TypeOK
  <2>3. ASSUME pc'[c] # "EndTxn"
        PROVE  /\ db.history = expected[c]
               /\ ~Transactional /\ Migrating(c) => db.marker = MarkerOf(c)
               /\ call[c].op = "resolve" => db.marker = seen[c]
    BY <2>3 DEF RequireHistory, TypeOK
  <2>4. ~Transactional /\ Migrating(c) => db.schema[StepVersion(c)] = Outcome(DirectionOf(c))
    BY DEF HeldOK
  <2>5. call[c].op = "baseline" => db.marker = None
    BY DEF HeldOK
  <2> QED BY <2>1, <2>2, <2>3, <2>4, <2>5 DEF HeldOK, Migrating
<1>5. ReportOK(c)'
  BY DEF ReportOK, LateFailure, TypeOK, ClientOK, PathOK, Forward, Labels
<1>6. KeepsEvidence(c)
  BY DEF KeepsEvidence, Resolving, TypeOK
<1> QED BY <1>1, <1>2, <1>3, <1>4, <1>5, <1>6, LedgerFrame

\* A transactional script works on the transaction.
LEMMA ExecuteScriptMoves ==
    ASSUME IInv, IInv', LInv, NEW c \in Client, ExecuteScript(c)
    PROVE  LInv'
<1> /\ TypeOK /\ TypeOK' /\ ClientOK(c) /\ ServerOK
    /\ PlanOK(c) /\ HeldOK(c) /\ EvidenceOK(c) /\ ReportOK(c)
  BY DEF IInv, LInv
<1> USE DEF ExecuteScript, Goto, server, session, request
<1> /\ StepVersion(c)' = StepVersion(c) /\ DirectionOf(c)' = DirectionOf(c)
    /\ MarkerOf(c)' = MarkerOf(c)
  BY SameStep
<1> lock = c /\ Migrating(c) /\ txn[c] = db /\ db.history = expected[c] /\ Transactional
  BY DEF ClientOK, LockOK, Holds, HeldOK, PathOK
<1>1. Alone(c)
  BY DEF Alone, TypeOK
<1>2. ServerOK'
  BY ServerQuiet
<1>3. PlanOK(c)'
  BY DEF PlanOK, Remaining, Migrating, Busy, Preparing, TypeOK
<1>4. HeldOK(c)'
  <2>1. pc'[c] = "Record"
    BY DEF TypeOK
  <2>2. db.marker = None
    BY DEF ServerOK, Sound
  <2>3. /\ txn'[c].marker = None
        /\ txn'[c].schema = [db.schema EXCEPT ![StepVersion(c)] = Outcome(DirectionOf(c))]
    BY <2>2 DEF TypeOK, Database
  <2> QED BY <2>1, <2>3 DEF HeldOK, Migrating
<1>5. ReportOK(c)'
  BY DEF ReportOK, LateFailure, TypeOK
<1>6. KeepsEvidence(c)
  BY DEF KeepsEvidence, Resolving, TypeOK, Migrating
<1> QED BY <1>1, <1>2, <1>3, <1>4, <1>5, <1>6, LedgerFrame

\* What apply(), baseline() and resolve() are about to commit is one move of
\* the ledger, in order by their own catalog.
LEMMA RecordedIsAMove ==
    ASSUME IInv, LInv, NEW c \in Client, pc[c] = "Record", conn[c] = "up",
           RecordFault(c, txn[c].history) = "Ok"
    PROVE  /\ Moves(db, Recorded(c))
           /\ Fault(Catalog[c], Recorded(c).history, Recorded(c).marker) = "Ok"
           /\ Migrating(c) => Planned(Catalog[c], Recorded(c).history, DirectionOf(c),
                                      todo[c] \ {StepVersion(c)})
<1> TypeOK /\ ClientOK(c) /\ ServerOK /\ PlanOK(c) /\ HeldOK(c) /\ EvidenceOK(c)
  BY DEF IInv, LInv
<1> DEFINE new == Written(c, txn[c].history)
           e == Recorded(c)
           v == StepVersion(c)
           way == DirectionOf(c)
<1>1. /\ pc[c] \in Busy /\ pc[c] \in Preparing
      /\ txn[c] \in Database /\ txn[c].history \in History /\ db \in Database
      /\ Catalog[c] \in CatalogType
      /\ db.history = expected[c] /\ db.history \in History
  BY CatalogAssumption DEF Busy, Preparing, TypeOK, Database, ClientOK, TxnOK, Opened, HeldOK
<1>2. /\ v \in Versions /\ way \in Direction /\ Catalog[c][v] \in Entry /\ v \in todo[c]
      /\ MarkerOf(c) \in Marker
  BY <1>1, StepVersionKnown
<1>3. new \in History
  BY <1>1, WrittenTyped
<1>4. e.history = new /\ e.marker = None /\ e.schema = txn[c].schema
  BY <1>1 DEF Recorded, MarkerAfter, Database
<1>5. HistoryFault(Catalog[c], new) = "Ok" /\ Readback(c, expected[c], new)
  BY DEF RecordFault, Migrating
<1>6. Fault(Catalog[c], e.history, e.marker) = "Ok"
  BY <1>4, <1>5 DEF Fault, MarkerFault
<1>7. CASE Migrating(c)
  <2>1. /\ Planned(Catalog[c], expected[c], way, todo[c])
        /\ Ready(expected[c], v, way)
    BY <1>1, <1>7, StepIsReady
  <2>2. Follows(expected[c], new, v, way)
    BY <1>1, <1>5, <1>7, <2>1, ReadbackFollows
  <2>3. Planned(Catalog[c], new, way, todo[c] \ {v})
    BY <1>1, <1>2, <1>3, <1>5, <2>1, <2>2, PlanGoesOn
  <2>4. CASE Transactional
    <3>1. db.marker = None
      BY <2>4 DEF ServerOK, Sound
    <3>2. e.schema = [db.schema EXCEPT ![v] = Outcome(way)]
      BY <1>4, <1>7, <2>4 DEF HeldOK
    <3>3. CarefulOperator => db.schema[v] = Source(way)
      BY <1>1, <1>2, <2>1, <3>1, ReadyIsSource DEF ServerOK, Sound
    <3>4. Migrates(db, e)
      BY <1>1, <1>2, <1>4, <2>2, <2>4, <3>1, <3>2, <3>3 DEF Migrates
    <3> QED BY <1>4, <1>6, <2>3, <3>4 DEF Moves
  <2>5. CASE ~Transactional
    <3>1. txn[c] = db /\ db.marker = MarkerOf(c) /\ db.schema[v] = Outcome(way)
      BY <1>7, <2>5 DEF HeldOK
    <3>2. db.marker # None /\ db.marker.version = v /\ db.marker.direction = way
      BY <1>2, <3>1, NoneAssumption DEF MarkerOf
    <3>3. Closes(db, e)
      BY <1>1, <1>4, <2>2, <3>1, <3>2 DEF Closes
    <3> QED BY <1>4, <1>6, <2>3, <3>3 DEF Moves
  <2> QED BY <2>4, <2>5
<1>8. CASE call[c].op = "baseline"
  <2>1. txn[c] = db /\ db.marker = None /\ Keys(db.history) = {} /\ ~Migrating(c)
    BY <1>1, <1>8 DEF HeldOK, PlanOK, Migrating
  <2>2. new = Accepted(c, db.history)
    BY <1>8, <2>1 DEF Written
  <2>3. ASSUME NEW w \in Keys(new) PROVE new[w].kind = "baseline"
    <3>1. w \in Versions /\ new[w] # None /\ db.history[w] = None
      BY <2>1 DEF Keys
    <3> QED BY <2>2, <3>1 DEF Accepted
  <2>4. Keys(new) = Baselined(new)
    BY <2>3 DEF Baselined
  <2>5. Accepts(db, e)
    BY <1>4, <2>1, <2>4 DEF Accepts
  <2> QED BY <1>6, <2>1, <2>5 DEF Moves
<1>9. CASE call[c].op = "resolve"
  <2>1. /\ txn[c] = db /\ db.marker = seen[c] /\ seen[c] # None /\ ~Migrating(c)
        /\ seen[c].version = call[c].target /\ todo[c] = {call[c].target}
        /\ Fault(Catalog[c], db.history, db.marker) = "Ok"
    BY <1>1, <1>9 DEF HeldOK, PlanOK, Migrating
  <2>2. db.marker \in Marker /\ v = db.marker.version /\ way = db.marker.direction
    BY <1>2, <1>9, <2>1 DEF TypeOK, DirectionOf
  <2>3. Ready(db.history, v, way)
    BY <1>1, <2>1, <2>2, MarkerIsReady
  <2>4. CarefulOperator => db.schema[v] = IF call[c].claim = "Completed" THEN Outcome(way) ELSE Source(way)
    BY <1>9, <2>2 DEF EvidenceOK, Resolving
  <2>5. CASE call[c].claim = "Completed"
    <3>1. new = Changed(c, db.history, v, way)
      BY <1>9, <2>1, <2>5 DEF Written
    <3>2. CASE way = "Up"
      <4>1. Gains(db.history, new, v)
        BY <1>2, <2>3, <3>1, <3>2 DEF Gains, Ready, Changed, Entry
      <4> QED BY <1>4, <1>6, <2>1, <2>2, <2>4, <2>5, <3>2, <4>1 DEF Follows, Closes, Moves
    <3>3. CASE way = "Down"
      <4>1. Loses(db.history, new, v)
        BY <2>3, <3>1, <3>3 DEF Loses, Ready, Changed
      <4> QED BY <1>4, <1>6, <2>1, <2>2, <2>4, <2>5, <3>3, <4>1 DEF Follows, Closes, Moves
    <3> QED BY <1>2, <3>2, <3>3 DEF Direction
  <2>6. CASE call[c].claim # "Completed"
    <3>1. new = db.history
      BY <1>9, <2>1, <2>6 DEF Written
    <3>2. Closes(db, e)
      BY <1>4, <2>1, <2>2, <2>4, <2>6, <3>1 DEF Closes
    <3> QED BY <1>6, <2>1, <3>2 DEF Moves
  <2> QED BY <2>5, <2>6
<1> QED BY <1>1, <1>7, <1>8, <1>9 DEF PlanOK, Migrating

\* The history change is made in the transaction.
LEMMA RecordHistoryMoves ==
    ASSUME IInv, IInv', LInv, NEW c \in Client, RecordHistory(c)
    PROVE  LInv'
<1> /\ TypeOK /\ TypeOK' /\ ClientOK(c) /\ ServerOK
    /\ PlanOK(c) /\ HeldOK(c) /\ EvidenceOK(c) /\ ReportOK(c)
  BY DEF IInv, LInv
<1> USE DEF RecordHistory, Continue, Goto, Throw, server, session, request
<1> /\ StepVersion(c)' = StepVersion(c) /\ DirectionOf(c)' = DirectionOf(c)
    /\ MarkerOf(c)' = MarkerOf(c)
  BY SameStep
<1> lock = c
  BY DEF ClientOK, LockOK, Holds
<1>1. Alone(c)
  BY DEF Alone, TypeOK
<1>2. ServerOK'
  BY ServerQuiet
<1>3. PlanOK(c)'
  BY DEF PlanOK, Remaining, Migrating, Busy, Preparing, TypeOK
<1>4. HeldOK(c)'
  <2>1. \/ pc'[c] = "EndTxn"
        \/ pc'[c] = "Commit" /\ RecordFault(c, txn[c].history) = "Ok" /\ txn'[c] = Recorded(c)
    BY DEF TypeOK
  <2>2. CASE pc'[c] = "EndTxn"
    BY <2>2 DEF HeldOK
  <2>3. CASE pc'[c] = "Commit" /\ RecordFault(c, txn[c].history) = "Ok" /\ txn'[c] = Recorded(c)
    <3>1. /\ Moves(db, txn'[c])
          /\ Fault(Catalog[c], txn'[c].history, txn'[c].marker) = "Ok"
          /\ Migrating(c) => Planned(Catalog[c], txn'[c].history, DirectionOf(c),
                                     todo[c] \ {StepVersion(c)})
      BY <2>3, RecordedIsAMove
    <3> QED BY <2>3, <3>1 DEF HeldOK, Migrating
  <2> QED BY <2>1, <2>2, <2>3
<1>5. ReportOK(c)'
  BY DEF ReportOK, LateFailure, TypeOK, ClientOK, PathOK, Forward, Labels
<1>6. KeepsEvidence(c)
  BY DEF KeepsEvidence, Resolving, TypeOK
<1> QED BY <1>1, <1>2, <1>3, <1>4, <1>5, <1>6, LedgerFrame

\* The transaction commits: a move, and the rest of the plan is a plan.
LEMMA CommitHistoryMoves ==
    ASSUME IInv, IInv', LInv, NEW c \in Client, CommitHistory(c)
    PROVE  LInv'
<1> /\ TypeOK /\ TypeOK' /\ ClientOK(c) /\ ServerOK
    /\ PlanOK(c) /\ HeldOK(c) /\ EvidenceOK(c) /\ ReportOK(c)
  BY DEF IInv, LInv
<1> USE DEF CommitHistory, Goto, session
<1> /\ StepVersion(c)' = StepVersion(c) /\ DirectionOf(c)' = DirectionOf(c)
    /\ MarkerOf(c)' = MarkerOf(c)
  BY SameStep
<1> lock = c
  BY DEF ClientOK, LockOK, Holds
<1>0. pc'[c] = (IF Transactional THEN "EndTxn" ELSE "Finish") /\ done'[c] /\ err'[c] = err[c]
  BY DEF TypeOK
<1>1. Alone(c)
  BY DEF Alone, TypeOK
<1>2. ServerOK'
  <2>1. Moves(db, db') /\ Fault(Catalog[c], db'.history, db'.marker) = "Ok"
    BY DEF HeldOK
  <2>2. Valid(db)'
    BY <2>1 DEF Valid
  <2>3. orphan' = None
    BY ClientAssumption DEF ServerOK
  <2> QED BY <2>1, <2>2, <2>3, ServerMoves
<1>3. PlanOK(c)'
  <2>1. Migrating(c) => Planned(Catalog[c], expected'[c], DirectionOf(c), todo[c] \ {StepVersion(c)})
    BY DEF HeldOK, TypeOK
  <2> QED BY <1>0, <2>1 DEF PlanOK, Remaining, Migrating, Busy, Preparing
<1>4. HeldOK(c)'
  BY <1>0 DEF HeldOK
<1>5. ReportOK(c)'
  BY <1>0 DEF ReportOK, LateFailure, ClientOK, PathOK, Forward, Labels
<1>6. KeepsEvidence(c)
  BY <1>0 DEF KeepsEvidence, Resolving
<1> QED BY <1>1, <1>2, <1>3, <1>4, <1>5, <1>6, LedgerFrame

\* Or the server is left to commit it.
LEMMA CommitUncertainMoves ==
    ASSUME IInv, IInv', LInv, NEW c \in Client, CommitUncertain(c)
    PROVE  LInv'
<1> /\ TypeOK /\ TypeOK' /\ ClientOK(c) /\ ServerOK
    /\ PlanOK(c) /\ HeldOK(c) /\ EvidenceOK(c) /\ ReportOK(c)
  BY DEF IInv, LInv
<1> USE DEF CommitUncertain, Throw, request
<1> /\ StepVersion(c)' = StepVersion(c) /\ DirectionOf(c)' = DirectionOf(c)
    /\ MarkerOf(c)' = MarkerOf(c)
  BY SameStep
<1>1. Alone(c)
  BY DEF Alone, TypeOK
<1>2. ServerOK'
  <2>1. ASSUME lock = c PROVE Moves(db, txn[c]) /\ Valid(txn[c])
    BY <2>1 DEF ClientOK, LockOK, Holds, HeldOK, Valid
  <2> QED BY <2>1, ServerOrphans
<1>3. PlanOK(c)'
  BY DEF PlanOK, Remaining, Migrating, Busy, Preparing, TypeOK
<1>4. HeldOK(c)'
  BY DEF HeldOK, TypeOK
<1>5. ReportOK(c)'
  BY DEF ReportOK, LateFailure, TypeOK, ClientOK, PathOK, Forward, Labels
<1>6. KeepsEvidence(c)
  BY DEF KeepsEvidence, Resolving, TypeOK, Abandon
<1> QED BY <1>1, <1>2, <1>3, <1>4, <1>5, <1>6, LedgerFrame

\* A session lost in the middle of a script may still run it to its end.
LEMMA UnattendedIsAMove ==
    ASSUME IInv, LInv, NEW c \in Client, lock = c
    PROVE  Unattended(c) = None \/ (Moves(db, Unattended(c)) /\ Valid(Unattended(c)))
<1>1. CASE pc[c] = "Scripting"
  <2>1. conn[c] = "up"
    BY DEF IInv, ClientOK, LockOK, Holds
  <2>2. Outcome(DirectionOf(c)) \in Effect
    BY DEF Effect, Outcome
  <2> QED BY <1>1, <2>1, <2>2, ScriptIsAMove DEF Unattended
<1>2. CASE pc[c] # "Scripting"
  BY <1>2 DEF Unattended
<1> QED BY <1>1, <1>2

\* The session is lost.
LEMMA DropMoves ==
    ASSUME IInv, IInv', LInv, NEW c \in Client, Drop(c)
    PROVE  LInv'
<1> /\ TypeOK /\ TypeOK' /\ ClientOK(c) /\ ServerOK
    /\ PlanOK(c) /\ HeldOK(c) /\ EvidenceOK(c) /\ ReportOK(c)
  BY DEF IInv, LInv
<1> USE DEF Drop, request
<1> /\ StepVersion(c)' = StepVersion(c) /\ DirectionOf(c)' = DirectionOf(c)
    /\ MarkerOf(c)' = MarkerOf(c)
  BY SameStep
<1>1. Alone(c)
  BY DEF Alone, TypeOK
<1>2. ServerOK'
  BY UnattendedIsAMove, ServerOrphans
<1>3. PlanOK(c)'
  BY DEF PlanOK, Remaining, Migrating, Busy, Preparing, TypeOK
<1>4. HeldOK(c)'
  BY DEF HeldOK, TypeOK
<1>5. ReportOK(c)'
  BY DEF ReportOK, LateFailure, TypeOK
<1>6. KeepsEvidence(c)
  BY ClientAssumption DEF KeepsEvidence, Resolving, TypeOK, Abandon, Unattended
<1> QED BY <1>1, <1>2, <1>3, <1>4, <1>5, <1>6, LedgerFrame

\* The process dies.
LEMMA CrashMoves ==
    ASSUME IInv, IInv', LInv, NEW c \in Client, Crash(c)
    PROVE  LInv'
<1> /\ TypeOK /\ TypeOK' /\ ClientOK(c) /\ ServerOK
    /\ PlanOK(c) /\ HeldOK(c) /\ EvidenceOK(c) /\ ReportOK(c)
  BY DEF IInv, LInv
<1> USE DEF Crash
<1>0. pc'[c] = "Idle" /\ call'[c] = NoCall /\ ~done'[c]
  BY DEF TypeOK
<1>1. Alone(c)
  BY DEF Alone, TypeOK
<1>2. ServerOK'
  BY UnattendedIsAMove, ServerOrphans
<1>3. PlanOK(c)'
  BY <1>0 DEF PlanOK, Busy, Preparing
<1>4. HeldOK(c)'
  BY <1>0 DEF HeldOK
<1>5. ReportOK(c)'
  BY <1>0 DEF ReportOK
<1>6. KeepsEvidence(c)
  BY <1>0, ClientAssumption DEF KeepsEvidence, NoCall, Abandon, Unattended
<1> QED BY <1>1, <1>2, <1>3, <1>4, <1>5, <1>6, LedgerFrame

-----------------------------------------------------------------------------
(* Steps that begin a call, plan it, go on to the next step or return.     *)

\* A call starts; a careful operator's resolution starts on evidence.
LEMMA CallMoves ==
    ASSUME IInv, IInv', LInv, NEW c \in Client, NEW k \in Calls, Call(c, k)
    PROVE  LInv'
<1> /\ TypeOK /\ TypeOK' /\ ClientOK(c) /\ ServerOK
    /\ PlanOK(c) /\ HeldOK(c) /\ ReportOK(c) /\ \A x \in Client : EvidenceOK(x)
  BY DEF IInv, LInv
<1> USE DEF Call, Continue, Goto, Throw, server, session
<1>0. /\ pc'[c] \in {"Status", "Return"} /\ call'[c] = k /\ ~done'[c]
      /\ pc'[c] = "Return" => err'[c] # "Ok"
  BY DEF TypeOK, ClientOK, PathOK, Forward, Labels
<1>1. Alone(c)
  BY DEF Alone, TypeOK
<1>2. ServerOK'
  BY ServerQuiet
<1>3. PlanOK(c)'
  BY <1>0 DEF PlanOK, Busy, Preparing
<1>4. HeldOK(c)'
  BY <1>0 DEF HeldOK
<1>5. ReportOK(c)'
  BY <1>0 DEF ReportOK
<1>6. ASSUME NEW x \in Client, CarefulOperator, call'[x].op = "resolve"
      PROVE  /\ \A d \in Client \ {x} : call'[d].op # "resolve"
             /\ pc'[x] \in Resolving =>
                   /\ db'.marker # None
                   /\ db'.schema[db'.marker.version] =
                         IF call'[x].claim = "Completed" THEN Outcome(db'.marker.direction)
                                                         ELSE Source(db'.marker.direction)
                   /\ orphan' = None
                   /\ \A d \in Client \ {x} : lock' = d => pc'[d] \in {"Check", "EndLock"}
  <2>1. CASE k.op = "resolve"
    <3>1. Evidence(k)
      BY <1>6, <2>1
    <3>2. x = c /\ \A d \in Client \ {x} : call'[d].op # "resolve"
      BY <1>1, <1>6, <3>1 DEF Alone, Evidence
    <3>3. orphan' = None
      BY <3>1 DEF Evidence, ServerOK
    <3> QED BY <1>0, <3>1, <3>2, <3>3, ClientAssumption DEF Evidence
  <2>2. CASE k.op # "resolve"
    <3>1. x # c /\ call'[x] = call[x] /\ pc'[x] = pc[x]
      BY <1>0, <1>1, <1>6, <2>2 DEF Alone
    <3>2. \A d \in Client \ {x} : call'[d].op # "resolve"
      BY <1>0, <1>1, <1>6, <2>2, <3>1 DEF Alone, EvidenceOK
    <3>3. lock # c
      BY DEF ClientOK, LockOK, Holds
    <3> QED BY <1>1, <1>6, <3>1, <3>2, <3>3 DEF Alone, EvidenceOK
  <2> QED BY <2>1, <2>2
<1>7. \A x \in Client : EvidenceOK(x)'
  BY <1>6 DEF EvidenceOK
<1> QED BY <1>1, <1>2, <1>3, <1>4, <1>5, <1>7, OthersKept

\* What status() and the planning accept, for each operation.
LEMMA AcceptedPlan ==
    ASSUME TypeOK, NEW c \in Client, NEW h \in History, NEW m \in Marker \cup {None},
           Refusal(c, h, m) = "Ok", PlanOf(c, h) # {}
    PROVE  /\ call[c].op \in {"up", "down", "baseline", "resolve"}
           /\ call[c].op = "up" => Planned(Catalog[c], h, "Up", PlanOf(c, h))
           /\ call[c].op = "down" => Planned(Catalog[c], h, "Down", PlanOf(c, h))
           /\ call[c].op \in {"baseline", "resolve"} => PlanOf(c, h) = {call[c].target}
           /\ call[c].op = "baseline" => Keys(h) = {}
           /\ call[c].op = "resolve" =>
                 /\ ~Transactional
                 /\ m # None /\ m.version = call[c].target
                 /\ Fault(Catalog[c], h, m) = "Ok"
<1>1. call[c].op \in {"up", "down", "baseline", "resolve"}
  BY DEF PlanOf
<1>2. Catalog[c] \in CatalogType /\ "Up" \in Direction /\ "Down" \in Direction
  BY CatalogAssumption DEF Direction
<1>3. call[c].target \in Nat
  <2>1. call[c].target \in Versions \cup {0}
    BY DEF TypeOK, Calls, NoCall, Targets
  <2>2. \A w \in Versions : w \in Nat
    BY VersionsAssumption
  <2> QED BY <2>1, <2>2
<1>4. call[c].op = "up" => Planned(Catalog[c], h, "Up", PlanOf(c, h))
  BY <1>2, <1>3, SelectedIsPlanned DEF Refusal, PlanOf
<1>5. call[c].op = "down" => Planned(Catalog[c], h, "Down", PlanOf(c, h))
  BY <1>2, <1>3, SelectedIsPlanned DEF Refusal, PlanOf
<1>6. call[c].op \in {"baseline", "resolve"} => PlanOf(c, h) = {call[c].target}
  BY DEF PlanOf
<1>7. call[c].op = "baseline" => Keys(h) = {}
  BY DEF Refusal, PlanRefusal
<1>8. call[c].op = "resolve" => /\ ~Transactional
                                /\ m # None /\ m.version = call[c].target
                                /\ Fault(Catalog[c], h, m) = "Ok"
  BY DEF Refusal
<1> QED BY <1>1, <1>4, <1>5, <1>6, <1>7, <1>8

\* status() is read and the plan made.
LEMMA ReadStatusMoves ==
    ASSUME IInv, IInv', LInv, NEW c \in Client, ReadStatus(c)
    PROVE  LInv'
<1> /\ TypeOK /\ TypeOK' /\ ClientOK(c) /\ ServerOK
    /\ PlanOK(c) /\ HeldOK(c) /\ EvidenceOK(c) /\ ReportOK(c)
  BY DEF IInv, LInv
<1> USE DEF ReadStatus, Continue, Goto, Throw, server, session
<1> DEFINE code == Refusal(c, db.history, db.marker)
           plan == IF code = "Ok" THEN PlanOf(c, db.history) ELSE {}
<1>0. /\ pc'[c] \in {"Return", "Rebuild", "Lock"}
      /\ pc'[c] # "Return" => code = "Ok" /\ plan # {}
      /\ pc'[c] = "Return" /\ err'[c] = "Ok" => plan = {}
      /\ todo'[c] = plan /\ ~done'[c]
      /\ code = "Ok" => expected'[c] = db.history /\ seen'[c] = db.marker
      /\ call'[c].op = call[c].op /\ call'[c].claim = call[c].claim
      /\ ~Migrating(c) => call'[c].target = call[c].target
  <2>1. ~done[c] /\ err[c] = "Ok"
    BY DEF ClientOK, PathOK, Forward, Labels
  <2>2. \A d : StepEntry(c, d, plan) \in {"Rebuild", "Lock"}
    BY DEF StepEntry
  <2>3. /\ call'[c].op = call[c].op /\ call'[c].claim = call[c].claim
        /\ ~Migrating(c) => call'[c].target = call[c].target
    BY DEF TypeOK, Calls, NoCall
  <2> QED BY <2>1, <2>2, <2>3 DEF TypeOK
<1>1. Alone(c)
  BY DEF Alone, TypeOK
<1>2. ServerOK'
  BY ServerQuiet
<1>3. PlanOK(c)'
  <2> SUFFICES ASSUME pc'[c] # "Return" PROVE PlanOK(c)'
    BY DEF PlanOK, Busy, Preparing
  <2> DEFINE h == db.history
  <2>1. code = "Ok" /\ plan = PlanOf(c, h) /\ plan # {}
    BY <1>0
  <2>2. /\ call[c].op \in {"up", "down", "baseline", "resolve"}
        /\ call[c].op = "up" => Planned(Catalog[c], h, "Up", plan)
        /\ call[c].op = "down" => Planned(Catalog[c], h, "Down", plan)
        /\ call[c].op \in {"baseline", "resolve"} => plan = {call[c].target}
        /\ call[c].op = "baseline" => Keys(h) = {}
        /\ call[c].op = "resolve" =>
              /\ ~Transactional
              /\ db.marker # None /\ db.marker.version = call[c].target
              /\ Fault(Catalog[c], h, db.marker) = "Ok"
    <3>1. h \in History /\ db.marker \in Marker \cup {None}
      BY DEF TypeOK, Database
    <3> QED BY <2>1, <3>1, AcceptedPlan
  <2>3. /\ call[c].op = "up" => DirectionOf(c)' = "Up"
        /\ call[c].op = "down" => DirectionOf(c)' = "Down"
    BY <1>0 DEF DirectionOf
  <2>4. Remaining(c)' = plan
    BY <1>0 DEF Remaining
  <2>5. expected'[c] = h /\ seen'[c] = db.marker
    BY <1>0, <2>1
  <2> QED BY <1>0, <2>1, <2>2, <2>3, <2>4, <2>5 DEF PlanOK, Migrating
<1>4. HeldOK(c)'
  BY <1>0 DEF HeldOK
<1>5. ReportOK(c)'
  BY <1>0 DEF ReportOK
<1>6. KeepsEvidence(c)
  BY <1>0 DEF KeepsEvidence, Resolving, ClientOK, LockOK, Holds
<1> QED BY <1>1, <1>2, <1>3, <1>4, <1>5, <1>6, LedgerFrame

\* The end of a step: the next one, on the rest of the plan, or the return.
LEMMA EndStepMoves ==
    ASSUME IInv, IInv', LInv, NEW c \in Client, NEW code, pc[c] = "EndRebuild", EndStep(c, code),
           code # err[c] => err[c] = "Ok" /\ code = "SessionRestoration",
           Alone(c), UNCHANGED <<server, call, expected, seen, txn>>
    PROVE  LInv'
<1> /\ TypeOK /\ TypeOK' /\ ClientOK(c) /\ ServerOK
    /\ PlanOK(c) /\ HeldOK(c) /\ EvidenceOK(c) /\ ReportOK(c)
  BY DEF IInv, LInv
<1> USE DEF EndStep, Goto, Throw, server
<1> DEFINE rest == todo[c] \ {StepVersion(c)}
<1>0. \A d, S : StepEntry(c, d, S) \in {"Rebuild", "Lock"}
  BY DEF StepEntry
<1>1. CASE code = "Ok"
  <2>1. /\ err[c] = "Ok" /\ err'[c] = "Ok" /\ done[c] /\ ~done'[c] /\ todo'[c] = rest
        /\ pc'[c] \in {"Return", "Rebuild", "Lock"} /\ (pc'[c] = "Return" <=> rest = {})
    BY <1>0, <1>1 DEF TypeOK, ReportOK
  <2>2. ~Migrating(c) => rest = {}
    <3>1. StepVersion(c) \in todo[c]
      BY StepVersionKnown DEF Busy
    <3> QED BY <3>1 DEF PlanOK, Busy
  <2>3. call'[c] = call[c] /\ DirectionOf(c)' = DirectionOf(c)
    BY DEF DirectionOf
  <2>4. PlanOK(c)'
    <3>1. Migrating(c) => Planned(Catalog[c], expected[c], DirectionOf(c), rest)
      BY <2>1 DEF PlanOK, Remaining, Busy
    <3>2. Remaining(c)' = rest
      BY <2>1 DEF Remaining
    <3>3. pc'[c] # "Return" => call[c].op \in {"up", "down"}
      BY <2>1, <2>2 DEF Migrating
    <3> QED BY <2>1, <2>3, <3>1, <3>2, <3>3 DEF PlanOK, Busy, Preparing, Migrating
  <2>5. HeldOK(c)' /\ ReportOK(c)'
    BY <2>1 DEF HeldOK, ReportOK
  <2>6. KeepsEvidence(c)
    <3>1. pc'[c] # "Return" => call[c].op # "resolve"
      BY <2>1, <2>2 DEF Migrating
    <3>2. lock # c
      BY DEF ClientOK, LockOK, Holds
    <3> QED BY <2>1, <3>1, <3>2 DEF KeepsEvidence, Resolving
  <2>7. ServerOK'
    BY ServerQuiet
  <2> QED BY <2>4, <2>5, <2>6, <2>7, LedgerFrame
<1>2. CASE code # "Ok"
  <2>1. pc'[c] = "Return" /\ err'[c] = code /\ done'[c] = done[c] /\ todo'[c] = todo[c]
    BY <1>2 DEF TypeOK
  <2>2. PlanOK(c)' /\ HeldOK(c)'
    BY <2>1 DEF PlanOK, HeldOK, Busy, Preparing
  <2>3. ReportOK(c)'
    BY <1>2, <2>1 DEF ReportOK, LateFailure
  <2>4. KeepsEvidence(c)
    BY <2>1 DEF KeepsEvidence, Resolving, ClientOK, LockOK, Holds
  <2>5. ServerOK'
    BY ServerQuiet
  <2> QED BY <2>2, <2>3, <2>4, <2>5, LedgerFrame
<1> QED BY <1>1, <1>2

\* restoreAfterCommit() and ~SqliteRebuildSession end the step.
LEMMA EndRebuildSessionMoves ==
    ASSUME IInv, IInv', LInv, NEW c \in Client, EndRebuildSession(c)
    PROVE  LInv'
<1>1. Alone(c)
  BY DEF IInv, TypeOK, Alone, EndRebuildSession, EndStep, Goto, Throw
<1> QED BY <1>1, EndStepMoves DEF EndRebuildSession

\* A failed restoration ends it too, and the call with it.
LEMMA FailRestorationMoves ==
    ASSUME IInv, IInv', LInv, NEW c \in Client, FailRestoration(c)
    PROVE  LInv'
<1>1. Alone(c)
  BY DEF IInv, TypeOK, Alone, FailRestoration, EndStep, Goto, Throw
<1> QED BY <1>1, EndStepMoves DEF FailRestoration, RestorationCode

\* The call returns.
LEMMA ReturnMoves ==
    ASSUME IInv, IInv', LInv, NEW c \in Client, Return(c)
    PROVE  LInv'
<1> /\ TypeOK /\ TypeOK' /\ ClientOK(c) /\ ServerOK
    /\ PlanOK(c) /\ HeldOK(c) /\ EvidenceOK(c) /\ ReportOK(c)
  BY DEF IInv, LInv
<1> USE DEF Return, Throw, server
<1>0. pc'[c] = "Idle" /\ call'[c] = NoCall /\ ~done'[c]
  BY DEF TypeOK
<1>1. Alone(c)
  BY DEF Alone, TypeOK
<1>2. ServerOK'
  BY ServerQuiet
<1>3. PlanOK(c)'
  BY <1>0 DEF PlanOK, Busy, Preparing
<1>4. HeldOK(c)'
  BY <1>0 DEF HeldOK
<1>5. ReportOK(c)'
  BY <1>0 DEF ReportOK
<1>6. KeepsEvidence(c)
  BY <1>0 DEF KeepsEvidence, NoCall, ClientOK, LockOK, Holds
<1> QED BY <1>1, <1>2, <1>3, <1>4, <1>5, <1>6, LedgerFrame

-----------------------------------------------------------------------------
(* The environment's steps, the induction and the theorems.                *)

\* The initial state satisfies the invariant.
LEMMA LedgerInit == Init => LInv
<1> SUFFICES ASSUME Init PROVE LInv
  OBVIOUS
<1> USE DEF Init
<1>1. Keys(db.history) = {} /\ db.marker = None /\ orphan = None
  BY DEF Keys, NoHistory
<1>2. Sound(db)
  BY <1>1 DEF Sound, Agrees, NoHistory
<1>3. ASSUME NEW c \in Client PROVE Fault(Catalog[c], db.history, db.marker) = "Ok"
  BY <1>1 DEF Fault, HistoryFault, MarkerFault
<1>4. ServerOK
  BY <1>1, <1>2, <1>3 DEF ServerOK, Valid
<1>5. ASSUME NEW c \in Client
      PROVE  PlanOK(c) /\ HeldOK(c) /\ EvidenceOK(c) /\ ReportOK(c)
  BY DEF PlanOK, HeldOK, EvidenceOK, ReportOK, Busy, Preparing, NoCall
<1> QED BY <1>4, <1>5 DEF LInv

\* What a step outside the clients leaves alone.
LEMMA ServerFrame ==
    ASSUME IInv, IInv', LInv, ServerOK', UNCHANGED <<pc, session, request, txn, done, err>>,
           lock \notin Client,
           \A x \in Client : EvidenceOK(x)'
    PROVE  LInv'
<1> SUFFICES ASSUME NEW d \in Client PROVE PlanOK(d)' /\ HeldOK(d)' /\ ReportOK(d)'
  BY DEF LInv
<1> PlanOK(d) /\ HeldOK(d) /\ ReportOK(d) /\ LockOK(d)
  BY DEF LInv, IInv, ClientOK
<1> USE DEF session, request
<1> /\ StepVersion(d)' = StepVersion(d) /\ DirectionOf(d)' = DirectionOf(d)
    /\ MarkerOf(d)' = MarkerOf(d)
  BY SameStep
<1>1. PlanOK(d)'
  BY DEF PlanOK, Remaining, Migrating
<1>2. ReportOK(d)'
  BY DEF ReportOK, LateFailure
<1>3. ~Holds(d)
  BY DEF LockOK
<1>4. HeldOK(d)'
  BY <1>3 DEF HeldOK, Holds
<1> QED BY <1>1, <1>2, <1>4

\* The server ends a lost session: what was pending was one move away.
LEMMA OrphanEndsMoves ==
    ASSUME IInv, IInv', LInv, OrphanEnds
    PROVE  LInv'
<1> ServerOK /\ \A x \in Client : EvidenceOK(x)
  BY DEF LInv
<1> USE DEF OrphanEnds
<1>1. Moves(db, db') /\ (Client # {} => Valid(db'))
  <2>1. CASE db' = db
    BY <2>1 DEF ServerOK, Moves
  <2>2. CASE db' # db
    <3>1. orphan # None /\ db' = orphan
      BY <2>2
    <3> QED BY <3>1 DEF ServerOK
  <2> QED BY <2>1, <2>2
<1>2. ServerOK'
  <2>1. Client # {} => Valid(db)'
    BY <1>1
  <2> QED BY <1>1, <2>1, ServerMoves
<1>3. ASSUME NEW x \in Client PROVE EvidenceOK(x)'
  <2>1. orphan = None => db' = db
    OBVIOUS
  <2> QED BY <2>1, ClientAssumption DEF EvidenceOK, session, request
<1> QED BY <1>2, <1>3, ClientAssumption, ServerFrame

\* The operator repairs what the marker names.
LEMMA OperatorRepairMoves ==
    ASSUME IInv, IInv', LInv, OperatorRepair
    PROVE  LInv'
<1> TypeOK /\ ServerOK /\ \A x \in Client : EvidenceOK(x)
  BY DEF IInv, LInv
<1>1. PICK x \in {"absent", "applied"} : db' = [db EXCEPT !.schema[db.marker.version] = x]
  BY DEF OperatorRepair
<1>2. db.marker # None /\ lock = "free" /\ orphan' = orphan /\ x \in Effect
  BY DEF OperatorRepair, Effect
<1>3. db.marker.version \in Versions
  BY <1>2 DEF TypeOK, Database, Marker
<1>4. /\ db'.history = db.history /\ db'.marker = db.marker
      /\ db'.schema = [db.schema EXCEPT ![db.marker.version] = x]
  BY <1>1, <1>2, <1>3, EffectWritten DEF TypeOK
<1>5. Moves(db, db')
  BY <1>2, <1>4 DEF Moves, Works
<1>6. ServerOK'
  <2>1. Client # {} => Valid(db)'
    BY <1>4 DEF ServerOK, Valid
  <2>2. orphan' = None
    BY <1>2 DEF ServerOK
  <2> QED BY <1>5, <2>1, <2>2, ServerMoves
<1>7. ASSUME NEW y \in Client PROVE EvidenceOK(y)'
  BY DEF EvidenceOK, OperatorRepair, request
<1> QED BY <1>2, <1>6, <1>7, ClientAssumption, ServerFrame DEF OperatorRepair

\* Every step of the specification keeps the invariant.
LEMMA LedgerNext == IInv /\ IInv' /\ LInv /\ [Next]_vars => LInv'
<1> SUFFICES ASSUME IInv, IInv', LInv, [Next]_vars PROVE LInv'
  OBVIOUS
<1>1. ASSUME NEW c \in Client, Step(c) PROVE LInv'
  BY <1>1, ReadStatusMoves, StatusUncertainMoves, BeginRebuildMoves, FailRebuildMoves,
     AcquireLockMoves, RefuseLockMoves, CheckMoves, WriteMarkerMoves, MarkerUncertainMoves,
     BeginScriptMoves, EndScriptMoves, RejectScriptMoves, BeginHistoryMoves, ExecuteScriptMoves,
     RecordHistoryMoves, CommitHistoryMoves, CommitUncertainMoves, FinishLockMoves,
     EndTransactionMoves, EndMigrationLockMoves, EndRebuildSessionMoves, FailRestorationMoves,
     StatementFailsMoves, ReturnMoves
  DEF Step
<1>2. ASSUME NEW c \in Client, NEW k \in Calls, Call(c, k) PROVE LInv'
  BY <1>2, CallMoves
<1>3. ASSUME NEW c \in Client, StatementFails(c) \/ Reconnect(c) \/ Drop(c) \/ Crash(c) PROVE LInv'
  BY <1>3, StatementFailsMoves, ReconnectMoves, DropMoves, CrashMoves
<1>4. CASE OrphanEnds \/ OperatorRepair
  BY <1>4, OrphanEndsMoves, OperatorRepairMoves
<1>5. CASE UNCHANGED vars
  <2> USE <1>5 DEF vars
  <2>1. ServerOK'
    BY DEF LInv, ServerOK
  <2>2. ASSUME NEW c \in Client
        PROVE  PlanOK(c)' /\ HeldOK(c)' /\ EvidenceOK(c)' /\ ReportOK(c)'
    <3> PlanOK(c) /\ HeldOK(c) /\ EvidenceOK(c) /\ ReportOK(c)
      BY DEF LInv
    <3> /\ StepVersion(c)' = StepVersion(c) /\ DirectionOf(c)' = DirectionOf(c)
        /\ MarkerOf(c)' = MarkerOf(c)
      BY SameStep
    <3>1. PlanOK(c)' /\ ReportOK(c)'
      BY DEF PlanOK, Remaining, Migrating, ReportOK, LateFailure
    <3>2. HeldOK(c)'
      BY DEF HeldOK, Migrating
    <3>3. EvidenceOK(c)'
      BY DEF EvidenceOK
    <3> QED BY <3>1, <3>2, <3>3
  <2> QED BY <2>1, <2>2 DEF LInv
<1> QED BY <1>1, <1>2, <1>3, <1>4, <1>5 DEF Next

\* The invariant holds in every reachable state.
THEOREM LedgerInvariance == Spec => [](IInv /\ LInv)
<1>1. Init => IInv /\ LInv
  BY InitInv, LedgerInit
<1>2. (IInv /\ LInv) /\ [Next]_vars => (IInv /\ LInv)'
  BY NextInv, LedgerNext
<1> QED BY <1>1, <1>2, PTL DEF Spec

\* The committed contents change by moves only.
LEMMA EveryStepMoves ==
    ASSUME IInv, LInv, [Next]_vars
    PROVE  Moves(db, db')
<1> TypeOK /\ ServerOK
  BY DEF IInv, LInv
<1>0. db' = db => Moves(db, db')
  BY DEF Moves
<1>1. ASSUME NEW c \in Client, Step(c) PROVE Moves(db, db')
  <2> HeldOK(c)
    BY DEF LInv
  <2>1. CASE WriteMarker(c)
    <3>1. CASE MarkerCode(c) = "Ok"
      BY <2>1, <3>1, MarkerIsAMove DEF WriteMarker, MarkerCode
    <3>2. CASE MarkerCode(c) # "Ok"
      BY <1>0, <2>1, <3>2 DEF WriteMarker
    <3> QED BY <3>1, <3>2
  <2>2. CASE BeginScript(c) \/ EndScript(c) \/ RejectScript(c)
    <3>1. "partial" \in Effect /\ Outcome(DirectionOf(c)) \in Effect
      BY DEF Effect, Outcome
    <3> QED BY <2>2, <3>1, ScriptIsAMove DEF BeginScript, EndScript, RejectScript
  <2>3. CASE CommitHistory(c)
    BY <2>3 DEF CommitHistory, HeldOK
  <2>4. CASE \/ ReadStatus(c) \/ StatusUncertain(c) \/ BeginRebuild(c) \/ FailRebuild(c)
             \/ AcquireLock(c) \/ RefuseLock(c) \/ Check(c) \/ MarkerUncertain(c)
             \/ BeginHistory(c) \/ ExecuteScript(c) \/ RecordHistory(c) \/ CommitUncertain(c)
    BY <1>0, <2>4
    DEF ReadStatus, StatusUncertain, BeginRebuild, FailRebuild, AcquireLock, RefuseLock, Check,
        MarkerUncertain, BeginHistory, ExecuteScript, RecordHistory, CommitUncertain, server
  <2>5. CASE \/ FinishLock(c) \/ EndTransaction(c) \/ EndMigrationLock(c) \/ EndRebuildSession(c)
             \/ FailRestoration(c) \/ StatementFails(c) \/ Return(c)
    BY <1>0, <2>5
    DEF FinishLock, EndTransaction, EndMigrationLock, EndRebuildSession, FailRestoration,
        StatementFails, Return, server
  <2> QED BY <1>1, <2>1, <2>2, <2>3, <2>4, <2>5 DEF Step
<1>2. ASSUME NEW c \in Client, NEW k \in Calls, Call(c, k) PROVE Moves(db, db')
  BY <1>0, <1>2 DEF Call, server
<1>3. ASSUME NEW c \in Client, StatementFails(c) \/ Reconnect(c) \/ Drop(c) \/ Crash(c)
      PROVE  Moves(db, db')
  BY <1>0, <1>3 DEF StatementFails, Reconnect, Drop, Crash, server
<1>4. CASE OrphanEnds
  <2>1. db' # db => orphan # None /\ db' = orphan
    BY <1>4 DEF OrphanEnds
  <2> QED BY <1>0, <2>1 DEF ServerOK
<1>5. CASE OperatorRepair
  <2>1. PICK x \in {"absent", "applied"} : db' = [db EXCEPT !.schema[db.marker.version] = x]
    BY <1>5 DEF OperatorRepair
  <2>2. db.marker # None /\ db.marker.version \in Versions /\ x \in Effect
    BY <1>5 DEF OperatorRepair, TypeOK, Database, Marker, Effect
  <2>3. /\ db'.history = db.history /\ db'.marker = db.marker
        /\ db'.schema = [db.schema EXCEPT ![db.marker.version] = x]
    BY <2>1, <2>2, EffectWritten DEF TypeOK
  <2> QED BY <2>2, <2>3 DEF Moves, Works
<1>6. CASE UNCHANGED vars
  BY <1>0, <1>6 DEF vars
<1> QED BY <1>1, <1>2, <1>3, <1>4, <1>5, <1>6 DEF Next

\* What a step starts from and ends in, for the action properties.
LEMMA StepOfContents ==
    ASSUME IInv, IInv', LInv, [Next]_vars
    PROVE  db \in Database /\ db' \in Database /\ Sound(db) /\ Moves(db, db')
BY EveryStepMoves DEF IInv, TypeOK, LInv, ServerOK

\* Under a careful operator the schema is what the history says, but for the
\* version of a standing marker: a migration's script is in force exactly where
\* its row is, through crashes, lost commits and concurrent runners.
THEOREM SchemaFollowsHistory == Spec => []SchemaMatchesHistory
<1>1. IInv /\ LInv => SchemaMatchesHistory
  BY DEF LInv, ServerOK, Sound, SchemaMatchesHistory
<1> QED BY <1>1, LedgerInvariance, PTL

\* Under a careful operator no script is ever replayed: an up script starts on
\* nothing of its version, a down script on all of it.
THEOREM ScriptsNeverReplay == Spec => []NoReplay
<1>1. ASSUME IInv, LInv, CarefulOperator, NEW c \in Client
      PROVE  /\ pc[c] = "Script" /\ conn[c] = "up" => db.schema[StepVersion(c)] = Source(DirectionOf(c))
             /\ pc[c] = "Exec" /\ conn[c] = "up" => txn[c].schema[StepVersion(c)] = Source(DirectionOf(c))
  <2> TypeOK /\ ServerOK /\ HeldOK(c) /\ ClientOK(c)
    BY <1>1 DEF IInv, LInv
  <2>1. pc[c] = "Script" /\ conn[c] = "up" => db.schema[StepVersion(c)] = Source(DirectionOf(c))
    BY <1>1 DEF HeldOK
  <2>2. ASSUME pc[c] = "Exec", conn[c] = "up"
        PROVE  txn[c].schema[StepVersion(c)] = Source(DirectionOf(c))
    <3>1. txn[c] = db /\ db.history = expected[c] /\ Migrating(c) /\ Transactional
      BY <2>2 DEF HeldOK, ClientOK, PathOK
    <3>2. /\ StepVersion(c) \in Versions /\ DirectionOf(c) \in Direction
          /\ Ready(db.history, StepVersion(c), DirectionOf(c))
      BY <1>1, <2>2, <3>1, StepIsReady DEF Preparing
    <3>3. Agrees(db, StepVersion(c))
      BY <1>1, <3>1, <3>2 DEF ServerOK, Sound
    <3> QED BY <3>1, <3>2, <3>3, ReadyIsSource DEF TypeOK
  <2> QED BY <2>1, <2>2
<1>2. IInv /\ LInv => NoReplay
  BY <1>1 DEF NoReplay
<1> QED BY <1>2, LedgerInvariance, PTL

\* With at least one client, whatever was interrupted, some client's catalog
\* finds history and marker in order, so that its operator can resolve it.
THEOREM AlwaysRecoverable ==
    ASSUME Client # {}
    PROVE  Spec => []Recoverable
<1>1. IInv /\ LInv => Recoverable
  BY DEF LInv, ServerOK, Valid, Recoverable
<1> QED BY <1>1, LedgerInvariance, PTL

\* A call that returns normally has run its whole plan, and a step whose commit
\* was confirmed is reported as failed only by the restoration of the session
\* or, without transactional DDL, by its lock.
THEOREM ReportsAreHonest == Spec => []HonestReport
<1>1. IInv /\ LInv => HonestReport
  BY DEF LInv, ReportOK, LateFailure, HonestReport
<1> QED BY <1>1, LedgerInvariance, PTL

\* No step deletes or rewrites a baseline row.
THEOREM BaselinesStay == Spec => BaselineIsFloor
<1>1. IInv /\ IInv' /\ LInv /\ [Next]_vars =>
          [\A v \in Baselined(db.history) : db'.history[v] = db.history[v]]_vars
  BY StepOfContents, MovesAboveFloor
<1> QED BY <1>1, LedgerInvariance, PTL DEF Spec, BaselineIsFloor

\* While a marker stands, only its completion or its resolution changes the
\* history, and no other marker replaces it.
THEOREM MarkersBlock == Spec => MarkerBlocksWrites
<1>1. IInv /\ IInv' /\ LInv /\ [Next]_vars =>
          [db.marker # None => /\ db'.marker \in {db.marker, None}
                               /\ db'.history # db.history => db'.marker = None]_vars
  BY StepOfContents, MovesUnderMarker
<1> QED BY <1>1, LedgerInvariance, PTL DEF Spec, MarkerBlocksWrites

\* The history changes at its end, one row at a time, or is filled by a baseline.
THEOREM HistoryGrowsAtItsEnd == Spec => HistoryChangesAtItsEnd
<1>1. ASSUME IInv, IInv', LInv, [Next]_vars
      PROVE  \/ db'.history = db.history
             \/ OneRowMore(db.history, db'.history)
             \/ OneRowLess(db.history, db'.history)
             \/ Keys(db.history) = {} /\ Keys(db'.history) = Baselined(db'.history)
  <2>1. db \in Database /\ db' \in Database /\ Sound(db) /\ Moves(db, db')
    BY <1>1, StepOfContents
  <2>2. db.history \in History /\ db'.history \in History
    BY <2>1 DEF Database
  <2>3. ASSUME NEW v \in Versions, NEW way \in Direction, Follows(db.history, db'.history, v, way)
        PROVE  OneRowMore(db.history, db'.history) \/ OneRowLess(db.history, db'.history)
    BY <2>2, <2>3, FollowsOneRow
  <2> QED BY <2>1, <2>3, MovesAtTheEnd
<1>2. IInv /\ IInv' /\ LInv /\ [Next]_vars =>
          [\/ db'.history = db.history
           \/ OneRowMore(db.history, db'.history)
           \/ OneRowLess(db.history, db'.history)
           \/ Keys(db.history) = {} /\ Keys(db'.history) = Baselined(db'.history)]_vars
  BY <1>1
<1> QED BY <1>2, LedgerInvariance, PTL DEF Spec, HistoryChangesAtItsEnd

\* Under a careful operator the protocol implements MigrationLedger: whatever
\* the processes, the server and the network do, committed history, schema and
\* marker take its steps only.
THEOREM LedgerImplemented ==
    ASSUME CarefulOperator
    PROVE  Spec => ImplementsLedger
<1>1. Init => Ledger!Init
  BY DEF Init, Ledger!Init, NoHistory, Ledger!NoHistory
<1>2. IInv /\ IInv' /\ LInv /\ [Next]_vars => [Ledger!Next]_(Ledger!ledger)
  BY StepOfContents, MovesInLedger
<1> QED BY <1>1, <1>2, LedgerInvariance, PTL DEF Spec, ImplementsLedger, Ledger!Spec
=============================================================================
