------------------------ MODULE MigrationStateProofs -----------------------
(***************************************************************************)
(* Proofs about MigrationState for any number of processes, any catalogs   *)
(* and any versions: type correctness, mutual exclusion of writers, and    *)
(* that a finished call leaves its session clean.                          *)
(*                                                                         *)
(* The invariant IInv speaks of one client at a time and of the lock.  A   *)
(* step belongs to one client, so each action's proof shows ClientOK of    *)
(* that client, and lemma Frame carries it over for all the others.        *)
(***************************************************************************)
EXTENDS MigrationState, TLAPS, WellFoundedInduction

-----------------------------------------------------------------------------
(* The inductive invariant.                                                *)

\* Labels of a call that works on a step of its plan.
Busy == {"Rebuild", "Lock", "Check", "Mark", "Script", "Scripting", "Begin", "Exec", "Record",
         "Commit", "Finish", "EndTxn", "EndLock", "EndRebuild"}

\* Labels reached without an exception in flight.
Forward == Labels \ {"EndTxn", "EndLock", "EndRebuild", "Return"}

\* A step is planned from the client's own catalog, takes the path of the
\* backend's atomicity and has neither thrown nor committed before its
\* destructors run.
PathOK(c) ==
    /\ pc[c] \in Busy => todo[c] # {} /\ todo[c] \subseteq Keys(Catalog[c])
    /\ pc[c] \in Forward => err[c] = "Ok" /\ (done[c] => pc[c] = "Finish")
    /\ pc[c] = "EndTxn" /\ err[c] = "CommitUncertain" => conn[c] # "up"
    /\ pc[c] \in {"Check", "Mark", "Script", "Scripting", "Finish", "EndLock"} => ~Transactional
    /\ pc[c] \in {"Rebuild", "Exec"} => Transactional

\* Where a client whose session lives holds the lock.
Holds(c) ==
    /\ conn[c] = "up"
    /\ \/ pc[c] \in {"Check", "Mark", "Script", "Scripting", "Begin", "Exec", "Record", "Commit", "Finish"}
       \/ pc[c] = "EndTxn" /\ (IF Transactional THEN ~done[c] ELSE err[c] # "Ok")
       \/ pc[c] = "EndLock" /\ err[c] # "Ok"
LockOK(c) == lock = c <=> Holds(c)

\* A write transaction is open from the lock (or beginHistory()) to its commit
\* or its destructor, and only on a live session.
Opened == IF Transactional THEN {"Begin", "Exec", "Record", "Commit"} ELSE {"Record", "Commit"}
TxnOK(c) ==
    /\ txn[c] # None => lock = c /\ pc[c] \in Opened \cup {"EndTxn"}
    /\ conn[c] = "up" /\ pc[c] \in Opened => txn[c] # None

\* The flag and the pragma at every label, with what will restore them.
FlagOK(c) ==
    /\ ~saved[c].rebuild /\ saved[c].fk
    /\ saved[c].enabled => Transactional
    /\ conn[c] = "up" /\ ~saved[c].enabled => fk[c]
    /\ pc[c] \in {"Idle", "Status", "Rebuild", "Return"} => ~active[c] /\ ~saved[c].enabled
    /\ pc[c] \in {"Lock", "EndRebuild"} => active[c] = saved[c].enabled
    /\ pc[c] \in Opened \cup {"Finish", "EndTxn"} =>
          saved[c].txn = IF Transactional THEN saved[c].enabled ELSE TRUE
    /\ pc[c] \in {"Check", "Mark", "Script", "Scripting", "Begin"} => active[c]

ClientOK(c) == PathOK(c) /\ LockOK(c) /\ TxnOK(c) /\ FlagOK(c)
IInv == TypeOK /\ \A c \in Client : ClientOK(c)

-----------------------------------------------------------------------------
(* Lemmas about the operators.                                             *)

\* A nonempty set of versions has a least and a greatest one.
LEMMA Extremes ==
    ASSUME NEW S \in SUBSET Versions, S # {}
    PROVE  /\ Min(S) \in S /\ \A v \in S : Min(S) <= v
           /\ Max(S) \in S /\ \A v \in S : v <= Max(S)
<1>1. S \subseteq Nat /\ \A v \in S : v <= MaxVersion
  BY VersionsAssumption
<1>2. \E x \in S : \A y \in S : x =< y
  <2>1. PICK x \in S : \A y \in S : ~(<<y, x>> \in OpToRel(<, Nat))
    BY <1>1, WFMin, NatLessThanWellFounded
  <2>2. \A y \in S : ~(y < x)
    BY <1>1, <2>1, Zenon DEF OpToRel
  <2>3. \A y \in S : x =< y
    BY <1>1, <2>2
  <2> QED BY <2>3
<1>3. \E x \in S : \A y \in S : x >= y
  <2> DEFINE Gap == {MaxVersion - v : v \in S}
  <2>1. Gap \subseteq Nat /\ Gap # {}
    <3>1. \A v \in S : MaxVersion - v \in Nat
      BY <1>1, VersionsAssumption
    <3> QED BY <3>1, Zenon
  <2>2. PICK g \in Gap : \A h \in Gap : ~(<<h, g>> \in OpToRel(<, Nat))
    BY <2>1, WFMin, NatLessThanWellFounded
  <2>3. PICK x \in S : g = MaxVersion - x
    BY <2>2
  <2>4. ASSUME NEW y \in S PROVE x >= y
    <3>1. MaxVersion - y \in Gap
      OBVIOUS
    <3>2. ~(MaxVersion - y < MaxVersion - x)
      BY <2>1, <2>2, <2>3, <3>1 DEF OpToRel
    <3> QED BY <1>1, <3>2, VersionsAssumption
  <2> QED BY <2>4
<1>4. Min(S) \in S /\ \A v \in S : Min(S) <= v
  BY <1>2 DEF Min
<1>5. Max(S) \in S /\ \A v \in S : Max(S) >= v
  BY <1>3 DEF Max
<1>6. \A v \in S : v <= Max(S)
  BY <1>1, <1>5
<1> QED BY <1>4, <1>5, <1>6

\* So the next version of Runner::execute's loop is one of its plan.
LEMMA NextVersionInPlan ==
    ASSUME NEW S \in SUBSET Versions, S # {}, NEW d
    PROVE  NextVersion(d, S) \in S
BY Extremes DEF NextVersion

\* The step a client works on is a version of its own catalog, whose checksum
\* and direction make a marker.
LEMMA StepVersionKnown ==
    ASSUME TypeOK, NEW c \in Client, ClientOK(c), pc[c] \in Busy
    PROVE  /\ StepVersion(c) \in todo[c]
           /\ StepVersion(c) \in Versions
           /\ Catalog[c][StepVersion(c)] \in Entry
           /\ DirectionOf(c) \in Direction
           /\ MarkerOf(c) \in Marker
<1>1. todo[c] \in SUBSET Versions /\ todo[c] # {} /\ todo[c] \subseteq Keys(Catalog[c])
  BY DEF TypeOK, ClientOK, PathOK
<1>2. StepVersion(c) \in todo[c]
  BY <1>1, NextVersionInPlan DEF StepVersion
<1>3. Catalog[c][StepVersion(c)] \in Entry
  BY <1>1, <1>2, CatalogAssumption DEF CatalogType, Keys
<1>4. DirectionOf(c) \in Direction
  BY DEF DirectionOf, Direction, TypeOK, Marker
<1> QED BY <1>1, <1>2, <1>3, <1>4 DEF MarkerOf, Marker, Entry

\* Writing a field of a database, or the effect of one version, leaves a database.
LEMMA DatabaseUpdates ==
    ASSUME NEW d \in Database
    PROVE  /\ \A v \in Versions, e \in Effect : [d EXCEPT !.schema[v] = e] \in Database
           /\ \A m \in Marker \cup {None} : [d EXCEPT !.marker = m] \in Database
           /\ \A h \in History, m \in Marker \cup {None} :
                  [d EXCEPT !.history = h, !.marker = m] \in Database
           /\ \A h \in History, v \in Versions, e \in Effect :
                  [d EXCEPT !.history = h, !.schema[v] = e] \in Database
BY DEF Database, Schema

\* The codes that evaluate(), requireValid() and the planning can end with.
LEMMA RefusalCodes ==
    ASSUME NEW cat, NEW h, NEW m
    PROVE  /\ HistoryFault(cat, h) \in ErrorCode \ {"CommitUncertain"}
           /\ Fault(cat, h, m) \in ErrorCode
           /\ Invalid(cat, h, m) \in ErrorCode
           /\ \A c : Refusal(c, h, m) \in ErrorCode
<1>1. \A w : RowFault(cat, h, w) \in {"Ok", "InvalidHistory", "ChecksumMismatch"}
  BY DEF RowFault
<1>2. \A x : HistoryFault(x, h) \in {"Ok", "InvalidHistory", "ChecksumMismatch"}
  BY DEF HistoryFault, RowFault
<1>3. \A x : Fault(x, h, m) \in {"Ok", "InvalidHistory", "ChecksumMismatch"}
  BY <1>2 DEF Fault, MarkerFault
<1>4. \A x : Invalid(x, h, m) \in {"Ok", "InvalidHistory", "ChecksumMismatch", "IncompleteMigration"}
  BY <1>3 DEF Invalid
<1>5. \A x, d, t : PlanRefusal(x, h, m, d, t) \in ErrorCode
  BY <1>4 DEF PlanRefusal, ErrorCode
<1>6. \A c : Refusal(c, h, m) \in ErrorCode
  BY <1>3, <1>4, <1>5 DEF Refusal, ErrorCode
<1> QED BY <1>2, <1>3, <1>4, <1>6 DEF ErrorCode

\* Whatever is planned is in the client's catalog: makePlan() selects from it,
\* baseline() and resolve() refuse any other version.
LEMMA PlanFromCatalog ==
    ASSUME TypeOK, NEW c \in Client, NEW h, NEW m, Refusal(c, h, m) = "Ok"
    PROVE  PlanOf(c, h) \subseteq Keys(Catalog[c])
<1> DEFINE k == call[c]
<1>1. CASE k.op \in {"up", "down"}
  BY <1>1 DEF PlanOf, Selected
<1>2. CASE k.op = "baseline"
  <2>1. k.target \in Keys(Catalog[c])
    BY <1>2 DEF Refusal, PlanRefusal, ValidTarget
  <2> QED BY <1>2, <2>1 DEF PlanOf
<1>3. CASE k.op = "resolve"
  <2>1. /\ Fault(Catalog[c], h, m) = "Ok"
        /\ m # None /\ m.version = k.target
    BY <1>3 DEF Refusal
  <2>2. Catalog[c][k.target] # None
    BY <2>1 DEF Fault, MarkerFault, MarkerInPlace
  <2>3. k.target \in Versions
    BY <1>3 DEF TypeOK, Calls, NoCall
  <2> QED BY <1>3, <2>2, <2>3 DEF PlanOf, Keys
<1>4. CASE k.op \notin {"up", "down", "baseline", "resolve"}
  BY <1>4 DEF PlanOf
<1> QED BY <1>1, <1>2, <1>3, <1>4

\* A step opens a rebuild session only on SQLite.
LEMMA StepEntryLabel ==
    ASSUME NEW c, NEW d, NEW S \in SUBSET Versions, S # {}
    PROVE  /\ StepEntry(c, d, S) \in {"Rebuild", "Lock"}
           /\ StepEntry(c, d, S) = "Rebuild" => Transactional
BY BackendAssumption DEF StepEntry, Transactional

\* The history an operation writes is a history.
LEMMA WrittenTyped ==
    ASSUME TypeOK, NEW c \in Client, ClientOK(c), pc[c] \in Busy, NEW h \in History
    PROVE  Written(c, h) \in History
<1>1. Changed(c, h, StepVersion(c), DirectionOf(c)) \in History
  BY StepVersionKnown DEF Changed, History, Row, Entry
<1>2. Accepted(c, h) \in History
  <2>1. \A v \in Versions : v \in Keys(Catalog[c]) =>
            [sum |-> Catalog[c][v].sum, kind |-> "baseline"] \in Row
    BY CatalogAssumption DEF CatalogType, Keys, Row, Entry
  <2> QED BY <2>1 DEF Accepted, History
<1> QED BY <1>1, <1>2 DEF Written

-----------------------------------------------------------------------------
(* One lemma per action of a client.                                       *)

\* What a step of client c leaves alone: the other clients, and whether one of
\* them has the lock.
Untouched(c) ==
    \A d \in Client \ {c} :
        /\ pc'[d] = pc[d] /\ conn'[d] = conn[d] /\ active'[d] = active[d] /\ fk'[d] = fk[d]
        /\ saved'[d] = saved[d] /\ todo'[d] = todo[d] /\ txn'[d] = txn[d] /\ done'[d] = done[d]
        /\ err'[d] = err[d]
        /\ lock' = d <=> lock = d

\* A step that is right for its own client is right for all.
LEMMA Frame ==
    ASSUME IInv, NEW c \in Client, Untouched(c), TypeOK',
           PathOK(c)', LockOK(c)', TxnOK(c)', FlagOK(c)'
    PROVE  IInv'
<1> SUFFICES ASSUME NEW d \in Client PROVE ClientOK(d)'
  BY DEF IInv
<1>1. CASE d = c
  BY <1>1 DEF ClientOK
<1>2. CASE d # c
  <2> ClientOK(d)
    BY DEF IInv
  <2>1. PathOK(d)'
    BY <1>2 DEF Untouched, ClientOK, PathOK
  <2>2. LockOK(d)'
    BY <1>2 DEF Untouched, ClientOK, LockOK, Holds
  <2>3. TxnOK(d)'
    BY <1>2 DEF Untouched, ClientOK, TxnOK
  <2>4. FlagOK(d)'
    BY <1>2 DEF Untouched, ClientOK, FlagOK
  <2> QED BY <2>1, <2>2, <2>3, <2>4 DEF ClientOK
<1> QED BY <1>1, <1>2

\* A step that leaves the session alone keeps flag and pragma as they should be
\* when the label it reaches asks for no more than the one it leaves.
LEMMA FlagKept ==
    ASSUME TypeOK, NEW c \in Client, FlagOK(c), UNCHANGED session,
           \/ pc'[c] = "EndLock"
           \/ pc[c] \in {"Idle", "Status"} /\ pc'[c] \in {"Status", "Rebuild", "Lock", "Return"}
           \/ pc[c] = "Lock" /\ pc'[c] = "EndRebuild"
           \/ /\ pc[c] \in {"Check", "Mark"} /\ pc'[c] \in {"Mark", "Script", "Begin"}
              /\ ~Transactional
           \/ pc[c] \in Opened \cup {"Finish"} /\ pc'[c] = "EndTxn"
    PROVE  FlagOK(c)'
<1>1. conn'[c] = conn[c] /\ active'[c] = active[c] /\ fk'[c] = fk[c] /\ saved'[c] = saved[c]
  BY DEF session
<1>2. CASE pc'[c] = "EndLock"
  BY <1>1, <1>2 DEF FlagOK, Opened
<1>3. CASE pc[c] \in {"Idle", "Status"} /\ pc'[c] \in {"Status", "Rebuild", "Lock", "Return"}
  <2>1. ~active[c] /\ ~saved[c].enabled
    BY <1>3 DEF FlagOK
  <2>2. pc'[c] # "Lock" => FlagOK(c)'
    BY <1>1, <1>3, <2>1 DEF FlagOK, Opened
  <2>3. active[c] = FALSE /\ saved[c].enabled = FALSE
    BY <2>1 DEF TypeOK, Saved
  <2>4. pc'[c] = "Lock" => FlagOK(c)'
    BY <1>1, <2>3 DEF FlagOK, Opened
  <2> QED BY <2>2, <2>4
<1>4. CASE pc[c] = "Lock" /\ pc'[c] = "EndRebuild"
  BY <1>1, <1>4 DEF FlagOK, Opened
<1>5. CASE /\ pc[c] \in {"Check", "Mark"} /\ pc'[c] \in {"Mark", "Script", "Begin"}
           /\ ~Transactional
  BY <1>1, <1>5 DEF FlagOK, Opened
<1>6. CASE pc[c] \in Opened \cup {"Finish"} /\ pc'[c] = "EndTxn"
  BY <1>1, <1>6 DEF FlagOK, Opened
<1> QED BY <1>2, <1>3, <1>4, <1>5, <1>6

\* The constructor of MigrationState changes nothing but the call.
LEMMA CallInv ==
    ASSUME IInv, NEW c \in Client, NEW k \in Calls, Call(c, k)
    PROVE  IInv'
<1> TypeOK /\ ClientOK(c)
  BY DEF IInv
<1> USE DEF Call, Continue, Goto, Throw, ReadyCodes, server, session, request
<1>1. TypeOK'
  BY DEF TypeOK, Labels, ErrorCode
<1>2. Untouched(c)
  BY ClientAssumption DEF Untouched, TypeOK, ClientOK, LockOK, Holds
<1>3. PathOK(c)'
  BY DEF ClientOK, PathOK, Busy, Forward, Labels, TypeOK
<1>4. LockOK(c)'
  BY ClientAssumption DEF ClientOK, LockOK, Holds, TypeOK, PathOK, Forward, Labels
<1>5. TxnOK(c)'
  BY ClientAssumption DEF ClientOK, TxnOK, Opened, LockOK, Holds, TypeOK, PathOK
<1>6. FlagOK(c)'
  <2>1. pc[c] = "Idle" /\ pc'[c] \in {"Status", "Return"} /\ UNCHANGED session
    BY DEF TypeOK
  <2> QED BY <2>1, FlagKept DEF ClientOK
<1> QED BY <1>1, <1>2, <1>3, <1>4, <1>5, <1>6, Frame

\* status() and the plan put only catalog versions to work.
LEMMA ReadStatusInv ==
    ASSUME IInv, NEW c \in Client, ReadStatus(c)
    PROVE  IInv'
<1> TypeOK /\ ClientOK(c)
  BY DEF IInv
<1> DEFINE code == Refusal(c, db.history, db.marker)
           plan == IF code = "Ok" THEN PlanOf(c, db.history) ELSE {}
           dir == IF call[c].op = "down" THEN "Down" ELSE "Up"
<1> code \in ErrorCode
  BY RefusalCodes
<1> plan \subseteq Keys(Catalog[c])
  BY PlanFromCatalog
<1> plan \in SUBSET Versions
  BY DEF Keys
<1> plan # {} => /\ StepEntry(c, dir, plan) \in {"Rebuild", "Lock"}
                 /\ StepEntry(c, dir, plan) = "Rebuild" => Transactional
  BY StepEntryLabel
<1>0. /\ pc[c] = "Status" /\ conn[c] = "up"
      /\ Continue(c, code, IF plan = {} THEN "Return" ELSE StepEntry(c, dir, plan), "Return")
      /\ todo' = [todo EXCEPT ![c] = plan]
      /\ call' = [call EXCEPT ![c].target = IF Migrating(c) THEN 0 ELSE @]
      /\ expected' = [expected EXCEPT ![c] = IF code = "Ok" THEN db.history ELSE @]
      /\ seen' = [seen EXCEPT ![c] = IF code = "Ok" THEN db.marker ELSE @]
      /\ UNCHANGED <<server, session, txn, done>>
  BY DEF ReadStatus
<1> HIDE DEF code, plan, dir
<1>1. TypeOK'
  <2>1. call' \in [Client -> Calls \cup {NoCall}]
    BY <1>0 DEF TypeOK, Calls, NoCall, Targets, Migrating
  <2>2. pc' \in [Client -> Labels] /\ err' \in [Client -> ErrorCode]
    BY <1>0 DEF TypeOK, Labels, ErrorCode, Continue, Goto, Throw
  <2>3. db.history \in History /\ db.marker \in Marker \cup {None}
    BY DEF TypeOK, Database
  <2> QED BY <1>0, <2>1, <2>2, <2>3 DEF TypeOK, server, session
<1>2. Untouched(c)
  BY <1>0 DEF Untouched, TypeOK, Continue, Goto, Throw, server, session
<1>3. PathOK(c)'
  BY <1>0 DEF ClientOK, PathOK, Busy, Forward, Labels, TypeOK, Continue, Goto, Throw
<1>4. LockOK(c)'
  BY <1>0, ClientAssumption DEF ClientOK, LockOK, Holds, TypeOK, Continue, Goto, Throw, server, session
<1>5. TxnOK(c)'
  BY <1>0 DEF ClientOK, TxnOK, Opened, TypeOK, Continue, Goto, Throw, server, session
<1>6. FlagOK(c)'
  <2>1. pc[c] = "Status" /\ pc'[c] \in {"Rebuild", "Lock", "Return"} /\ UNCHANGED session
    BY <1>0 DEF TypeOK, Continue, Goto, Throw
  <2> QED BY <2>1, FlagKept DEF ClientOK
<1> QED BY <1>1, <1>2, <1>3, <1>4, <1>5, <1>6, Frame

\* An uncertain read transaction has no lock to lose.
LEMMA StatusUncertainInv ==
    ASSUME IInv, NEW c \in Client, StatusUncertain(c)
    PROVE  IInv'
<1> TypeOK /\ ClientOK(c)
  BY DEF IInv
<1> USE DEF StatusUncertain, Throw, server, request
<1>1. TypeOK'
  BY DEF TypeOK, Labels, ErrorCode
<1>2. Untouched(c)
  BY ClientAssumption DEF Untouched, TypeOK, ClientOK, LockOK, Holds
<1>3. PathOK(c)'
  BY DEF ClientOK, PathOK, Busy, Forward, Labels, TypeOK
<1>4. LockOK(c)'
  BY ClientAssumption DEF ClientOK, LockOK, Holds, TypeOK, PathOK, Forward, Labels
<1>5. TxnOK(c)'
  BY ClientAssumption DEF ClientOK, TxnOK, Opened, LockOK, Holds, TypeOK, PathOK
<1>6. FlagOK(c)'
  BY DEF ClientOK, FlagOK, Opened, Saved, NothingSaved, TypeOK, PathOK
<1> QED BY <1>1, <1>2, <1>3, <1>4, <1>5, <1>6, Frame

\* The rebuild session saves the flag and the pragma it will restore.
LEMMA BeginRebuildInv ==
    ASSUME IInv, NEW c \in Client, BeginRebuild(c)
    PROVE  IInv'
<1> TypeOK /\ ClientOK(c)
  BY DEF IInv
<1> USE DEF BeginRebuild, Goto, server, request
<1>1. TypeOK'
  <2>1. saved' \in [Client -> Saved]
    BY ZenonT(40) DEF TypeOK, Saved
  <2> QED BY <2>1 DEF TypeOK, Labels
<1>2. Untouched(c)
  BY ClientAssumption DEF Untouched, TypeOK, ClientOK, LockOK, Holds
<1>3. PathOK(c)'
  BY DEF ClientOK, PathOK, Busy, Forward, Labels, TypeOK
<1>4. LockOK(c)'
  BY ClientAssumption DEF ClientOK, LockOK, Holds, TypeOK, PathOK, Forward, Labels
<1>5. TxnOK(c)'
  BY ClientAssumption DEF ClientOK, TxnOK, Opened, LockOK, Holds, TypeOK, PathOK
<1>6. FlagOK(c)'
  BY DEF ClientOK, FlagOK, Opened, Saved, NothingSaved, TypeOK, PathOK
<1> QED BY <1>1, <1>2, <1>3, <1>4, <1>5, <1>6, Frame

\* A rebuild session that cannot start leaves the flag and the pragma alone.
LEMMA FailRebuildInv ==
    ASSUME IInv, NEW c \in Client, FailRebuild(c)
    PROVE  IInv'
<1> TypeOK /\ ClientOK(c)
  BY DEF IInv
<1> USE DEF FailRebuild, Throw, server, request
<1>1. TypeOK'
  BY DEF TypeOK, Labels, ErrorCode
<1>2. Untouched(c)
  BY ClientAssumption DEF Untouched, TypeOK, ClientOK, LockOK, Holds
<1>3. PathOK(c)'
  BY DEF ClientOK, PathOK, Busy, Forward, Labels, TypeOK
<1>4. LockOK(c)'
  BY ClientAssumption DEF ClientOK, LockOK, Holds, TypeOK, PathOK, Forward, Labels
<1>5. TxnOK(c)'
  BY ClientAssumption DEF ClientOK, TxnOK, Opened, LockOK, Holds, TypeOK, PathOK
<1>6. FlagOK(c)'
  BY DEF ClientOK, FlagOK, Opened, Saved, NothingSaved, TypeOK, PathOK
<1> QED BY <1>1, <1>2, <1>3, <1>4, <1>5, <1>6, Frame

\* The lock is granted when free, and a transactional lock opens the transaction.
LEMMA AcquireLockInv ==
    ASSUME IInv, NEW c \in Client, AcquireLock(c)
    PROVE  IInv'
<1> TypeOK /\ ClientOK(c)
  BY DEF IInv
<1>0. /\ pc'[c] \in IF Transactional THEN {"Begin"} ELSE {"Begin", "Check"}
      /\ active'[c]
      /\ saved'[c] = IF Transactional THEN [saved[c] EXCEPT !.txn = active[c]] ELSE saved[c]
  BY DEF TypeOK, AcquireLock, Goto
<1>1. TypeOK'
  <2>1. [saved[c] EXCEPT !.txn = active[c]] \in Saved
    BY DEF TypeOK, Saved
  <2> QED BY <2>1 DEF TypeOK, Labels, AcquireLock, Goto, Grants, request
<1>2. Untouched(c)
  BY ClientAssumption DEF Untouched, TypeOK, ClientOK, LockOK, Holds, AcquireLock, Goto, Grants, request
<1>3. PathOK(c)'
  BY DEF ClientOK, PathOK, Busy, Forward, Labels, TypeOK, AcquireLock, Goto, Grants, request
<1>4. LockOK(c)'
  BY ClientAssumption DEF ClientOK, LockOK, Holds, TypeOK, PathOK, Forward, Labels, AcquireLock, Goto, Grants, request
<1>5. TxnOK(c)'
  BY NoTransactionAssumption DEF ClientOK, TxnOK, Opened, TypeOK, AcquireLock, Goto, Grants, request
<1>6. FlagOK(c)'
  <2>1. saved[c] \in Saved /\ active[c] \in BOOLEAN
    BY DEF TypeOK
  <2>2. /\ saved'[c].rebuild = saved[c].rebuild /\ saved'[c].fk = saved[c].fk
        /\ saved'[c].enabled = saved[c].enabled
        /\ Transactional => saved'[c].txn = active[c]
    BY <1>0, <2>1 DEF Saved
  <2> QED BY <1>0, <2>1, <2>2 DEF ClientOK, FlagOK, Opened, Saved, AcquireLock
<1> QED BY <1>1, <1>2, <1>3, <1>4, <1>5, <1>6, Frame

\* A refused lock leaves nothing to release.
LEMMA RefuseLockInv ==
    ASSUME IInv, NEW c \in Client, RefuseLock(c)
    PROVE  IInv'
<1> TypeOK /\ ClientOK(c)
  BY DEF IInv
<1> USE DEF RefuseLock, Throw, Grants, server, session, request
<1>1. TypeOK'
  BY DEF TypeOK, Labels, ErrorCode
<1>2. Untouched(c)
  BY ClientAssumption DEF Untouched, TypeOK, ClientOK, LockOK, Holds
<1>3. PathOK(c)'
  BY DEF ClientOK, PathOK, Busy, Forward, Labels, TypeOK
<1>4. LockOK(c)'
  BY ClientAssumption DEF ClientOK, LockOK, Holds, TypeOK, PathOK, Forward, Labels
<1>5. TxnOK(c)'
  BY ClientAssumption DEF ClientOK, TxnOK, Opened, LockOK, Holds, TypeOK, PathOK
<1>6. FlagOK(c)'
  BY DEF ClientOK, FlagOK, Opened, Saved, NothingSaved, TypeOK, PathOK
<1> QED BY <1>1, <1>2, <1>3, <1>4, <1>5, <1>6, Frame

\* The inspection under the lock reads only.
LEMMA CheckInv ==
    ASSUME IInv, NEW c \in Client, Check(c)
    PROVE  IInv'
<1> TypeOK /\ ClientOK(c)
  BY DEF IInv
<1> USE DEF Check, Continue, Goto, Throw, server, session, request
<1>1. TypeOK'
  <2>1. Inspect(c) \in ErrorCode
    BY RefusalCodes DEF Inspect
  <2> QED BY <2>1 DEF TypeOK, Labels, ErrorCode
<1>2. Untouched(c)
  BY ClientAssumption DEF Untouched, TypeOK, ClientOK, LockOK, Holds
<1>3. PathOK(c)'
  BY DEF ClientOK, PathOK, Busy, Forward, Labels, TypeOK
<1>4. LockOK(c)'
  BY ClientAssumption DEF ClientOK, LockOK, Holds, TypeOK, PathOK, Forward, Labels
<1>5. TxnOK(c)'
  BY ClientAssumption DEF ClientOK, TxnOK, Opened, LockOK, Holds, TypeOK, PathOK
<1>6. FlagOK(c)'
  <2>1. /\ pc[c] = "Check" /\ pc'[c] \in {"Mark", "Begin", "EndLock"} /\ UNCHANGED session
        /\ ~Transactional
    BY DEF TypeOK, ClientOK, PathOK
  <2> QED BY <2>1, FlagKept DEF ClientOK
<1> QED BY <1>1, <1>2, <1>3, <1>4, <1>5, <1>6, Frame

\* The marker is written under the lock.
LEMMA WriteMarkerInv ==
    ASSUME IInv, NEW c \in Client, WriteMarker(c)
    PROVE  IInv'
<1> TypeOK /\ ClientOK(c)
  BY DEF IInv
<1> USE DEF WriteMarker, MarkerCode, RequireHistory, Continue, Goto, Throw, session, request
<1>1. TypeOK'
  <2>1. [db EXCEPT !.marker = MarkerOf(c)] \in Database
    BY StepVersionKnown, DatabaseUpdates DEF TypeOK, Busy
  <2> QED BY <2>1 DEF TypeOK, Labels, ErrorCode
<1>2. Untouched(c)
  BY ClientAssumption DEF Untouched, TypeOK, ClientOK, LockOK, Holds
<1>3. PathOK(c)'
  BY DEF ClientOK, PathOK, Busy, Forward, Labels, TypeOK
<1>4. LockOK(c)'
  BY ClientAssumption DEF ClientOK, LockOK, Holds, TypeOK, PathOK, Forward, Labels
<1>5. TxnOK(c)'
  BY ClientAssumption DEF ClientOK, TxnOK, Opened, LockOK, Holds, TypeOK, PathOK
<1>6. FlagOK(c)'
  <2>1. /\ pc[c] = "Mark" /\ pc'[c] \in {"Script", "EndLock"} /\ UNCHANGED session
        /\ ~Transactional
    BY DEF TypeOK, ClientOK, PathOK
  <2> QED BY <2>1, FlagKept DEF ClientOK
<1> QED BY <1>1, <1>2, <1>3, <1>4, <1>5, <1>6, Frame

\* A marker of unknown outcome gives the lock to the orphaned session.
LEMMA MarkerUncertainInv ==
    ASSUME IInv, NEW c \in Client, MarkerUncertain(c)
    PROVE  IInv'
<1> TypeOK /\ ClientOK(c)
  BY DEF IInv
<1> USE DEF MarkerUncertain, Throw, Abandon, request
<1>1. TypeOK'
  <2>1. [db EXCEPT !.marker = MarkerOf(c)] \in Database
    BY StepVersionKnown, DatabaseUpdates DEF TypeOK, Busy
  <2> QED BY <2>1 DEF TypeOK, Labels, ErrorCode
<1>2. Untouched(c)
  BY ClientAssumption DEF Untouched, TypeOK, ClientOK, LockOK, Holds
<1>3. PathOK(c)'
  BY DEF ClientOK, PathOK, Busy, Forward, Labels, TypeOK
<1>4. LockOK(c)'
  BY ClientAssumption DEF ClientOK, LockOK, Holds, TypeOK, PathOK, Forward, Labels
<1>5. TxnOK(c)'
  BY ClientAssumption DEF ClientOK, TxnOK, Opened, LockOK, Holds, TypeOK, PathOK
<1>6. FlagOK(c)'
  BY DEF ClientOK, FlagOK, Opened, Saved, NothingSaved, TypeOK, PathOK
<1> QED BY <1>1, <1>2, <1>3, <1>4, <1>5, <1>6, Frame

\* A nontransactional script runs under the lock.
LEMMA BeginScriptInv ==
    ASSUME IInv, NEW c \in Client, BeginScript(c)
    PROVE  IInv'
<1> TypeOK /\ ClientOK(c)
  BY DEF IInv
<1> USE DEF BeginScript, Goto, session, request
<1>1. TypeOK'
  <2>1. [db EXCEPT !.schema[StepVersion(c)] = "partial"] \in Database
    BY StepVersionKnown, DatabaseUpdates DEF TypeOK, Busy, Effect
  <2> QED BY <2>1 DEF TypeOK, Labels
<1>2. Untouched(c)
  BY ClientAssumption DEF Untouched, TypeOK, ClientOK, LockOK, Holds
<1>3. PathOK(c)'
  BY DEF ClientOK, PathOK, Busy, Forward, Labels, TypeOK
<1>4. LockOK(c)'
  BY ClientAssumption DEF ClientOK, LockOK, Holds, TypeOK, PathOK, Forward, Labels
<1>5. TxnOK(c)'
  BY ClientAssumption DEF ClientOK, TxnOK, Opened, LockOK, Holds, TypeOK, PathOK
<1>6. FlagOK(c)'
  BY DEF ClientOK, FlagOK, Opened, Saved, NothingSaved, TypeOK, PathOK
<1> QED BY <1>1, <1>2, <1>3, <1>4, <1>5, <1>6, Frame

\* Its end keeps the lock.
LEMMA EndScriptInv ==
    ASSUME IInv, NEW c \in Client, EndScript(c)
    PROVE  IInv'
<1> TypeOK /\ ClientOK(c)
  BY DEF IInv
<1> USE DEF EndScript, Goto, session, request
<1>1. TypeOK'
  <2>1. [db EXCEPT !.schema[StepVersion(c)] = Outcome(DirectionOf(c))] \in Database
    BY StepVersionKnown, DatabaseUpdates DEF TypeOK, Busy, Effect, Outcome
  <2> QED BY <2>1 DEF TypeOK, Labels, ErrorCode
<1>2. Untouched(c)
  BY ClientAssumption DEF Untouched, TypeOK, ClientOK, LockOK, Holds
<1>3. PathOK(c)'
  BY DEF ClientOK, PathOK, Busy, Forward, Labels, TypeOK
<1>4. LockOK(c)'
  BY ClientAssumption DEF ClientOK, LockOK, Holds, TypeOK, PathOK, Forward, Labels
<1>5. TxnOK(c)'
  BY ClientAssumption DEF ClientOK, TxnOK, Opened, LockOK, Holds, TypeOK, PathOK
<1>6. FlagOK(c)'
  BY DEF ClientOK, FlagOK, Opened, Saved, NothingSaved, TypeOK, PathOK
<1> QED BY <1>1, <1>2, <1>3, <1>4, <1>5, <1>6, Frame

\* A rejected script gives the lock to the closed session.
LEMMA RejectScriptInv ==
    ASSUME IInv, NEW c \in Client, RejectScript(c)
    PROVE  IInv'
<1> TypeOK /\ ClientOK(c)
  BY DEF IInv
<1> USE DEF RejectScript, Throw, Abandon, request
<1>1. TypeOK'
  <2>1. [db EXCEPT !.schema[StepVersion(c)] = Outcome(DirectionOf(c))] \in Database
    BY StepVersionKnown, DatabaseUpdates DEF TypeOK, Busy, Effect, Outcome
  <2> QED BY <2>1 DEF TypeOK, Labels, ErrorCode
<1>2. Untouched(c)
  BY ClientAssumption DEF Untouched, TypeOK, ClientOK, LockOK, Holds
<1>3. PathOK(c)'
  BY DEF ClientOK, PathOK, Busy, Forward, Labels, TypeOK
<1>4. LockOK(c)'
  BY ClientAssumption DEF ClientOK, LockOK, Holds, TypeOK, PathOK, Forward, Labels
<1>5. TxnOK(c)'
  BY ClientAssumption DEF ClientOK, TxnOK, Opened, LockOK, Holds, TypeOK, PathOK
<1>6. FlagOK(c)'
  BY DEF ClientOK, FlagOK, Opened, Saved, NothingSaved, TypeOK, PathOK
<1> QED BY <1>1, <1>2, <1>3, <1>4, <1>5, <1>6, Frame

\* beginHistory() opens the transaction under the lock.
LEMMA BeginHistoryInv ==
    ASSUME IInv, NEW c \in Client, BeginHistory(c)
    PROVE  IInv'
<1> TypeOK /\ ClientOK(c)
  BY DEF IInv
<1>0. /\ pc'[c] \in {"Record", "EndTxn"} \cup (IF Transactional THEN {"Exec"} ELSE {})
      /\ pc' \in [Client -> Labels] /\ err' \in [Client -> ErrorCode]
      /\ \A d \in Client \ {c} : pc'[d] = pc[d] /\ err'[d] = err[d]
      /\ pc'[c] = "EndTxn" => err'[c] \notin {"Ok", "CommitUncertain"}
      /\ pc'[c] # "EndTxn" => err'[c] = err[c]
  <2>1. PICK code \in ErrorCode \ {"CommitUncertain"} :
            Continue(c, code, IF Migrating(c) /\ Transactional THEN "Exec" ELSE "Record", "EndTxn")
    BY DEF BeginHistory, RequireHistory, ErrorCode
  <2> QED BY <2>1 DEF TypeOK, Labels, Continue, Goto, Throw
<1>1. TypeOK'
  <2>1. [saved[c] EXCEPT !.txn = active[c]] \in Saved
    BY DEF TypeOK, Saved
  <2> QED BY <1>0, <2>1 DEF TypeOK, BeginHistory, server, request
<1>2. Untouched(c)
  BY <1>0 DEF Untouched, TypeOK, BeginHistory, server, request
<1>3. PathOK(c)'
  BY <1>0 DEF ClientOK, PathOK, Busy, Forward, Labels, BeginHistory, request
<1>4. LockOK(c)'
  BY <1>0 DEF ClientOK, LockOK, Holds, PathOK, Forward, Labels, BeginHistory, server
<1>5. TxnOK(c)'
  BY <1>0, NoTransactionAssumption DEF ClientOK, TxnOK, Opened, LockOK, Holds, TypeOK, BeginHistory, server
<1>6. FlagOK(c)'
  <2>1. saved[c] \in Saved /\ active[c] \in BOOLEAN /\ active[c]
    BY DEF TypeOK, ClientOK, FlagOK, BeginHistory
  <2>2. CASE Transactional
    BY <1>0, <2>1, <2>2 DEF ClientOK, FlagOK, Opened, BeginHistory
  <2>3. CASE ~Transactional
    <3>1. saved'[c] = [saved[c] EXCEPT !.txn = active[c]]
      BY <2>3 DEF TypeOK, BeginHistory
    <3>2. /\ saved'[c].rebuild = saved[c].rebuild /\ saved'[c].fk = saved[c].fk
          /\ saved'[c].enabled = saved[c].enabled /\ saved'[c].txn
      BY <2>1, <3>1 DEF Saved
    <3> QED BY <1>0, <2>1, <2>3, <3>2 DEF ClientOK, FlagOK, Opened, Saved, BeginHistory
  <2> QED BY <2>2, <2>3
<1> QED BY <1>1, <1>2, <1>3, <1>4, <1>5, <1>6, Frame

\* A transactional script works on the transaction's contents.
LEMMA ExecuteScriptInv ==
    ASSUME IInv, NEW c \in Client, ExecuteScript(c)
    PROVE  IInv'
<1> TypeOK /\ ClientOK(c)
  BY DEF IInv
<1>0. txn' \in [Client -> Database \cup {None}] /\ txn'[c] \in Database
  <2>1. txn[c] \in Database
    BY DEF TypeOK, ClientOK, PathOK, TxnOK, Opened, ExecuteScript
  <2>2. PICK h \in Tampered(txn[c].history) :
            txn' = [txn EXCEPT ![c] = [@ EXCEPT !.history = h,
                                                !.schema[StepVersion(c)] = Outcome(DirectionOf(c))]]
    BY DEF ExecuteScript
  <2>3. h \in History
    BY <2>1, <2>2 DEF Tampered, Database, History
  <2>4. [txn[c] EXCEPT !.history = h, !.schema[StepVersion(c)] = Outcome(DirectionOf(c))] \in Database
    BY <2>1, <2>3, StepVersionKnown, DatabaseUpdates DEF ExecuteScript, Busy, Effect, Outcome
  <2> QED BY <2>2, <2>4 DEF TypeOK
<1>1. TypeOK'
  BY <1>0 DEF TypeOK, Labels, ExecuteScript, Goto, server, session, request
<1>2. Untouched(c)
  BY ClientAssumption DEF Untouched, TypeOK, ClientOK, LockOK, Holds, ExecuteScript, Goto, server, session, request
<1>3. PathOK(c)'
  BY DEF ClientOK, PathOK, Busy, Forward, Labels, TypeOK, ExecuteScript, Goto, server, session, request
<1>4. LockOK(c)'
  BY ClientAssumption DEF ClientOK, LockOK, Holds, TypeOK, PathOK, Forward, Labels, ExecuteScript, Goto, server, session, request
<1>5. TxnOK(c)'
  BY <1>0, NoTransactionAssumption DEF ClientOK, TxnOK, Opened, LockOK, Holds, TypeOK, PathOK, ExecuteScript, Goto, server, session, request
<1>6. FlagOK(c)'
  BY DEF ClientOK, FlagOK, Opened, Saved, NothingSaved, TypeOK, PathOK, ExecuteScript, Goto, server, session, request
<1> QED BY <1>1, <1>2, <1>3, <1>4, <1>5, <1>6, Frame

\* What is recorded is a history, inside the transaction.
LEMMA RecordHistoryInv ==
    ASSUME IInv, NEW c \in Client, RecordHistory(c)
    PROVE  IInv'
<1> TypeOK /\ ClientOK(c)
  BY DEF IInv
<1>0. PICK code \in ErrorCode \ {"CommitUncertain"} :
        /\ Continue(c, code, "Commit", "EndTxn")
        /\ txn' = [txn EXCEPT ![c] = IF code = "Ok" THEN Recorded(c) ELSE @]
  <2>1. RecordFault(c, txn[c].history) \in ErrorCode \ {"CommitUncertain"}
    BY RefusalCodes DEF RecordFault, ErrorCode
  <2> QED BY <2>1 DEF RecordHistory, ErrorCode
<1>a. /\ pc'[c] \in {"Commit", "EndTxn"}
      /\ pc' \in [Client -> Labels] /\ err' \in [Client -> ErrorCode]
      /\ \A d \in Client \ {c} : pc'[d] = pc[d] /\ err'[d] = err[d]
      /\ pc'[c] = "EndTxn" => err'[c] \notin {"Ok", "CommitUncertain"}
      /\ pc'[c] # "EndTxn" => err'[c] = err[c]
  BY <1>0 DEF TypeOK, Labels, ErrorCode, Continue, Goto, Throw
<1>b. txn' \in [Client -> Database \cup {None}] /\ txn'[c] \in Database
  <2>1. txn[c] \in Database
    BY DEF TypeOK, ClientOK, PathOK, TxnOK, Opened, RecordHistory
  <2>2. Written(c, txn[c].history) \in History
    BY <2>1, WrittenTyped DEF RecordHistory, Busy, Database
  <2>3. Recorded(c) \in Database
    BY <2>1, <2>2, DatabaseUpdates DEF Recorded, MarkerAfter
  <2> QED BY <1>0, <2>1, <2>3 DEF TypeOK
<1>1. TypeOK'
  BY <1>a, <1>b DEF TypeOK, RecordHistory, server, session, request
<1>2. Untouched(c)
  BY <1>0, <1>a DEF Untouched, TypeOK, RecordHistory, server, session, request
<1>3. PathOK(c)'
  BY <1>a DEF ClientOK, PathOK, Busy, Forward, Labels, RecordHistory, request
<1>4. LockOK(c)'
  BY <1>a DEF ClientOK, LockOK, Holds, PathOK, Forward, Labels, RecordHistory, server, session
<1>5. TxnOK(c)'
  BY <1>a, <1>b, NoTransactionAssumption DEF ClientOK, TxnOK, Opened, LockOK, Holds, RecordHistory, server, session
<1>6. FlagOK(c)'
  BY <1>a DEF ClientOK, FlagOK, Opened, RecordHistory, session
<1> QED BY <1>1, <1>2, <1>3, <1>4, <1>5, <1>6, Frame

\* The commit closes the transaction and, with it, a transactional lock.
LEMMA CommitHistoryInv ==
    ASSUME IInv, NEW c \in Client, CommitHistory(c)
    PROVE  IInv'
<1> TypeOK /\ ClientOK(c)
  BY DEF IInv
<1> USE DEF CommitHistory, Goto, LockAfterTransaction, session
<1>1. TypeOK'
  <2>1. txn[c] \in Database /\ txn[c].history \in History
    BY DEF TypeOK, ClientOK, TxnOK, Opened, Database
  <2> QED BY <2>1 DEF TypeOK, Labels
<1>2. Untouched(c)
  BY ClientAssumption DEF Untouched, TypeOK, ClientOK, LockOK, Holds
<1>3. PathOK(c)'
  BY DEF ClientOK, PathOK, Busy, Forward, Labels, TypeOK
<1>4. LockOK(c)'
  BY ClientAssumption DEF ClientOK, LockOK, Holds, TypeOK, PathOK, Forward, Labels
<1>5. TxnOK(c)'
  BY ClientAssumption DEF ClientOK, TxnOK, Opened, LockOK, Holds, TypeOK, PathOK
<1>6. FlagOK(c)'
  BY DEF ClientOK, FlagOK, Opened, Saved, NothingSaved, TypeOK, PathOK
<1> QED BY <1>1, <1>2, <1>3, <1>4, <1>5, <1>6, Frame

\* A commit of unknown outcome leaves its contents to the orphaned session.
LEMMA CommitUncertainInv ==
    ASSUME IInv, NEW c \in Client, CommitUncertain(c)
    PROVE  IInv'
<1> TypeOK /\ ClientOK(c)
  BY DEF IInv
<1> USE DEF CommitUncertain, Throw, Abandon, request
<1>1. TypeOK'
  BY DEF TypeOK, Labels, ErrorCode
<1>2. Untouched(c)
  BY ClientAssumption DEF Untouched, TypeOK, ClientOK, LockOK, Holds
<1>3. PathOK(c)'
  BY DEF ClientOK, PathOK, Busy, Forward, Labels, TypeOK
<1>4. LockOK(c)'
  BY ClientAssumption DEF ClientOK, LockOK, Holds, TypeOK, PathOK, Forward, Labels
<1>5. TxnOK(c)'
  BY ClientAssumption DEF ClientOK, TxnOK, Opened, LockOK, Holds, TypeOK, PathOK
<1>6. FlagOK(c)'
  BY DEF ClientOK, FlagOK, Opened, Saved, NothingSaved, TypeOK, PathOK
<1> QED BY <1>1, <1>2, <1>3, <1>4, <1>5, <1>6, Frame

\* finish() frees the session lock or closes the session.
LEMMA FinishLockInv ==
    ASSUME IInv, NEW c \in Client, FinishLock(c)
    PROVE  IInv'
<1> TypeOK /\ ClientOK(c)
  BY DEF IInv
<1> USE DEF FinishLock, Goto, Throw, Abandon, request
<1>1. TypeOK'
  BY DEF TypeOK, Labels, ErrorCode
<1>2. Untouched(c)
  BY ClientAssumption DEF Untouched, TypeOK, ClientOK, LockOK, Holds
<1>3. PathOK(c)'
  BY DEF ClientOK, PathOK, Busy, Forward, Labels, TypeOK
<1>4. LockOK(c)'
  BY ClientAssumption DEF ClientOK, LockOK, Holds, TypeOK, PathOK, Forward, Labels
<1>5. TxnOK(c)'
  BY ClientAssumption DEF ClientOK, TxnOK, Opened, LockOK, Holds, TypeOK, PathOK
<1>6. FlagOK(c)'
  BY DEF ClientOK, FlagOK, Opened, Saved, NothingSaved, TypeOK, PathOK
<1> QED BY <1>1, <1>2, <1>3, <1>4, <1>5, <1>6, Frame

\* ~Transaction leaves no transaction and restores the flag.
LEMMA EndTransactionInv ==
    ASSUME IInv, NEW c \in Client, EndTransaction(c)
    PROVE  IInv'
<1> TypeOK /\ ClientOK(c)
  BY DEF IInv
<1> USE DEF EndTransaction, Goto, Finished, Abandon, LockAfterTransaction, request
<1>1. TypeOK'
  BY DEF TypeOK, Saved, Labels, ErrorCode
<1>2. Untouched(c)
  BY ClientAssumption DEF Untouched, TypeOK, ClientOK, LockOK, Holds
<1>3. PathOK(c)'
  BY DEF ClientOK, PathOK, Busy, Forward, Labels, TypeOK
<1>4. LockOK(c)'
  BY ClientAssumption DEF ClientOK, LockOK, Holds, TypeOK, PathOK, Forward, Labels
<1>5. TxnOK(c)'
  BY ClientAssumption DEF ClientOK, TxnOK, Opened, LockOK, Holds, TypeOK, PathOK
<1>6. FlagOK(c)'
  BY DEF ClientOK, FlagOK, Opened, Saved, NothingSaved, TypeOK, PathOK
<1> QED BY <1>1, <1>2, <1>3, <1>4, <1>5, <1>6, Frame

\* ~MigrationLock leaves no lock and lowers the flag.
LEMMA EndMigrationLockInv ==
    ASSUME IInv, NEW c \in Client, EndMigrationLock(c)
    PROVE  IInv'
<1> TypeOK /\ ClientOK(c)
  BY DEF IInv
<1> USE DEF EndMigrationLock, Goto, Abandon, FlagAfterLock, request
<1>1. TypeOK'
  BY DEF TypeOK, Labels, ErrorCode
<1>2. Untouched(c)
  BY ClientAssumption DEF Untouched, TypeOK, ClientOK, LockOK, Holds
<1>3. PathOK(c)'
  BY DEF ClientOK, PathOK, Busy, Forward, Labels, TypeOK
<1>4. LockOK(c)'
  BY ClientAssumption DEF ClientOK, LockOK, Holds, TypeOK, PathOK, Forward, Labels
<1>5. TxnOK(c)'
  BY ClientAssumption DEF ClientOK, TxnOK, Opened, LockOK, Holds, TypeOK, PathOK
<1>6. FlagOK(c)'
  BY DEF ClientOK, FlagOK, Opened, Saved, NothingSaved, TypeOK, PathOK
<1> QED BY <1>1, <1>2, <1>3, <1>4, <1>5, <1>6, Frame

\* The end of a step restores the pragma and the flag and enters the next step.
LEMMA EndRebuildSessionInv ==
    ASSUME IInv, NEW c \in Client, EndRebuildSession(c)
    PROVE  IInv'
<1> TypeOK /\ ClientOK(c)
  BY DEF IInv
<1> USE DEF EndRebuildSession, EndStep, Goto, Throw, RestoredForeignKeys, server
<1> DEFINE rest == todo[c] \ {StepVersion(c)}
<1> rest \in SUBSET Versions /\ (pc[c] = "EndRebuild" => rest \subseteq Keys(Catalog[c]))
  BY DEF TypeOK, ClientOK, PathOK, Busy
<1> rest # {} => /\ StepEntry(c, DirectionOf(c), rest) \in {"Rebuild", "Lock"}
                 /\ StepEntry(c, DirectionOf(c), rest) = "Rebuild" => Transactional
  BY StepEntryLabel
<1>1. TypeOK'
  <2>1. saved' \in [Client -> Saved] /\ saved[c] \in Saved
    BY DEF TypeOK, Saved, NothingSaved
  <2>2. active' \in [Client -> BOOLEAN] /\ fk' \in [Client -> BOOLEAN]
    <3>1. RestoredForeignKeys(c) \in BOOLEAN /\ saved[c].rebuild \in BOOLEAN
      BY <2>1 DEF TypeOK, Saved
    <3> QED BY <3>1 DEF TypeOK
  <2>3. /\ pc' \in [Client -> Labels] /\ err' \in [Client -> ErrorCode]
        /\ todo' \in [Client -> SUBSET Versions] /\ done' \in [Client -> BOOLEAN]
    <3>1. pc' \in [Client -> Labels]
      BY DEF TypeOK, Labels
    <3>2. err' \in [Client -> ErrorCode]
      BY DEF TypeOK
    <3>3. todo' \in [Client -> SUBSET Versions] /\ done' \in [Client -> BOOLEAN]
      BY DEF TypeOK
    <3> QED BY <3>1, <3>2, <3>3
  <2> QED BY <2>1, <2>2, <2>3 DEF TypeOK
<1>2. Untouched(c)
  BY ClientAssumption DEF Untouched, TypeOK, ClientOK, LockOK, Holds
<1>3. PathOK(c)'
  BY DEF ClientOK, PathOK, Busy, Forward, Labels, TypeOK
<1>4. LockOK(c)'
  BY ClientAssumption DEF ClientOK, LockOK, Holds, TypeOK, PathOK, Forward, Labels
<1>5. TxnOK(c)'
  BY ClientAssumption DEF ClientOK, TxnOK, Opened, LockOK, Holds, TypeOK, PathOK
<1>6. FlagOK(c)'
  <2>1. /\ pc'[c] \in {"Rebuild", "Lock", "Return"} /\ conn'[c] = conn[c] /\ saved'[c] = NothingSaved
        /\ fk'[c] = (IF saved[c].enabled THEN RestoredForeignKeys(c) ELSE fk[c])
        /\ active'[c] = (IF saved[c].enabled THEN saved[c].rebuild ELSE active[c])
    BY DEF TypeOK
  <2>2. pc[c] = "EndRebuild" /\ FlagOK(c)
    BY DEF ClientOK
  <2> HIDE DEF EndRebuildSession, EndStep, Goto, Throw, server
  <2>3. active'[c] = FALSE /\ (conn[c] = "up" => fk'[c])
    <3>1. /\ ~saved[c].rebuild /\ saved[c].fk
          /\ conn[c] = "up" /\ ~saved[c].enabled => fk[c]
      BY <2>2 DEF FlagOK
    <3>2. active[c] = saved[c].enabled
      BY <2>2 DEF FlagOK
    <3> QED BY <2>1, <3>1, <3>2 DEF TypeOK, Saved
  <2> HIDE DEF RestoredForeignKeys
  <2>4. ~saved'[c].rebuild /\ saved'[c].fk /\ saved'[c].enabled = FALSE
    BY <2>1 DEF NothingSaved
  <2>5. pc'[c] \in {"Rebuild", "Lock", "Return"} /\ (conn'[c] = "up" => fk'[c])
    BY <2>1, <2>3
  <2> QED BY <2>3, <2>4, <2>5 DEF FlagOK, Opened
<1> QED BY <1>1, <1>2, <1>3, <1>4, <1>5, <1>6, Frame

\* A failed restoration closes the session whose pragma it could not restore.
LEMMA FailRestorationInv ==
    ASSUME IInv, NEW c \in Client, FailRestoration(c)
    PROVE  IInv'
<1> TypeOK /\ ClientOK(c)
  BY DEF IInv
<1> USE DEF FailRestoration, EndStep, Goto, Throw, RestorationCode, server
<1> DEFINE rest == todo[c] \ {StepVersion(c)}
<1> rest \in SUBSET Versions /\ (pc[c] = "EndRebuild" => rest \subseteq Keys(Catalog[c]))
  BY DEF TypeOK, ClientOK, PathOK, Busy
<1> rest # {} => /\ StepEntry(c, DirectionOf(c), rest) \in {"Rebuild", "Lock"}
                 /\ StepEntry(c, DirectionOf(c), rest) = "Rebuild" => Transactional
  BY StepEntryLabel
<1>1. TypeOK'
  <2>1. saved' \in [Client -> Saved] /\ saved[c] \in Saved
    BY DEF TypeOK, Saved, NothingSaved
  <2>2. active' \in [Client -> BOOLEAN] /\ fk' \in [Client -> BOOLEAN]
    BY <2>1 DEF TypeOK, Saved
  <2>3. /\ pc' \in [Client -> Labels] /\ err' \in [Client -> ErrorCode]
        /\ todo' \in [Client -> SUBSET Versions] /\ done' \in [Client -> BOOLEAN]
    BY DEF TypeOK, Labels, ErrorCode
  <2> QED BY <2>1, <2>2, <2>3 DEF TypeOK
<1>2. Untouched(c)
  BY ClientAssumption DEF Untouched, TypeOK, ClientOK, LockOK, Holds
<1>3. PathOK(c)'
  BY DEF ClientOK, PathOK, Busy, Forward, Labels, TypeOK
<1>4. LockOK(c)'
  BY ClientAssumption DEF ClientOK, LockOK, Holds, TypeOK, PathOK, Forward, Labels
<1>5. TxnOK(c)'
  BY ClientAssumption DEF ClientOK, TxnOK, Opened, LockOK, Holds, TypeOK, PathOK
<1>6. FlagOK(c)'
  BY DEF ClientOK, FlagOK, Opened, Saved, NothingSaved, TypeOK, PathOK
<1> QED BY <1>1, <1>2, <1>3, <1>4, <1>5, <1>6, Frame

\* A returning call leaves its session as the destructors left it.
LEMMA ReturnInv ==
    ASSUME IInv, NEW c \in Client, Return(c)
    PROVE  IInv'
<1> TypeOK /\ ClientOK(c)
  BY DEF IInv
<1> USE DEF Return, Throw, server
<1>1. TypeOK'
  BY DEF TypeOK, Saved, NothingSaved, NoHistory, History, Labels, ErrorCode
<1>2. Untouched(c)
  BY ClientAssumption DEF Untouched, TypeOK, ClientOK, LockOK, Holds
<1>3. PathOK(c)'
  BY DEF ClientOK, PathOK, Busy, Forward, Labels, TypeOK
<1>4. LockOK(c)'
  BY ClientAssumption DEF ClientOK, LockOK, Holds, TypeOK, PathOK, Forward, Labels
<1>5. TxnOK(c)'
  BY ClientAssumption DEF ClientOK, TxnOK, Opened, LockOK, Holds, TypeOK, PathOK
<1>6. FlagOK(c)'
  BY DEF ClientOK, FlagOK, Opened, Saved, NothingSaved, TypeOK, PathOK
<1> QED BY <1>1, <1>2, <1>3, <1>4, <1>5, <1>6, Frame

\* A failing statement unwinds to the destructors of what was constructed.
LEMMA StatementFailsInv ==
    ASSUME IInv, NEW c \in Client, StatementFails(c)
    PROVE  IInv'
<1> TypeOK /\ ClientOK(c)
  BY DEF IInv
<1> USE DEF StatementFails, Throw, server, session, request
<1>1. TypeOK'
  BY DEF TypeOK, Labels, ErrorCode
<1>2. Untouched(c)
  BY ClientAssumption DEF Untouched, TypeOK, ClientOK, LockOK, Holds
<1>3. PathOK(c)'
  BY DEF ClientOK, PathOK, Busy, Forward, Labels, TypeOK
<1>4. LockOK(c)'
  BY ClientAssumption DEF ClientOK, LockOK, Holds, TypeOK, PathOK, Forward, Labels
<1>5. TxnOK(c)'
  BY ClientAssumption DEF ClientOK, TxnOK, Opened, LockOK, Holds, TypeOK, PathOK
<1>6. FlagOK(c)'
  <2>1. /\ UNCHANGED session
        /\ \/ pc[c] = "Status" /\ pc'[c] = "Return"
           \/ pc[c] = "Lock" /\ pc'[c] = "EndRebuild"
           \/ pc'[c] = "EndLock"
           \/ pc[c] = "Begin" /\ pc'[c] = "EndTxn" /\ Transactional
           \/ pc[c] \in {"Exec", "Record", "Finish"} /\ pc'[c] = "EndTxn"
    BY DEF TypeOK
  <2>2. pc[c] = "Exec" => Transactional
    BY DEF ClientOK, PathOK
  <2>3. FlagOK(c)
    BY DEF ClientOK
  <2> HIDE DEF StatementFails, Throw, server, session, request
  <2>4. pc[c] \in {"Begin", "Exec", "Record", "Finish"} /\ pc'[c] = "EndTxn"
           /\ (pc[c] = "Begin" => Transactional) => pc[c] \in Opened \cup {"Finish"}
    BY <2>2 DEF Opened
  <2> QED BY <2>1, <2>3, <2>4, FlagKept
<1> QED BY <1>1, <1>2, <1>3, <1>4, <1>5, <1>6, Frame

\* A new session enforces foreign keys and has no flag raised.
LEMMA ReconnectInv ==
    ASSUME IInv, NEW c \in Client, Reconnect(c)
    PROVE  IInv'
<1> TypeOK /\ ClientOK(c)
  BY DEF IInv
<1> USE DEF Reconnect, server, request
<1>1. TypeOK'
  BY DEF TypeOK, Labels, ErrorCode
<1>2. Untouched(c)
  BY ClientAssumption DEF Untouched, TypeOK, ClientOK, LockOK, Holds
<1>3. PathOK(c)'
  BY DEF ClientOK, PathOK, Busy, Forward, Labels, TypeOK
<1>4. LockOK(c)'
  BY ClientAssumption DEF ClientOK, LockOK, Holds, TypeOK, PathOK, Forward, Labels
<1>5. TxnOK(c)'
  BY ClientAssumption DEF ClientOK, TxnOK, Opened, LockOK, Holds, TypeOK, PathOK
<1>6. FlagOK(c)'
  BY DEF ClientOK, FlagOK, Opened, Saved, NothingSaved, TypeOK, PathOK
<1> QED BY <1>1, <1>2, <1>3, <1>4, <1>5, <1>6, Frame

\* A lost session takes its transaction with it and orphans its lock.
LEMMA DropInv ==
    ASSUME IInv, NEW c \in Client, Drop(c)
    PROVE  IInv'
<1> TypeOK /\ ClientOK(c)
  BY DEF IInv
<1> USE DEF Drop, Abandon, request
<1>1. TypeOK'
  <2>1. Unattended(c) \in Database \cup {None}
    BY StepVersionKnown, DatabaseUpdates DEF TypeOK, Unattended, Busy, Effect, Outcome
  <2> QED BY <2>1 DEF TypeOK
<1>2. Untouched(c)
  BY ClientAssumption DEF Untouched, TypeOK, ClientOK, LockOK, Holds
<1>3. PathOK(c)'
  BY DEF ClientOK, PathOK, Busy, Forward, Labels, TypeOK
<1>4. LockOK(c)'
  BY ClientAssumption DEF ClientOK, LockOK, Holds, TypeOK, PathOK, Forward, Labels
<1>5. TxnOK(c)'
  BY ClientAssumption DEF ClientOK, TxnOK, Opened, LockOK, Holds, TypeOK, PathOK
<1>6. FlagOK(c)'
  BY DEF ClientOK, FlagOK, Opened, Saved, NothingSaved, TypeOK, PathOK
<1> QED BY <1>1, <1>2, <1>3, <1>4, <1>5, <1>6, Frame

\* So does a process that dies.
LEMMA CrashInv ==
    ASSUME IInv, NEW c \in Client, Crash(c)
    PROVE  IInv'
<1> TypeOK /\ ClientOK(c)
  BY DEF IInv
<1> USE DEF Crash, Abandon
<1>1. TypeOK'
  <2>1. Unattended(c) \in Database \cup {None}
    BY StepVersionKnown, DatabaseUpdates DEF TypeOK, Unattended, Busy, Effect, Outcome
  <2> QED BY <2>1 DEF TypeOK, Saved, NothingSaved, NoHistory, History, Labels, ErrorCode
<1>2. Untouched(c)
  BY ClientAssumption DEF Untouched, TypeOK, ClientOK, LockOK, Holds
<1>3. PathOK(c)'
  BY DEF ClientOK, PathOK, Busy, Forward, Labels, TypeOK
<1>4. LockOK(c)'
  BY ClientAssumption DEF ClientOK, LockOK, Holds, TypeOK, PathOK, Forward, Labels
<1>5. TxnOK(c)'
  BY ClientAssumption DEF ClientOK, TxnOK, Opened, LockOK, Holds, TypeOK, PathOK
<1>6. FlagOK(c)'
  BY DEF ClientOK, FlagOK, Opened, Saved, NothingSaved, TypeOK, PathOK
<1> QED BY <1>1, <1>2, <1>3, <1>4, <1>5, <1>6, Frame

-----------------------------------------------------------------------------
(* The environment's steps, the induction and the theorems.                *)

\* The initial state satisfies the invariant.
LEMMA InitInv == Init => IInv
<1> SUFFICES ASSUME Init PROVE IInv
  OBVIOUS
<1>1. TypeOK
  <2>1. db \in Database
    BY DEF Init, Database, NoHistory, History, Schema, Effect
  <2>2. saved \in [Client -> Saved] /\ expected \in [Client -> History]
    BY DEF Init, Saved, NothingSaved, NoHistory, History
  <2> QED BY <2>1, <2>2 DEF Init, TypeOK, Labels, ErrorCode
<1>2. ASSUME NEW c \in Client PROVE ClientOK(c)
  BY ClientAssumption
  DEF Init, ClientOK, PathOK, LockOK, Holds, TxnOK, FlagOK, Opened, Busy, NothingSaved
<1> QED BY <1>1, <1>2 DEF IInv

\* A step outside the clients keeps every client's part of the invariant.
LEMMA ServerStepInv ==
    ASSUME IInv, OrphanEnds \/ OperatorRepair
    PROVE  IInv'
<1> TypeOK /\ \A c \in Client : ClientOK(c)
  BY DEF IInv
<1>1. TypeOK'
  <2>1. CASE OrphanEnds
    BY <2>1 DEF TypeOK, OrphanEnds, session, request
  <2>2. CASE OperatorRepair
    <3>1. db.marker.version \in Versions
      BY <2>2 DEF TypeOK, Database, Marker, OperatorRepair
    <3>2. PICK e \in {"absent", "applied"} : db' = [db EXCEPT !.schema[db.marker.version] = e]
      BY <2>2 DEF OperatorRepair
    <3>3. db' \in Database
      <4>1. db \in Database /\ e \in Effect
        BY DEF TypeOK, Effect
      <4> QED BY <3>1, <3>2, <4>1, DatabaseUpdates
    <3> QED BY <2>2, <3>3 DEF TypeOK, OperatorRepair, session, request
  <2> QED BY <2>1, <2>2
<1>2. ASSUME NEW c \in Client PROVE ClientOK(c)'
  <2>1. /\ pc' = pc /\ conn' = conn /\ active' = active /\ fk' = fk /\ saved' = saved
        /\ todo' = todo /\ txn' = txn /\ done' = done /\ err' = err
        /\ lock = c <=> lock' = c
    BY ClientAssumption DEF OrphanEnds, OperatorRepair, session, request
  <2> ClientOK(c)
    OBVIOUS
  <2>2. PathOK(c)'
    BY <2>1 DEF ClientOK, PathOK
  <2>3. LockOK(c)' /\ TxnOK(c)'
    BY <2>1 DEF ClientOK, LockOK, Holds, TxnOK
  <2>4. FlagOK(c)'
    BY <2>1 DEF ClientOK, FlagOK
  <2> QED BY <2>2, <2>3, <2>4 DEF ClientOK
<1> QED BY <1>1, <1>2 DEF IInv

\* Every step of the specification keeps the invariant.
LEMMA NextInv == IInv /\ [Next]_vars => IInv'
<1> SUFFICES ASSUME IInv, [Next]_vars PROVE IInv'
  OBVIOUS
<1>1. ASSUME NEW c \in Client, Step(c) PROVE IInv'
  BY <1>1, ReadStatusInv, StatusUncertainInv, BeginRebuildInv, FailRebuildInv, AcquireLockInv,
     RefuseLockInv, CheckInv, WriteMarkerInv, MarkerUncertainInv, BeginScriptInv, EndScriptInv,
     RejectScriptInv, BeginHistoryInv, ExecuteScriptInv, RecordHistoryInv, CommitHistoryInv,
     CommitUncertainInv, FinishLockInv, EndTransactionInv, EndMigrationLockInv,
     EndRebuildSessionInv, FailRestorationInv, StatementFailsInv, ReturnInv
  DEF Step
<1>2. ASSUME NEW c \in Client, NEW k \in Calls, Call(c, k) PROVE IInv'
  BY <1>2, CallInv
<1>3. ASSUME NEW c \in Client, StatementFails(c) \/ Reconnect(c) \/ Drop(c) \/ Crash(c) PROVE IInv'
  BY <1>3, StatementFailsInv, ReconnectInv, DropInv, CrashInv
<1>4. CASE OrphanEnds \/ OperatorRepair
  BY <1>4, ServerStepInv
<1>5. CASE UNCHANGED vars
  <2>1. TypeOK'
    BY <1>5 DEF vars, IInv, TypeOK
  <2>2. ASSUME NEW c \in Client PROVE ClientOK(c)'
    <3> ClientOK(c)
      BY DEF IInv
    <3>1. PathOK(c)' /\ LockOK(c)'
      BY <1>5 DEF vars, ClientOK, PathOK, LockOK, Holds
    <3>2. TxnOK(c)' /\ FlagOK(c)'
      BY <1>5 DEF vars, ClientOK, TxnOK, FlagOK
    <3> QED BY <3>1, <3>2 DEF ClientOK
  <2> QED BY <2>1, <2>2 DEF IInv
<1> QED BY <1>1, <1>2, <1>3, <1>4, <1>5 DEF Next

\* The invariant holds in every reachable state.
THEOREM Invariance == Spec => []IInv
<1> QED BY InitInv, NextInv, PTL DEF Spec

\* Type correctness: every variable keeps its declared shape, whatever the
\* processes, the server and the operator do.
THEOREM TypeCorrect == Spec => []TypeOK
<1>1. IInv => TypeOK
  BY DEF IInv
<1> QED BY <1>1, Invariance, PTL

\* Writers exclude each other: from beginMigration() to the end of the last
\* destructor that can still change the database, a client with a live session
\* has the lock, and so has whoever has a write transaction open.
THEOREM WritersExclude == Spec => []WriterExclusion
<1>1. IInv => WriterExclusion
  BY DEF IInv, ClientOK, LockOK, Holds, TxnOK, WriterExclusion, Writing
<1> QED BY <1>1, Invariance, PTL

\* A finished call leaves no lock, no transaction, no active flag and no
\* disabled foreign keys behind, whichever exception it ended with.
THEOREM SessionsEndClean == Spec => []IdleSessionIsClean
<1>1. ASSUME IInv, NEW c \in Client, pc[c] = "Idle"
      PROVE  lock # c /\ txn[c] = None /\ ~active[c] /\ (conn[c] = "up" => fk[c])
  BY <1>1 DEF IInv, ClientOK, LockOK, Holds, TxnOK, Opened, FlagOK
<1>2. IInv => IdleSessionIsClean
  BY <1>1 DEF IdleSessionIsClean
<1> QED BY <1>2, Invariance, PTL
=============================================================================
