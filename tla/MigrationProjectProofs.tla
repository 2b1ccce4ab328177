----------------------- MODULE MigrationProjectProofs ----------------------
(***************************************************************************)
(* Proofs about MigrationProject for any number of processes, versions and *)
(* schemas: type correctness, exclusion of writers, one sound chain of     *)
(* migrations, immutable manifests, and catalogs that hold only what was   *)
(* accepted.                                                               *)
(*                                                                         *)
(* What a writer has in memory is the project as it is, because it has the *)
(* lock (WriterOK); what a reader has is only a part of it, because        *)
(* directories and manifests never go away (LoadOK).                       *)
(***************************************************************************)
EXTENDS MigrationProject, TLAPS

-----------------------------------------------------------------------------
(* The inductive invariant.                                                *)

\* Where a call has what loadEntries() has listed.
Loading == {"Read", "Verify", "Return", "Stage", "Publish", "Hash", "Write", "Rename"}

\* The lock belongs to the writer that is in a call.
LockOK(c) == lock = c <=> op[c] \in Writes \/ pc[c] = "Unlock"

\* Each call has its own steps.
CallOK(c) ==
    /\ pc[c] \in {"Idle", "Unlock"} <=> op[c] = None
    /\ pc[c] \in {"Stage", "Publish"} => op[c] \in {"make", "makeManual"}
    /\ pc[c] \in {"Hash", "Write", "Rename"} => op[c] = "finalize"
    /\ pc[c] \in {"Vacant", "Config", "Install"} => op[c] = "init"
    /\ pc[c] = "Return" => op[c] \in Reads

\* Script p[2] of version p[1] is what finalize() accepted.
Accepted(p) == p[2] \in Valid /\ \E k \in Ready : k[1] = p[1] /\ dirs[k].ready.checksum = p[2]

\* What loadEntries() remembers is true of the directories it has read.
LoadOK(c) ==
    /\ pc[c] = "List" => /\ view[c].last = None /\ view[c].parent = 0 /\ view[c].before = Empty
                         /\ ~view[c].draft /\ view[c].loaded = {}
    /\ pc[c] \in Loading =>
          /\ view[c].todo \subseteq Published /\ view[c].ready \subseteq Ready
          /\ view[c].last # None => view[c].last \in Published /\ view[c].sql \in Sql
          /\ ~view[c].draft => \A p \in view[c].loaded : Accepted(p)
    /\ pc[c] = "Verify" =>
          /\ view[c].last # None /\ ~view[c].draft /\ view[c].last[1] > view[c].parent
          /\ dirs[view[c].last].parent = view[c].parent
    /\ pc[c] \in Loading \ {"Verify"} =>
          IF view[c].last = None
          THEN view[c].parent = 0 /\ view[c].before = Empty /\ ~view[c].draft
          ELSE /\ view[c].parent = view[c].last[1]
               /\ view[c].before = dirs[view[c].last].after
               /\ ~view[c].draft => view[c].last \in view[c].ready
               /\ view[c].draft => view[c].last \notin view[c].ready
    /\ pc[c] = "Return" /\ op[c] = "catalog" => ~view[c].draft

\* The migration that make() or makeManual() is about to publish.
DraftOf(c) == [key |-> <<view[c].parent + 1, c>>,
               entry |-> [parent |-> view[c].parent, before |-> view[c].before,
                          after |-> view[c].after, sql |-> view[c].sql,
                          ready |-> None, tmp |-> FALSE]]

\* A writer has loaded the project as it is.
WriterOK(c) == lock = c =>
    /\ pc[c] = "List" => view[c].opened = Published /\ view[c].wasReady = Ready
    /\ pc[c] \in Loading => view[c].ready = Ready
    /\ pc[c] \in Loading \ {"Verify"} => \A k \in Published : k[1] <= view[c].parent \/ k \in view[c].todo
    /\ pc[c] = "Verify" => \A k \in Published : k[1] <= view[c].last[1] \/ k \in view[c].todo
    /\ pc[c] \in {"Stage", "Publish", "Hash", "Write", "Rename"} => view[c].todo = {}
    /\ pc[c] \in {"Stage", "Publish"} =>
          ~view[c].draft /\ view[c].parent # MaxVersion /\ view[c].sql \in Sql
    /\ pc[c] = "Publish" => staging = DraftOf(c)
    /\ pc[c] \in {"Hash", "Write", "Rename"} =>
          view[c].draft /\ view[c].last # None /\ view[c].sql \in Valid

\* What finalize() has read is what is there, unless somebody has edited it since.
FinalOK(c) == op[c] = "finalize" /\ pc[c] \in Loading /\ view[c].last # None =>
    /\ view[c].last \in torn \/ view[c].sql = dirs[view[c].last].sql
    /\ pc[c] \in {"Write", "Rename"} =>
          view[c].files \in Sql /\ (view[c].last \in torn \/ view[c].files = dirs[view[c].last].sql)

\* What was there when the iterator was opened has been met.
SeenOK(c) ==
    /\ pc[c] \in Loading \cup {"List"} => view[c].wasReady \subseteq view[c].opened /\ view[c].opened \subseteq Published
    /\ pc[c] \in Loading => view[c].wasReady \subseteq view[c].ready
    /\ pc[c] \in Loading \ {"Verify"} => \A k \in view[c].opened : k[1] <= view[c].parent \/ k \in view[c].todo
    /\ pc[c] = "Verify" => \A k \in view[c].opened : k[1] <= view[c].last[1] \/ k \in view[c].todo
    /\ pc[c] = "Return" => view[c].todo = {}

ClientOK(c) == LockOK(c) /\ CallOK(c) /\ LoadOK(c) /\ WriterOK(c) /\ FinalOK(c) /\ SeenOK(c)

\* Every manifest records checksums of scripts that were validated.
ManifestsOK == \A k \in Ready : dirs[k].ready.checksum \in Valid

IInv == TypeOK /\ ChainIsSound /\ ManifestsOK /\ ReadyMatchesFiles /\ \A c \in Client : ClientOK(c)

-----------------------------------------------------------------------------
(* Frames.                                                                 *)

\* Directories and manifests stay, and of the others only new ones appear.
Grows ==
    /\ Published \subseteq Published'
    /\ \A k \in Published : /\ dirs'[k].parent = dirs[k].parent
                            /\ dirs'[k].after = dirs[k].after
                            /\ dirs[k].ready # None => dirs'[k].ready = dirs[k].ready

\* A step of c leaves the other processes where they are, and the files alone
\* unless c has the lock.
OthersSame(c) ==
    /\ \A d \in Client \ {c} : /\ pc'[d] = pc[d] /\ op'[d] = op[d] /\ view'[d] = view[d]
                               /\ lock' = d <=> lock = d
    /\ lock # c /\ lock \in Client => UNCHANGED <<staging, dirs, torn>>
    /\ torn' = torn

\* What other processes know remains true.
LEMMA OthersKeep ==
    ASSUME IInv, NEW c \in Client, Grows, OthersSame(c), NEW d \in Client, d # c
    PROVE  ClientOK(d)'
<1>1. ClientOK(d) /\ pc'[d] = pc[d] /\ op'[d] = op[d] /\ view'[d] = view[d] /\ (lock' = d <=> lock = d)
  BY DEF IInv, OthersSame
<1>2. LockOK(d)' /\ CallOK(d)'
  BY <1>1 DEF ClientOK, LockOK, CallOK
<1>3. Ready \subseteq Ready' /\ Published \subseteq Published'
  BY DEF Grows, Ready, Published
<1>4. LoadOK(d)'
  <2>1. \A p : Accepted(p) => Accepted(p)'
    BY <1>3 DEF Accepted, Grows, Ready
  <2>2. pc[d] \in Loading /\ view[d].last # None => view[d].last \in Published
    BY <1>1 DEF ClientOK, LoadOK
  <2> QED BY <1>1, <1>3, <2>1, <2>2 DEF ClientOK, LoadOK, Grows, Loading
<1>5. WriterOK(d)'
  <2>1. lock = d => UNCHANGED <<staging, dirs>>
    BY DEF OthersSame
  <2> QED BY <1>1, <2>1 DEF ClientOK, WriterOK, DraftOf, Published, Ready
<1>6. FinalOK(d)'
  <2>1. op[d] = "finalize" => UNCHANGED <<dirs, torn>>
    BY <1>1 DEF ClientOK, LockOK, Writes, OthersSame
  <2> QED BY <1>1, <2>1 DEF ClientOK, FinalOK
<1>7. SeenOK(d)'
  BY <1>1, <1>3 DEF ClientOK, SeenOK
<1> QED BY <1>2, <1>4, <1>5, <1>6, <1>7 DEF ClientOK

\* Steps that leave the directories as they are.
LEMMA SameDirs ==
    ASSUME IInv, dirs' = dirs, torn' = torn
    PROVE  Grows /\ ChainIsSound' /\ ManifestsOK' /\ ReadyMatchesFiles'
BY DEF IInv, Grows, ChainIsSound, ManifestsOK, ReadyMatchesFiles, Ready, Published

\* A step of c keeps the invariant if c knows what it says afterwards.
LEMMA StepKeeps ==
    ASSUME IInv, NEW c \in Client, TypeOK', Grows, OthersSame(c),
           ChainIsSound', ManifestsOK', ReadyMatchesFiles', ClientOK(c)'
    PROVE  IInv' /\ Grows
BY OthersKeep DEF IInv

\* Nothing is known of a process that is in no call, or about to unlock.
LEMMA OutsideOK ==
    ASSUME NEW c, pc'[c] \in {"Idle", "Unlock"}, op'[c] = None, lock' = c <=> pc'[c] = "Unlock"
    PROVE  ClientOK(c)'
BY NoneAssumption DEF ClientOK, LockOK, CallOK, LoadOK, WriterOK, FinalOK, SeenOK, Loading

\* What a call begins with.
LEMMA NoViewTyped == NoView \in View
BY ProjectAssumption DEF NoView, View

\* Leave(c), whatever it leaves.
LEMMA LeaveOK ==
    ASSUME TypeOK, NEW c \in Client, Leave(c), lock' = lock
    PROVE  /\ pc' \in [Client -> Steps] /\ op' \in [Client -> Writes \cup Reads \cup {None}]
           /\ view' \in [Client -> View]
           /\ ClientOK(c)'
           /\ \A d \in Client \ {c} : pc'[d] = pc[d] /\ op'[d] = op[d] /\ view'[d] = view[d]
<1>2. pc' \in [Client -> Steps] /\ op' \in [Client -> Writes \cup Reads \cup {None}] /\ view' \in [Client -> View]
  BY NoViewTyped DEF TypeOK, Leave, Goto, Steps
<1>3. pc'[c] = (IF lock = c THEN "Unlock" ELSE "Idle") /\ op'[c] = None
  BY DEF TypeOK, Leave, Goto
<1>4. ClientOK(c)'
  BY <1>3, OutsideOK
<1> QED BY <1>2, <1>4 DEF TypeOK, Leave, Goto

\* A step that only leaves its call.
LEMMA LeaveStep ==
    ASSUME IInv, NEW c \in Client, Leave(c), UNCHANGED <<config, lock, staging, dirs, torn>>
    PROVE  IInv' /\ Grows
<1>1. TypeOK
  BY DEF IInv
<1>2. TypeOK' /\ OthersSame(c)
  BY <1>1, LeaveOK DEF TypeOK, OthersSame, Published
<1> QED BY <1>1, <1>2, LeaveOK, SameDirs, StepKeeps

\* What a call has in memory keeps its type.
LEMMA ViewUpdates ==
    ASSUME NEW v \in View
    PROVE  /\ \A o, r \in SUBSET Key, b \in BOOLEAN : [v EXCEPT !.opened = o, !.wasReady = r, !.staged = b] \in View
           /\ \A o, r \in SUBSET Key : [v EXCEPT !.todo = o, !.ready = r] \in View
           /\ \A k \in Key, q \in Sql : [v EXCEPT !.last = k, !.sql = q, !.todo = @ \ {k}] \in View
           /\ \A q \in Sql, s \in Schema : [v EXCEPT !.sql = q, !.after = s] \in View
BY ZenonT(40) DEF View

\* So does what it has loaded when it goes on to the next migration.
LEMMA ViewAdvance ==
    ASSUME NEW v \in View, NEW k \in Key, NEW q \in Sql, NEW s \in Schema, NEW b \in BOOLEAN
    PROVE  [v EXCEPT !.draft = b, !.loaded = @ \cup {<<k[1], q>>}, !.parent = k[1], !.before = s] \in View
<1>1. k[1] \in Version /\ k[1] \in 0..MaxVersion /\ <<k[1], q>> \in Version \X Sql
  BY ProjectAssumption DEF Key, Version
<1> QED BY <1>1 DEF View

\* A call begins, with the lock if it writes.
LEMMA CallStep ==
    ASSUME IInv, NEW c \in Client, NEW o \in Writes \cup Reads, Call(c, o)
    PROVE  IInv' /\ Grows
<1> USE ProjectAssumption, NoneAssumption DEF Call, LockProject, Goto, files
<1>1. TypeOK /\ ClientOK(c)
  BY DEF IInv
<1>2. TypeOK'
  BY <1>1 DEF TypeOK, Steps, View, NoView, Published, Ready
<1>3. OthersSame(c)
  BY <1>1 DEF TypeOK, OthersSame, Writes, ClientOK, LockOK
<1>4. LockOK(c)' /\ CallOK(c)'
  BY <1>1 DEF TypeOK, ClientOK, LockOK, CallOK, Writes, Reads
<1>5. LoadOK(c)'
  BY <1>1 DEF TypeOK, ClientOK, LoadOK, Loading, Accepted, Published, Ready
<1>6. WriterOK(c)'
  BY <1>1 DEF TypeOK, ClientOK, WriterOK, Loading, DraftOf, Published, Ready, NoView
<1>7. FinalOK(c)'
  BY <1>1 DEF TypeOK, ClientOK, FinalOK, LoadOK, Loading, Published
<1>9. SeenOK(c)'
  BY <1>1 DEF TypeOK, ClientOK, SeenOK, Loading, Published
<1> QED BY <1>2, <1>3, <1>4, <1>5, <1>6, <1>7, <1>9, SameDirs, StepKeeps DEF ClientOK

\* The temporary of project.json.
LEMMA WriteConfigStep ==
    ASSUME IInv, NEW c \in Client, WriteConfig(c)
    PROVE  IInv' /\ Grows
<1> USE ProjectAssumption, NoneAssumption DEF WriteConfig, Goto, files
<1>1. TypeOK /\ ClientOK(c)
  BY DEF IInv
<1>2. TypeOK'
  BY <1>1 DEF TypeOK, Steps, View, NoView, Published, Ready
<1>3. OthersSame(c)
  BY <1>1 DEF TypeOK, OthersSame, Writes, ClientOK, LockOK
<1>4. LockOK(c)' /\ CallOK(c)'
  BY <1>1 DEF TypeOK, ClientOK, LockOK, CallOK, Writes, Reads
<1>5. LoadOK(c)'
  BY <1>1 DEF TypeOK, ClientOK, LoadOK, Loading, Accepted, Published, Ready
<1>6. WriterOK(c)'
  BY <1>1 DEF TypeOK, ClientOK, WriterOK, Loading, DraftOf, Published, Ready, NoView
<1>7. FinalOK(c)'
  BY <1>1 DEF TypeOK, ClientOK, FinalOK, LoadOK, Loading, Published
<1>9. SeenOK(c)'
  BY <1>1 DEF TypeOK, ClientOK, SeenOK, Loading, Published
<1> QED BY <1>2, <1>3, <1>4, <1>5, <1>6, <1>7, <1>9, SameDirs, StepKeeps DEF ClientOK

\* project.json.
LEMMA InstallConfigStep ==
    ASSUME IInv, NEW c \in Client, InstallConfig(c)
    PROVE  IInv' /\ Grows
<1> USE ProjectAssumption, NoneAssumption DEF InstallConfig, Goto, files
<1>1. TypeOK /\ ClientOK(c)
  BY DEF IInv
<1>2. TypeOK'
  BY <1>1 DEF TypeOK, Steps, View, NoView, Published, Ready
<1>3. OthersSame(c)
  BY <1>1 DEF TypeOK, OthersSame, Writes, ClientOK, LockOK
<1>4. LockOK(c)' /\ CallOK(c)'
  BY <1>1 DEF TypeOK, ClientOK, LockOK, CallOK, Writes, Reads
<1>5. LoadOK(c)'
  BY <1>1 DEF TypeOK, ClientOK, LoadOK, Loading, Accepted, Published, Ready
<1>6. WriterOK(c)'
  BY <1>1 DEF TypeOK, ClientOK, WriterOK, Loading, DraftOf, Published, Ready, NoView
<1>7. FinalOK(c)'
  BY <1>1 DEF TypeOK, ClientOK, FinalOK, LoadOK, Loading, Published
<1>9. SeenOK(c)'
  BY <1>1 DEF TypeOK, ClientOK, SeenOK, Loading, Published
<1> QED BY <1>2, <1>3, <1>4, <1>5, <1>6, <1>7, <1>9, SameDirs, StepKeeps DEF ClientOK

\* The iterator is opened.
LEMMA OpenStep ==
    ASSUME IInv, NEW c \in Client, Open(c)
    PROVE  IInv' /\ Grows
<1> USE ProjectAssumption, NoneAssumption DEF Open, Goto, files
<1>1. TypeOK /\ ClientOK(c)
  BY DEF IInv
<1>2. TypeOK'
  <2>1. Published \subseteq Key /\ Ready \subseteq Key
    BY <1>1 DEF TypeOK, Ready
  <2>2. (staging # None) \in BOOLEAN
    OBVIOUS
  <2>3. [NoView EXCEPT !.opened = Published, !.wasReady = Ready, !.staged = (staging # None)] \in View
    BY <2>1, <2>2, NoViewTyped, ViewUpdates, Zenon
  <2> QED BY <1>1, <2>3 DEF TypeOK, Steps, Published
<1>3. OthersSame(c)
  BY <1>1 DEF TypeOK, OthersSame, Writes, ClientOK, LockOK
<1>4. LockOK(c)' /\ CallOK(c)'
  BY <1>1 DEF TypeOK, ClientOK, LockOK, CallOK, Writes, Reads
<1>5. LoadOK(c)'
  BY <1>1 DEF TypeOK, LoadOK, Loading, NoView
<1>6. WriterOK(c)'
  BY <1>1 DEF TypeOK, ClientOK, WriterOK, Loading, DraftOf, Published, Ready, NoView
<1>7. FinalOK(c)'
  BY <1>1 DEF TypeOK, ClientOK, FinalOK, LoadOK, Loading, Published
<1>9. SeenOK(c)'
  <2>1. view'[c].opened = Published /\ view'[c].wasReady = Ready /\ pc'[c] = "List" /\ dirs' = dirs
    BY <1>1 DEF TypeOK, NoView
  <2> QED BY <2>1 DEF SeenOK, Loading, Ready, Published
<1> QED BY <1>2, <1>3, <1>4, <1>5, <1>6, <1>7, <1>9, SameDirs, StepKeeps DEF ClientOK

\* A denied rename.
LEMMA PublishDeniedStep ==
    ASSUME IInv, NEW c \in Client, PublishDenied(c)
    PROVE  IInv' /\ Grows
<1> USE ProjectAssumption, NoneAssumption DEF PublishDenied, files
<1>1. TypeOK /\ ClientOK(c)
  BY DEF IInv
<1>2. TypeOK'
  BY <1>1, SMTT(30) DEF TypeOK, Steps, View, NoView, Published, Ready
<1>3. OthersSame(c)
  BY <1>1 DEF TypeOK, OthersSame, Writes, ClientOK, LockOK
<1>4. LockOK(c)' /\ CallOK(c)'
  BY <1>1 DEF TypeOK, ClientOK, LockOK, CallOK, Writes, Reads
<1>5. LoadOK(c)'
  BY <1>1 DEF TypeOK, ClientOK, LoadOK, Loading, Accepted, Published, Ready
<1>6. WriterOK(c)'
  BY <1>1 DEF TypeOK, ClientOK, WriterOK, Loading, DraftOf, Published, Ready, NoView
<1>7. FinalOK(c)'
  BY <1>1 DEF TypeOK, ClientOK, FinalOK, LoadOK, Loading, Published
<1>9. SeenOK(c)'
  BY <1>1 DEF TypeOK, ClientOK, SeenOK, Loading, Published
<1> QED BY <1>2, <1>3, <1>4, <1>5, <1>6, <1>7, <1>9, SameDirs, StepKeeps DEF ClientOK

\* The second reading of the scripts.
LEMMA HashFilesStep ==
    ASSUME IInv, NEW c \in Client, HashFiles(c)
    PROVE  IInv' /\ Grows
<1> USE ProjectAssumption, NoneAssumption DEF HashFiles, Goto, files
<1>1. TypeOK /\ ClientOK(c)
  BY DEF IInv
<1>8. op[c] = "finalize" /\ view[c].last \in Published
  BY <1>1 DEF ClientOK, LockOK, CallOK, LoadOK, WriterOK, Loading, Writes
<1>2. TypeOK'
  <2>1. dirs[view[c].last].sql \in Sql
    BY <1>1, <1>8 DEF TypeOK, Entry
  <2> QED BY <1>1, <2>1, SMTT(30) DEF TypeOK, Steps, View, Published
<1>3. OthersSame(c)
  BY <1>1 DEF TypeOK, OthersSame, Writes, ClientOK, LockOK
<1>4. LockOK(c)' /\ CallOK(c)'
  BY <1>1 DEF TypeOK, ClientOK, LockOK, CallOK, Writes, Reads
<1>5. LoadOK(c)'
  BY <1>1 DEF TypeOK, ClientOK, LoadOK, Loading, Accepted, Published, Ready
<1>6. WriterOK(c)'
  BY <1>1 DEF TypeOK, ClientOK, WriterOK, Loading, DraftOf, Published, Ready, NoView
<1>7. FinalOK(c)'
  BY <1>1, <1>8 DEF TypeOK, ClientOK, FinalOK, Loading, Entry
<1>9. SeenOK(c)'
  BY <1>1 DEF TypeOK, ClientOK, SeenOK, Loading, Published
<1> QED BY <1>2, <1>3, <1>4, <1>5, <1>6, <1>7, <1>9, SameDirs, StepKeeps DEF ClientOK

\* ~ProjectLock.
LEMMA UnlockStep ==
    ASSUME IInv, NEW c \in Client, Unlock(c)
    PROVE  IInv' /\ Grows
<1> USE ProjectAssumption, NoneAssumption DEF Unlock, Goto, files
<1>1. TypeOK /\ ClientOK(c)
  BY DEF IInv
<1>2. TypeOK'
  BY <1>1 DEF TypeOK, Steps, View, NoView, Published, Ready
<1>3. OthersSame(c)
  BY <1>1 DEF TypeOK, OthersSame, Writes, ClientOK, LockOK
<1>4. LockOK(c)' /\ CallOK(c)'
  BY <1>1, OutsideOK DEF TypeOK, ClientOK, LockOK, CallOK, Writes, Reads
<1>5. LoadOK(c)'
  BY <1>1 DEF TypeOK, ClientOK, LoadOK, Loading, Accepted, Published, Ready
<1>6. WriterOK(c)'
  BY <1>1 DEF TypeOK, ClientOK, WriterOK, Loading, DraftOf, Published, Ready, NoView
<1>7. FinalOK(c)'
  BY <1>1 DEF TypeOK, ClientOK, FinalOK, LoadOK, Loading, Published
<1>9. SeenOK(c)'
  BY <1>1 DEF TypeOK, ClientOK, SeenOK, Loading, Published
<1> QED BY <1>2, <1>3, <1>4, <1>5, <1>6, <1>7, <1>9, SameDirs, StepKeeps DEF ClientOK

\* init() looks at the directory.
LEMMA VacantStep ==
    ASSUME IInv, NEW c \in Client, Vacant(c)
    PROVE  IInv' /\ Grows
<1>0. CASE Leave(c) /\ UNCHANGED <<config, lock, staging, dirs, torn>>
  BY <1>0, LeaveStep
<1> SUFFICES ASSUME pc[c] = "Vacant", Goto(c, "Config"), UNCHANGED <<config, lock, staging, dirs, op, view, torn>> PROVE IInv' /\ Grows
  BY <1>0 DEF Vacant, files
<1> USE ProjectAssumption, NoneAssumption DEF Vacant, Goto, files
<1>1. TypeOK /\ ClientOK(c)
  BY DEF IInv
<1>2. TypeOK'
  BY <1>1 DEF TypeOK, Steps, View, NoView, Published, Ready
<1>3. OthersSame(c)
  BY <1>1 DEF TypeOK, OthersSame, Writes, ClientOK, LockOK
<1>4. LockOK(c)' /\ CallOK(c)'
  BY <1>1 DEF TypeOK, ClientOK, LockOK, CallOK, Writes, Reads
<1>5. LoadOK(c)'
  BY <1>1 DEF TypeOK, ClientOK, LoadOK, Loading, Accepted, Published, Ready
<1>6. WriterOK(c)'
  BY <1>1 DEF TypeOK, ClientOK, WriterOK, Loading, DraftOf, Published, Ready, NoView
<1>7. FinalOK(c)'
  BY <1>1 DEF TypeOK, ClientOK, FinalOK, LoadOK, Loading, Published
<1>9. SeenOK(c)'
  BY <1>1 DEF TypeOK, ClientOK, SeenOK, Loading, Published
<1> QED BY <1>2, <1>3, <1>4, <1>5, <1>6, <1>7, <1>9, SameDirs, StepKeeps DEF ClientOK

\* The iteration ends.
LEMMA ListStep ==
    ASSUME IInv, NEW c \in Client, List(c)
    PROVE  IInv' /\ Grows
<1>0. CASE Leave(c) /\ UNCHANGED <<config, lock, staging, dirs, torn>>
  BY <1>0, LeaveStep
<1> SUFFICES ASSUME pc[c] = "List", NEW keys \in SUBSET Published, NEW ready \in SUBSET Ready, Listed(c, keys, ready),
                    view' = [view EXCEPT ![c].todo = keys, ![c].ready = ready \cap keys],
                    Goto(c, "Read"), UNCHANGED <<config, lock, staging, dirs, op, torn>> PROVE IInv' /\ Grows
  BY <1>0 DEF List, files
<1> USE ProjectAssumption, NoneAssumption DEF Goto, files
<1>1. TypeOK /\ ClientOK(c)
  BY DEF IInv
<1>2. TypeOK'
  <2>1. keys \subseteq Key /\ ready \cap keys \subseteq Key
    BY <1>1 DEF TypeOK
  <2>2. [view[c] EXCEPT !.todo = keys, !.ready = ready \cap keys] \in View
    BY <1>1, <2>1, ViewUpdates DEF TypeOK
  <2> QED BY <1>1, <2>2 DEF TypeOK, Steps, Published
<1>3. OthersSame(c)
  BY <1>1 DEF TypeOK, OthersSame
<1>4. LockOK(c)' /\ CallOK(c)'
  BY <1>1 DEF TypeOK, ClientOK, LockOK, CallOK, Writes, Reads
<1>5. LoadOK(c)'
  BY <1>1 DEF TypeOK, ClientOK, LoadOK, Loading, Published, Ready, NoView
<1>6. WriterOK(c)'
  BY <1>1 DEF TypeOK, ClientOK, WriterOK, Loading, Published, Ready, NoView, Listed
<1>7. FinalOK(c)'
  BY <1>1 DEF TypeOK, ClientOK, FinalOK, LoadOK, Loading, Published
<1>9. SeenOK(c)'
  <2>1. view'[c].todo = keys /\ view'[c].ready = ready \cap keys /\ pc'[c] = "Read" /\ dirs' = dirs
        /\ view'[c].opened = view[c].opened /\ view'[c].wasReady = view[c].wasReady
    BY <1>1 DEF TypeOK, View
  <2>2. view[c].wasReady \subseteq view[c].opened /\ view[c].opened \subseteq Published
    BY <1>1 DEF ClientOK, SeenOK
  <2> QED BY <2>1, <2>2 DEF SeenOK, Listed, Loading, Published
<1> QED BY <1>2, <1>3, <1>4, <1>5, <1>6, <1>7, <1>9, SameDirs, StepKeeps DEF ClientOK

\* The next directory is read.
LEMMA ReadEntryStep ==
    ASSUME IInv, NEW c \in Client, ReadEntry(c)
    PROVE  IInv' /\ Grows
<1>0. CASE Leave(c) /\ UNCHANGED <<config, lock, staging, dirs, torn>>
  BY <1>0, LeaveStep
<1> SUFFICES ASSUME pc[c] = "Read", NEW k \in view[c].todo, \A other \in view[c].todo : k[1] <= other[1], Follows(c, k),
                    view' = [view EXCEPT ![c].last = k, ![c].sql = dirs[k].sql, ![c].todo = @ \ {k}],
                    Goto(c, "Verify"), UNCHANGED op, UNCHANGED <<config, lock, staging, dirs, torn>> PROVE IInv' /\ Grows
  BY <1>0 DEF ReadEntry, files
<1> USE ProjectAssumption, NoneAssumption DEF Goto, files
<1>1. TypeOK /\ ClientOK(c)
  BY DEF IInv
<1>8. k \in Published /\ k \in Key /\ dirs[k].sql \in Sql
  BY <1>1 DEF TypeOK, ClientOK, LoadOK, Loading, Entry
<1>2. TypeOK'
  <2>1. [view[c] EXCEPT !.last = k, !.sql = dirs[k].sql, !.todo = @ \ {k}] \in View
    BY <1>1, <1>8, ViewUpdates DEF TypeOK
  <2> QED BY <1>1, <2>1 DEF TypeOK, Steps, Published
<1>3. OthersSame(c)
  BY <1>1 DEF TypeOK, OthersSame
<1>4. LockOK(c)' /\ CallOK(c)'
  BY <1>1 DEF TypeOK, ClientOK, LockOK, CallOK, Writes, Reads
<1>5. LoadOK(c)'
  BY <1>1, <1>8 DEF TypeOK, ClientOK, LoadOK, Loading, Accepted, Published, Ready, Follows
<1>6. WriterOK(c)'
  <2>1. lock = c => \A j \in Published : j[1] <= view[c].parent \/ j \in view[c].todo
    BY <1>1 DEF ClientOK, WriterOK, Loading
  <2>2. view'[c] = [view[c] EXCEPT !.last = k, !.sql = dirs[k].sql, !.todo = @ \ {k}]
    BY <1>1 DEF TypeOK
  <2>3. \A j \in Published : j[1] \in Nat /\ view[c].parent \in Nat
    BY <1>1 DEF TypeOK, Key, Version, View
  <2>4. lock = c => \A j \in Published : j[1] <= k[1] \/ j \in view[c].todo \ {k}
    BY <1>8, <2>1, <2>3 DEF Follows
  <2>5. view'[c].last = k /\ view'[c].todo = view[c].todo \ {k} /\ view'[c].ready = view[c].ready
    BY <1>1, <2>2 DEF TypeOK, View
  <2>6. pc'[c] = "Verify" /\ lock' = lock /\ dirs' = dirs
    BY <1>1 DEF TypeOK
  <2> QED BY <1>1, <2>4, <2>5, <2>6 DEF ClientOK, WriterOK, Loading, Published, Ready
<1>7. FinalOK(c)'
  BY <1>1, <1>8 DEF TypeOK, FinalOK, Loading
<1>9. SeenOK(c)'
  <2>1. /\ view'[c].todo = view[c].todo \ {k} /\ view'[c].last = k /\ view'[c].ready = view[c].ready
        /\ view'[c].opened = view[c].opened /\ view'[c].wasReady = view[c].wasReady
        /\ pc'[c] = "Verify" /\ dirs' = dirs
    BY <1>1 DEF TypeOK, View
  <2>2. \A j \in view[c].opened : j \in Published /\ (j[1] <= view[c].parent \/ j \in view[c].todo)
    BY <1>1 DEF ClientOK, SeenOK, Loading
  <2>3. \A j \in Published : j[1] \in Nat /\ view[c].parent \in Nat
    BY <1>1 DEF TypeOK, Key, Version, View
  <2>4. \A j \in view[c].opened : j[1] <= k[1] \/ j \in view[c].todo \ {k}
    BY <1>8, <2>2, <2>3 DEF Follows
  <2> QED BY <1>1, <2>1, <2>4 DEF ClientOK, SeenOK, Loading, Published
<1> QED BY <1>2, <1>3, <1>4, <1>5, <1>6, <1>7, <1>9, SameDirs, StepKeeps DEF ClientOK

\* The directory read last is verified.
LEMMA VerifyEntryStep ==
    ASSUME IInv, NEW c \in Client, VerifyEntry(c)
    PROVE  IInv' /\ Grows
<1>0. CASE Leave(c) /\ UNCHANGED <<config, lock, staging, dirs, torn>>
  BY <1>0, LeaveStep
<1> SUFFICES ASSUME pc[c] = "Verify", NEW k, k = view[c].last, ManifestMatches(c, k),
                    view' = [view EXCEPT ![c].draft = (k \notin view[c].ready),
                                         ![c].loaded = @ \cup {<<k[1], view[c].sql>>},
                                         ![c].parent = k[1], ![c].before = dirs[k].after],
                    Goto(c, "Read"), UNCHANGED op, UNCHANGED <<config, lock, staging, dirs, torn>> PROVE IInv' /\ Grows
  BY <1>0 DEF VerifyEntry, files
<1> USE ProjectAssumption, NoneAssumption DEF Goto, files
<1>1. TypeOK /\ ClientOK(c)
  BY DEF IInv
<1>8. k \in Published /\ k \in Key /\ view[c].sql \in Sql /\ dirs[k].after \in Schema /\ k # None
  BY <1>1 DEF TypeOK, ClientOK, LoadOK, Loading, Entry
<1>2. TypeOK'
  <2>1. [view[c] EXCEPT !.draft = (k \notin view[c].ready), !.loaded = @ \cup {<<k[1], view[c].sql>>},
                        !.parent = k[1], !.before = dirs[k].after] \in View
    <3>1. (k \notin view[c].ready) \in BOOLEAN
      OBVIOUS
    <3>2. view[c] \in View
      BY <1>1 DEF TypeOK
    <3> QED BY <1>8, <3>1, <3>2, ViewAdvance, Zenon
  <2> QED BY <1>1, <2>1 DEF TypeOK, Steps, Published
<1>3. OthersSame(c)
  BY <1>1 DEF TypeOK, OthersSame
<1>4. LockOK(c)' /\ CallOK(c)'
  BY <1>1 DEF TypeOK, ClientOK, LockOK, CallOK, Writes, Reads
<1>5. LoadOK(c)'
  <2>1. view'[c].last = k /\ view'[c].parent = k[1] /\ view'[c].before = dirs[k].after /\ view'[c].ready = view[c].ready
        /\ view'[c].todo = view[c].todo /\ view'[c].sql = view[c].sql
        /\ view'[c].loaded = view[c].loaded \cup {<<k[1], view[c].sql>>}
    BY <1>1 DEF TypeOK, View
  <2>2. view'[c].draft <=> k \notin view[c].ready
    <3>1. \A b : [view EXCEPT ![c].draft = b, ![c].loaded = @ \cup {<<k[1], view[c].sql>>},
                           ![c].parent = k[1], ![c].before = dirs[k].after][c].draft = b
      BY <1>1 DEF TypeOK, View
    <3>2. view'[c].draft = (k \notin view[c].ready)
      BY <3>1, Zenon
    <3> QED BY <3>2, Zenon
  <2>3. \A p : Accepted(p) => Accepted(p)'
    BY DEF Accepted, Ready, Published
  <2>4. k \in view[c].ready => Accepted(<<k[1], view[c].sql>>)
    BY <1>1, <1>8 DEF ManifestMatches, IInv, ManifestsOK, Accepted, ClientOK, LoadOK, Loading
  <2>5. \A p \in view[c].loaded : Accepted(p)
    BY <1>1 DEF ClientOK, LoadOK, Loading
  <2>6. pc'[c] = "Read"
    BY <1>1 DEF TypeOK
  <2>7. ~view'[c].draft => \A p \in view'[c].loaded : Accepted(p)'
    BY <2>1, <2>2, <2>3, <2>4, <2>5
  <2>8. view[c].ready \subseteq Ready /\ view[c].todo \subseteq Published
    BY <1>1 DEF ClientOK, LoadOK, Loading
  <2> QED BY <1>8, <2>1, <2>2, <2>6, <2>7, <2>8 DEF LoadOK, Loading, Published, Ready
<1>6. WriterOK(c)'
  <2>1. view'[c].last = k /\ view'[c].parent = k[1] /\ view'[c].ready = view[c].ready /\ view'[c].todo = view[c].todo
    BY <1>1 DEF TypeOK, View
  <2>2. pc'[c] = "Read"
    BY <1>1 DEF TypeOK
  <2> QED BY <1>1, <2>1, <2>2 DEF ClientOK, WriterOK, Loading, Published, Ready
<1>7. FinalOK(c)'
  BY <1>1, <1>8 DEF TypeOK, ClientOK, FinalOK, Loading
<1>9. SeenOK(c)'
  BY <1>1 DEF TypeOK, ClientOK, SeenOK, Loading, Published
<1> QED BY <1>2, <1>3, <1>4, <1>5, <1>6, <1>7, <1>9, SameDirs, StepKeeps DEF ClientOK

\* The readers of a project decide.
LEMMA DecideReadStep ==
    ASSUME IInv, NEW c \in Client, DecideRead(c)
    PROVE  IInv' /\ Grows
<1>0. CASE Leave(c) /\ UNCHANGED <<config, lock, staging, dirs, torn>>
  BY <1>0, LeaveStep
<1> SUFFICES ASSUME AllLoaded(c), op[c] \in Reads, op[c] = "draftVersion" \/ ~view[c].draft, Goto(c, "Return"),
                    UNCHANGED <<op, view>>, UNCHANGED <<config, lock, staging, dirs, torn>> PROVE IInv' /\ Grows
  BY <1>0 DEF DecideRead, files
<1> USE ProjectAssumption, NoneAssumption DEF AllLoaded, Goto, files
<1>1. TypeOK /\ ClientOK(c)
  BY DEF IInv
<1>2. TypeOK'
  BY <1>1 DEF TypeOK, Steps, View, NoView, Published, Ready
<1>3. OthersSame(c)
  BY <1>1 DEF TypeOK, OthersSame
<1>4. LockOK(c)' /\ CallOK(c)'
  BY <1>1 DEF TypeOK, ClientOK, LockOK, CallOK, Writes, Reads
<1>5. LoadOK(c)'
  BY <1>1 DEF TypeOK, ClientOK, LoadOK, Loading, Accepted, Published, Ready
<1>6. WriterOK(c)'
  BY <1>1 DEF TypeOK, ClientOK, WriterOK, Loading, DraftOf, Published, Ready, NoView
<1>7. FinalOK(c)'
  BY <1>1 DEF TypeOK, ClientOK, FinalOK, LoadOK, Loading, Published
<1>9. SeenOK(c)'
  BY <1>1 DEF TypeOK, ClientOK, SeenOK, Loading, Published
<1> QED BY <1>2, <1>3, <1>4, <1>5, <1>6, <1>7, <1>9, SameDirs, StepKeeps DEF ClientOK

\* make() and makeManual() decide.
LEMMA DecideMakeStep ==
    ASSUME IInv, NEW c \in Client, DecideMake(c)
    PROVE  IInv' /\ Grows
<1>0. CASE Leave(c) /\ UNCHANGED <<config, lock, staging, dirs, torn>>
  BY <1>0, LeaveStep
<1> SUFFICES ASSUME AllLoaded(c), op[c] \in {"make", "makeManual"}, NEW after \in Schema, MayMake(c, after),
                    view' = [view EXCEPT ![c].sql = Made, ![c].after = after], Goto(c, "Stage"), UNCHANGED op, UNCHANGED <<config, lock, staging, dirs, torn>> PROVE IInv' /\ Grows
  BY <1>0 DEF DecideMake, files
<1> USE ProjectAssumption, NoneAssumption DEF AllLoaded, MayMake, Goto, files
<1>1. TypeOK /\ ClientOK(c)
  BY DEF IInv
<1>2. TypeOK'
  <2>1. [view[c] EXCEPT !.sql = Made, !.after = after] \in View
    BY <1>1, ViewUpdates DEF TypeOK
  <2> QED BY <1>1, <2>1 DEF TypeOK, Steps, Published
<1>3. OthersSame(c)
  BY <1>1 DEF TypeOK, OthersSame
<1>4. LockOK(c)' /\ CallOK(c)'
  BY <1>1 DEF TypeOK, ClientOK, LockOK, CallOK, Writes, Reads
<1>5. LoadOK(c)'
  BY <1>1 DEF TypeOK, ClientOK, LoadOK, Loading, Accepted, Published, Ready
<1>6. WriterOK(c)'
  BY <1>1 DEF TypeOK, ClientOK, WriterOK, Loading, DraftOf, Published, Ready, NoView
<1>7. FinalOK(c)'
  BY <1>1 DEF TypeOK, ClientOK, FinalOK, LoadOK, Loading, Published
<1>9. SeenOK(c)'
  BY <1>1 DEF TypeOK, ClientOK, SeenOK, Loading, Published
<1> QED BY <1>2, <1>3, <1>4, <1>5, <1>6, <1>7, <1>9, SameDirs, StepKeeps DEF ClientOK

\* finalize() decides.
LEMMA DecideFinalizeStep ==
    ASSUME IInv, NEW c \in Client, DecideFinalize(c)
    PROVE  IInv' /\ Grows
<1>0. CASE Leave(c) /\ UNCHANGED <<config, lock, staging, dirs, torn>>
  BY <1>0, LeaveStep
<1> SUFFICES ASSUME AllLoaded(c), op[c] = "finalize", view[c].draft, view[c].sql \in Valid, Goto(c, "Hash"), UNCHANGED <<op, view>>, UNCHANGED <<config, lock, staging, dirs, torn>> PROVE IInv' /\ Grows
  BY <1>0 DEF DecideFinalize, MayFinalize, files
<1> USE ProjectAssumption, NoneAssumption DEF AllLoaded, Goto, files
<1>1. TypeOK /\ ClientOK(c)
  BY DEF IInv
<1>2. TypeOK'
  BY <1>1 DEF TypeOK, Steps, View, NoView, Published, Ready
<1>3. OthersSame(c)
  BY <1>1 DEF TypeOK, OthersSame
<1>4. LockOK(c)' /\ CallOK(c)'
  BY <1>1 DEF TypeOK, ClientOK, LockOK, CallOK, Writes, Reads
<1>5. LoadOK(c)'
  BY <1>1 DEF TypeOK, ClientOK, LoadOK, Loading, Accepted, Published, Ready
<1>6. WriterOK(c)'
  BY <1>1 DEF TypeOK, ClientOK, WriterOK, LoadOK, Loading, DraftOf, Published, Ready
<1>7. FinalOK(c)'
  BY <1>1 DEF TypeOK, ClientOK, FinalOK, LoadOK, Loading, Published
<1>9. SeenOK(c)'
  BY <1>1 DEF TypeOK, ClientOK, SeenOK, Loading, Published
<1> QED BY <1>2, <1>3, <1>4, <1>5, <1>6, <1>7, <1>9, SameDirs, StepKeeps DEF ClientOK

\* The draft is staged.
LEMMA StageStep ==
    ASSUME IInv, NEW c \in Client, Stage(c)
    PROVE  IInv' /\ Grows
<1>0. CASE Leave(c) /\ UNCHANGED <<config, lock, staging, dirs, torn>>
  BY <1>0, LeaveStep
<1> SUFFICES ASSUME pc[c] = "Stage", staging' = DraftOf(c), Goto(c, "Publish"), UNCHANGED <<config, lock, dirs, op, view, torn>> PROVE IInv' /\ Grows
  BY <1>0 DEF Stage, DraftOf
<1> USE ProjectAssumption, NoneAssumption DEF Goto, files
<1>1. TypeOK /\ ClientOK(c)
  BY DEF IInv
<1>8. lock = c /\ view[c].parent # MaxVersion /\ view[c].sql \in Sql
  BY <1>1 DEF ClientOK, LockOK, CallOK, WriterOK, Writes
<1>2. TypeOK'
  <2>1. <<view[c].parent + 1, c>> \in Key
    <3>1. view[c].parent \in 0..MaxVersion
      BY <1>1 DEF TypeOK, View
    <3>2. view[c].parent + 1 \in 1..MaxVersion
      BY <1>8, <3>1
    <3> QED BY <3>2 DEF Key, Version
  <2>2. DraftOf(c).entry \in Entry
    BY <1>1, <1>8 DEF TypeOK, View, DraftOf, Entry
  <2>3. DraftOf(c) \in Staged
    BY <2>1, <2>2 DEF DraftOf, Staged
  <2> QED BY <1>1, <2>3 DEF TypeOK, Steps, Published
<1>3. OthersSame(c)
  BY <1>1, <1>8 DEF TypeOK, OthersSame
<1>4. LockOK(c)' /\ CallOK(c)'
  BY <1>1 DEF TypeOK, ClientOK, LockOK, CallOK, Writes, Reads
<1>5. LoadOK(c)'
  BY <1>1 DEF TypeOK, ClientOK, LoadOK, Loading, Accepted, Published, Ready
<1>6. WriterOK(c)'
  BY <1>1, <1>8 DEF TypeOK, ClientOK, WriterOK, Loading, DraftOf, Published, Ready
<1>7. FinalOK(c)'
  BY <1>1 DEF TypeOK, ClientOK, FinalOK, LoadOK, Loading, Published
<1>9. SeenOK(c)'
  BY <1>1 DEF TypeOK, ClientOK, SeenOK, Loading, Published
<1> QED BY <1>2, <1>3, <1>4, <1>5, <1>6, <1>7, <1>9, SameDirs, StepKeeps DEF ClientOK

\* publishDirectory(): the new version follows the last one, which is ready.
LEMMA PublishStep ==
    ASSUME IInv, NEW c \in Client, Publish(c)
    PROVE  IInv' /\ Grows
<1> DEFINE k == <<view[c].parent + 1, c>>
           e == DraftOf(c).entry
<1> USE ProjectAssumption, NoneAssumption
<1>1. TypeOK /\ ClientOK(c) /\ pc[c] = "Publish"
  BY DEF IInv, Publish
<1>2. lock = c /\ staging = DraftOf(c) /\ view[c].todo = {} /\ ~view[c].draft /\ view[c].ready = Ready
  BY <1>1 DEF ClientOK, LockOK, CallOK, WriterOK, Writes, Loading
<1>3. k \in Key /\ e \in Entry /\ k \notin Published
  BY <1>1, <1>2 DEF Publish, DraftOf, TypeOK, Staged
<1>4. dirs' = [j \in Published \cup {k} |-> IF j = k THEN e ELSE dirs[j]]
  BY <1>2 DEF Publish, DraftOf
<1>5. Published' = Published \cup {k} /\ dirs'[k] = e /\ \A j \in Published : dirs'[j] = dirs[j]
  BY <1>3, <1>4 DEF Published
<1>6. e.ready = None /\ e.parent = view[c].parent /\ e.before = view[c].before
  BY DEF DraftOf
<1>7. Ready' = Ready
  BY <1>3, <1>5, <1>6 DEF Ready
<1>8. TypeOK'
  <2>1. dirs' \in [Published' -> Entry]
    BY <1>1, <1>3, <1>4, <1>5 DEF TypeOK
  <2> QED BY <1>1, <1>3, <1>5, <2>1, LeaveOK DEF TypeOK, Publish
<1>9. Grows
  BY <1>5 DEF Grows
<1>10. OthersSame(c)
  BY <1>1, <1>2, LeaveOK DEF OthersSame, Publish
<1>11. ChainIsSound'
  <2>1. view[c].parent \in Nat /\ k[1] = view[c].parent + 1
    BY <1>1 DEF TypeOK, View
  <2>2. \A j \in Published : j[1] <= view[c].parent /\ j[1] \in Nat
    BY <1>1, <1>2 DEF ClientOK, WriterOK, Loading, TypeOK, Key, Version
  <2>3. \A i, j \in Published' : i[1] = j[1] => i = j
    BY <1>5, <2>1, <2>2 DEF IInv, ChainIsSound
  <2>4. ASSUME NEW j \in Published
        PROVE  /\ dirs'[j].parent = j[1] - 1
               /\ j[1] = 1 => dirs'[j].before = Empty
               /\ j[1] > 1 => \E i \in Ready' : i[1] = j[1] - 1 /\ dirs'[i].after = dirs'[j].before
    <3>1. Ready \subseteq Published
      BY DEF Ready
    <3> QED BY <1>5, <1>7, <3>1 DEF IInv, ChainIsSound
  <2>5. view[c].last = None => view[c].parent = 0 /\ view[c].before = Empty
    BY <1>1 DEF ClientOK, LoadOK, Loading
  <2>6. view[c].last # None => /\ view[c].last \in Ready /\ view[c].last \in Published /\ view[c].last[1] >= 1
                               /\ view[c].parent = view[c].last[1] /\ view[c].before = dirs[view[c].last].after
    BY <1>1, <1>2 DEF ClientOK, LoadOK, Loading, TypeOK, Key, Version
  <2>7. /\ dirs'[k].parent = k[1] - 1
        /\ k[1] = 1 => dirs'[k].before = Empty
        /\ k[1] > 1 => \E i \in Ready' : i[1] = k[1] - 1 /\ dirs'[i].after = dirs'[k].before
    BY <1>5, <1>6, <1>7, <2>1, <2>5, <2>6
  <2> QED BY <1>5, <2>3, <2>4, <2>7 DEF ChainIsSound
<1>12. ManifestsOK' /\ ReadyMatchesFiles'
  BY <1>5, <1>7 DEF IInv, ManifestsOK, ReadyMatchesFiles, Ready, Publish
<1> QED BY <1>1, <1>8, <1>9, <1>10, <1>11, <1>12, LeaveOK, StepKeeps DEF Publish

\* .ready.json.tmp comes and goes.
LEMMA TmpOnly ==
    ASSUME IInv, NEW k \in Published, NEW b \in BOOLEAN, dirs' = [dirs EXCEPT ![k].tmp = b], torn' = torn
    PROVE  /\ dirs' \in [Published' -> Entry] /\ Published' = Published /\ Ready' = Ready
           /\ Grows /\ ChainIsSound' /\ ManifestsOK' /\ ReadyMatchesFiles'
           /\ \A j \in Published : dirs'[j].sql = dirs[j].sql /\ dirs'[j].after = dirs[j].after
<1>1. dirs \in [Published -> Entry] /\ dirs[k] \in Entry
  BY DEF IInv, TypeOK
<1>2. Published' = Published
  BY DEF Published
<1>3. dirs' \in [Published -> Entry]
  BY <1>1 DEF Entry
<1>4. \A j \in Published : /\ dirs'[j].parent = dirs[j].parent /\ dirs'[j].before = dirs[j].before
                           /\ dirs'[j].after = dirs[j].after /\ dirs'[j].sql = dirs[j].sql
                           /\ dirs'[j].ready = dirs[j].ready
  BY <1>1 DEF Entry
<1>5. Ready' = Ready
  BY <1>2, <1>4 DEF Ready
<1>6. Ready \subseteq Published
  BY DEF Ready
<1>7. ChainIsSound'
  BY <1>2, <1>4, <1>5, <1>6 DEF IInv, ChainIsSound
<1>8. Grows /\ ManifestsOK' /\ ReadyMatchesFiles'
  BY <1>2, <1>4, <1>5, <1>6 DEF IInv, Grows, ManifestsOK, ReadyMatchesFiles
<1> QED BY <1>2, <1>3, <1>4, <1>5, <1>7, <1>8

\* .ready.json.tmp is written.
LEMMA WriteReadyStep ==
    ASSUME IInv, NEW c \in Client, WriteReady(c)
    PROVE  IInv' /\ Grows
<1>1. TypeOK /\ ClientOK(c) /\ pc[c] = "Write"
  BY DEF IInv, WriteReady
<1>2. lock = c /\ op[c] = "finalize" /\ view[c].last # None /\ view[c].last \in Published
  BY <1>1 DEF ClientOK, LockOK, CallOK, WriterOK, LoadOK, Writes, Loading
<1>3. /\ dirs' \in [Published' -> Entry] /\ Published' = Published /\ Ready' = Ready
      /\ Grows /\ ChainIsSound' /\ ManifestsOK' /\ ReadyMatchesFiles'
      /\ \A j \in Published : dirs'[j].sql = dirs[j].sql /\ dirs'[j].after = dirs[j].after
  BY <1>2, TmpOnly DEF WriteReady
<1>4. pc'[c] = "Rename" /\ pc' \in [Client -> Steps] /\ UNCHANGED <<lock, staging, op, view, torn>>
  BY <1>1 DEF TypeOK, WriteReady, Goto, Steps
<1>5. TypeOK' /\ OthersSame(c)
  BY <1>1, <1>2, <1>3, <1>4 DEF TypeOK, WriteReady, Goto, OthersSame
<1>6. LockOK(c)' /\ CallOK(c)'
  BY <1>1, <1>2, <1>4 DEF ClientOK, LockOK, CallOK, Writes
<1>7. LoadOK(c)'
  <2>1. \A p : Accepted(p) => Accepted(p)'
    BY <1>3 DEF Accepted, Grows, Ready
  <2> QED BY <1>1, <1>2, <1>3, <1>4, <2>1 DEF ClientOK, LoadOK, Loading
<1>8. WriterOK(c)'
  BY <1>1, <1>3, <1>4 DEF ClientOK, WriterOK, Loading
<1>9. FinalOK(c)'
  BY <1>1, <1>2, <1>3, <1>4 DEF ClientOK, FinalOK, Loading
<1>10. SeenOK(c)'
  BY <1>1, <1>3, <1>4 DEF ClientOK, SeenOK, Loading
<1> QED BY <1>3, <1>5, <1>6, <1>7, <1>8, <1>9, <1>10, StepKeeps DEF ClientOK

\* ready.json appears, for a draft; its checksums are those of validated scripts
\* and, unless somebody has edited them, of the files as they are.
LEMMA RenameReadyStep ==
    ASSUME IInv, NEW c \in Client, RenameReady(c)
    PROVE  IInv' /\ Grows
<1> DEFINE k == view[c].last
<1> USE NoneAssumption
<1>1. TypeOK /\ ClientOK(c) /\ pc[c] = "Rename"
  BY DEF IInv, RenameReady
<1>2. /\ lock = c /\ op[c] = "finalize" /\ k # None /\ k \in Published /\ view[c].sql \in Valid
      /\ view[c].draft /\ view[c].ready = Ready
  BY <1>1 DEF ClientOK, LockOK, CallOK, WriterOK, LoadOK, Writes, Loading
<1>3. k \notin Ready
  BY <1>1, <1>2 DEF ClientOK, LoadOK, Loading
<1>4. ManifestOf(c) \in Manifest
  BY <1>1, <1>2, ProjectAssumption DEF ClientOK, FinalOK, Loading, ManifestOf, Manifest
<1>5. dirs \in [Published -> Entry] /\ dirs' = [dirs EXCEPT ![k].tmp = FALSE, ![k].ready = ManifestOf(c)]
  BY <1>1 DEF TypeOK, RenameReady
<1>6. dirs' \in [Published' -> Entry] /\ Published' = Published
  BY <1>2, <1>4, <1>5, ZenonT(40) DEF Entry, Published
<1>7. /\ \A j \in Published : /\ dirs'[j].parent = dirs[j].parent /\ dirs'[j].before = dirs[j].before
                              /\ dirs'[j].after = dirs[j].after /\ dirs'[j].sql = dirs[j].sql
                              /\ j # k => dirs'[j].ready = dirs[j].ready
      /\ dirs'[k].ready = ManifestOf(c)
  BY <1>2, <1>5 DEF Entry
<1>8. Ready' = Ready \cup {k} /\ Ready \subseteq Published
  BY <1>2, <1>4, <1>6, <1>7 DEF Ready
<1>9. Grows
  BY <1>3, <1>6, <1>7 DEF Grows, Ready
<1>10. ChainIsSound'
  BY <1>6, <1>7, <1>8 DEF IInv, ChainIsSound
<1>11. ManifestsOK'
  BY <1>2, <1>7, <1>8 DEF IInv, ManifestsOK, ManifestOf
<1>12. ReadyMatchesFiles'
  <2>1. k \notin torn => ManifestOf(c) = [files |-> dirs[k].sql, checksum |-> dirs[k].sql]
    BY <1>1, <1>2 DEF ClientOK, FinalOK, Loading, ManifestOf
  <2>2. torn' = torn
    BY DEF RenameReady
  <2> QED BY <1>2, <1>7, <1>8, <2>1, <2>2 DEF IInv, ReadyMatchesFiles
<1>13. TypeOK' /\ OthersSame(c)
  BY <1>1, <1>2, <1>6, LeaveOK DEF TypeOK, OthersSame, RenameReady
<1> QED BY <1>1, <1>9, <1>10, <1>11, <1>12, <1>13, LeaveOK, StepKeeps DEF RenameReady

\* A failed file operation, with whatever unwinding has removed.
LEMMA FaultStep ==
    ASSUME IInv, NEW c \in Client, Fault(c)
    PROVE  IInv' /\ Grows
<1>1. TypeOK /\ ClientOK(c)
  BY DEF IInv
<1>2. /\ dirs' \in [Published' -> Entry] /\ Published' \subseteq Key
      /\ Grows /\ ChainIsSound' /\ ManifestsOK' /\ ReadyMatchesFiles'
  <2>1. CASE dirs' = dirs
    BY <1>1, <2>1, SameDirs DEF TypeOK, Published, Fault
  <2>2. CASE dirs' # dirs
    <3>1. pc[c] = "Rename" /\ dirs' = [dirs EXCEPT ![view[c].last].tmp = FALSE]
      BY <2>2 DEF Fault
    <3>2. view[c].last \in Published
      BY <1>1, <3>1 DEF ClientOK, LockOK, CallOK, WriterOK, LoadOK, Writes, Loading
    <3> QED BY <1>1, <3>1, <3>2, TmpOnly DEF Fault, TypeOK
  <2> QED BY <2>1, <2>2
<1>3. TypeOK'
  BY <1>1, <1>2, LeaveOK DEF TypeOK, Fault
<1>4. lock # c => UNCHANGED <<staging, dirs>>
  BY <1>1 DEF Fault, ClientOK, LockOK, CallOK, Writes
<1>5. OthersSame(c)
  BY <1>1, <1>4, LeaveOK DEF OthersSame, Fault
<1> QED BY <1>1, <1>2, <1>3, <1>5, LeaveOK, StepKeeps DEF Fault

\* The process ends.
LEMMA CrashStep ==
    ASSUME IInv, NEW c \in Client, Crash(c)
    PROVE  IInv' /\ Grows
<1>1. TypeOK /\ ClientOK(c)
  BY DEF IInv
<1>2. TypeOK'
  BY <1>1, NoViewTyped DEF TypeOK, Crash, Goto, Steps, Published
<1>3. OthersSame(c)
  BY <1>1, ProjectAssumption DEF TypeOK, OthersSame, Crash, Goto
<1>4. pc'[c] = "Idle" /\ op'[c] = None /\ lock' # c
  BY <1>1, ProjectAssumption DEF TypeOK, Crash, Goto
<1> QED BY <1>2, <1>3, <1>4, OutsideOK, SameDirs, StepKeeps DEF Crash

-----------------------------------------------------------------------------
(* People.                                                                 *)

\* What a person removes after a writer has gone, no writer knows of.
LEMMA InspectStep ==
    ASSUME IInv, Inspect
    PROVE  IInv' /\ Grows
<1>1. TypeOK
  BY DEF IInv
<1>2. /\ dirs' \in [Published' -> Entry] /\ Published' \subseteq Key
      /\ Grows /\ ChainIsSound' /\ ManifestsOK' /\ ReadyMatchesFiles'
  <2>1. CASE dirs' = dirs
    BY <1>1, <2>1, SameDirs DEF TypeOK, Published, Inspect
  <2>2. CASE dirs' # dirs
    <3>1. PICK k \in Published : dirs' = [dirs EXCEPT ![k].tmp = FALSE]
      BY <2>2 DEF Inspect
    <3> QED BY <1>1, <3>1, TmpOnly DEF Inspect, TypeOK
  <2> QED BY <2>1, <2>2
<1>3. TypeOK'
  BY <1>1, <1>2, ProjectAssumption DEF TypeOK, Inspect
<1>4. lock \notin Client /\ lock' \notin Client /\ UNCHANGED <<pc, op, view, torn>>
  BY ProjectAssumption DEF Inspect
<1>5. ASSUME NEW d \in Client PROVE ClientOK(d)'
  <2>1. ClientOK(d) /\ op[d] \notin Writes /\ pc[d] # "Unlock"
    BY <1>4 DEF IInv, ClientOK, LockOK
  <2>2. LockOK(d)' /\ CallOK(d)' /\ WriterOK(d)' /\ FinalOK(d)'
    BY <1>4, <2>1 DEF ClientOK, LockOK, CallOK, WriterOK, FinalOK, Writes
  <2>3. Ready \subseteq Ready' /\ Published \subseteq Published'
    BY <1>2 DEF Grows, Ready, Published
  <2>4. \A p : Accepted(p) => Accepted(p)'
    BY <1>2, <2>3 DEF Accepted, Grows, Ready
  <2>5. pc[d] \in Loading /\ view[d].last # None => view[d].last \in Published
    BY <2>1 DEF ClientOK, LoadOK
  <2>6. LoadOK(d)'
    BY <1>2, <1>4, <2>1, <2>3, <2>4, <2>5 DEF ClientOK, LoadOK, Grows, Loading
  <2>7. SeenOK(d)'
    BY <1>4, <2>1, <2>3 DEF ClientOK, SeenOK
  <2> QED BY <2>2, <2>6, <2>7 DEF ClientOK
<1> QED BY <1>2, <1>3, <1>5 DEF IInv

\* Whoever has read scripts that are edited is excused (torn), and the manifest
\* keeps what it says.
LEMMA EditStep ==
    ASSUME IInv, NEW k \in Key, NEW sql \in Sql, Edit(k, sql)
    PROVE  IInv' /\ Grows
<1>1. TypeOK /\ k \in Published /\ dirs' = [dirs EXCEPT ![k].sql = sql] /\ dirs \in [Published -> Entry]
  BY DEF IInv, TypeOK, Edit
<1>2. dirs' \in [Published' -> Entry] /\ Published' = Published
  BY <1>1 DEF Entry, Published
<1>3. \A j \in Published : /\ dirs'[j].parent = dirs[j].parent /\ dirs'[j].before = dirs[j].before
                           /\ dirs'[j].after = dirs[j].after /\ dirs'[j].ready = dirs[j].ready
                           /\ j # k => dirs'[j].sql = dirs[j].sql
  BY <1>1 DEF Entry
<1>4. Ready' = Ready /\ Ready \subseteq Published
  BY <1>2, <1>3 DEF Ready
<1>5. torn' = (IF k \in Ready \/ Finalizing(k) THEN torn \cup {k} ELSE torn)
  BY DEF Edit
<1>6. UNCHANGED <<config, lock, staging, pc, op, view>>
  BY DEF Edit
<1>7. TypeOK'
  BY <1>1, <1>2, <1>5, <1>6 DEF TypeOK
<1>8. ChainIsSound' /\ ManifestsOK'
  BY <1>2, <1>3, <1>4 DEF IInv, ChainIsSound, ManifestsOK
<1>9. ReadyMatchesFiles'
  BY <1>3, <1>4, <1>5 DEF IInv, ReadyMatchesFiles
<1>10. ASSUME NEW d \in Client PROVE ClientOK(d)'
  <2>1. ClientOK(d)
    BY DEF IInv
  <2>2. LockOK(d)' /\ CallOK(d)'
    BY <1>6, <2>1 DEF ClientOK, LockOK, CallOK
  <2>3. WriterOK(d)'
    BY <1>2, <1>4, <1>6, <2>1 DEF ClientOK, WriterOK, DraftOf
  <2>4. \A p : Accepted(p) => Accepted(p)'
    BY <1>3, <1>4 DEF Accepted
  <2>5. pc[d] \in Loading /\ view[d].last # None => view[d].last \in Published
    BY <2>1 DEF ClientOK, LoadOK
  <2>6. LoadOK(d)'
    BY <1>2, <1>3, <1>4, <1>6, <2>1, <2>4, <2>5 DEF ClientOK, LoadOK, Loading
  <2>7. FinalOK(d)'
    <3>1. CASE view[d].last # k
      BY <1>3, <1>5, <1>6, <2>1, <2>5, <3>1 DEF ClientOK, FinalOK
    <3>2. CASE view[d].last = k /\ op[d] = "finalize" /\ pc[d] \in Loading
      <4>1. Finalizing(k)
        BY <2>1, <3>2 DEF Finalizing, ClientOK, CallOK, Loading, Reads
      <4> QED BY <1>5, <1>6, <2>1, <3>2, <4>1 DEF ClientOK, FinalOK
    <3> QED BY <1>6, <3>1, <3>2 DEF FinalOK
  <2>8. SeenOK(d)'
    BY <1>2, <1>6, <2>1 DEF ClientOK, SeenOK
  <2> QED BY <2>2, <2>3, <2>6, <2>7, <2>8 DEF ClientOK
<1>11. Grows
  BY <1>2, <1>3 DEF Grows
<1> QED BY <1>7, <1>8, <1>9, <1>10, <1>11 DEF IInv

-----------------------------------------------------------------------------
(* Theorems.                                                               *)

\* Every step keeps the invariant.
LEMMA Inductive == IInv /\ [Next]_vars => IInv' /\ Grows
<1> SUFFICES ASSUME IInv, [Next]_vars PROVE IInv' /\ Grows
  OBVIOUS
<1>1. ASSUME NEW c \in Client, Step(c) PROVE IInv' /\ Grows
  <2>1. CASE Unlock(c) \/ Vacant(c) \/ WriteConfig(c) \/ InstallConfig(c)
    BY <2>1, UnlockStep, VacantStep, WriteConfigStep, InstallConfigStep
  <2>2. CASE Open(c) \/ List(c) \/ ReadEntry(c) \/ VerifyEntry(c)
    BY <2>2, OpenStep, ListStep, ReadEntryStep, VerifyEntryStep
  <2>3. CASE DecideRead(c) \/ DecideMake(c) \/ DecideFinalize(c)
    BY <2>3, DecideReadStep, DecideMakeStep, DecideFinalizeStep
  <2>4. CASE DecideInit(c) \/ Return(c)
    BY <2>4, LeaveStep DEF DecideInit, Return, files
  <2>5. CASE Stage(c) \/ Publish(c) \/ PublishDenied(c)
    BY <2>5, StageStep, PublishStep, PublishDeniedStep
  <2>6. CASE HashFiles(c) \/ WriteReady(c) \/ RenameReady(c) \/ Fault(c)
    BY <2>6, HashFilesStep, WriteReadyStep, RenameReadyStep, FaultStep
  <2> QED BY <1>1, <2>1, <2>2, <2>3, <2>4, <2>5, <2>6 DEF Step
<1>2. ASSUME NEW c \in Client, Crash(c) \/ \E o \in Writes \cup Reads : Call(c, o) PROVE IInv' /\ Grows
  BY <1>2, CrashStep, CallStep
<1>3. CASE Inspect \/ \E k \in Key, sql \in Sql : Edit(k, sql)
  BY <1>3, InspectStep, EditStep
<1>4. CASE UNCHANGED vars
  <2>1. TypeOK'
    BY <1>4 DEF IInv, TypeOK, Published, vars
  <2>2. ASSUME NEW d \in Client PROVE ClientOK(d)'
    BY <1>4 DEF IInv, ClientOK, LockOK, CallOK, LoadOK, WriterOK, FinalOK, SeenOK, DraftOf, Accepted, Ready, Published, vars
  <2> QED BY <1>4, <2>1, <2>2, SameDirs DEF IInv, vars
<1> QED BY <1>1, <1>2, <1>3, <1>4 DEF Next

\* The inductive invariant behind the other theorems: what every process knows of
\* the project at every point of its call.
THEOREM Invariance == Spec => []IInv
<1>1. Init => IInv
  <2> SUFFICES ASSUME Init PROVE IInv
    OBVIOUS
  <2>1. Published = {} /\ Ready = {}
    BY DEF Init, Published, Ready
  <2>2. TypeOK
    BY <2>1, NoViewTyped DEF Init, TypeOK, Steps
  <2>3. ChainIsSound /\ ManifestsOK /\ ReadyMatchesFiles
    BY <2>1 DEF ChainIsSound, ManifestsOK, ReadyMatchesFiles
  <2>4. \A c \in Client : ClientOK(c)
    BY ProjectAssumption, NoneAssumption
       DEF Init, ClientOK, LockOK, CallOK, LoadOK, WriterOK, FinalOK, SeenOK, Loading
  <2> QED BY <2>2, <2>3, <2>4 DEF IInv
<1> QED BY <1>1, Inductive, PTL DEF Spec

\* Type correctness; no version leaves the range of Version.
THEOREM TypeCorrect == Spec => []TypeOK
<1>1. IInv => TypeOK
  BY DEF IInv
<1> QED BY <1>1, Invariance, PTL

\* The published migrations are one chain, for any number of processes that make,
\* finalize, fail and end at any point.
THEOREM OneChain == Spec => []ChainIsSound
<1>1. IInv => ChainIsSound
  BY DEF IInv
<1> QED BY <1>1, Invariance, PTL

\* catalog() gives out only scripts that finalize() accepted.
THEOREM CatalogsAreAccepted == Spec => []CatalogIsAccepted
<1>1. IInv => CatalogIsAccepted
  <2> SUFFICES ASSUME IInv, NEW c \in Client, pc[c] = "Return", op[c] = "catalog"
               PROVE  \A p \in view[c].loaded : Accepted(p)
    BY DEF CatalogIsAccepted, Accepted
  <2> QED BY DEF IInv, ClientOK, LoadOK, Loading
<1> QED BY <1>1, Invariance, PTL

\* The manifest of a migration nobody has edited since agrees with its files.
THEOREM ManifestsMatchFiles == Spec => []ReadyMatchesFiles
<1>1. IInv => ReadyMatchesFiles
  BY DEF IInv
<1> QED BY <1>1, Invariance, PTL

\* A call that reads without the lock answers with a state of the project that is
\* no older than its beginning and no newer than its end.
THEOREM ReadersAreCurrent == Spec => []ReadsAreCurrent
<1>1. IInv => ReadsAreCurrent
  <2> SUFFICES ASSUME IInv, NEW c \in Client, pc[c] = "Return"
               PROVE  /\ \A k \in view[c].opened :
                            /\ k[1] <= view[c].parent
                            /\ k[1] = view[c].parent /\ k \in view[c].wasReady => ~view[c].draft
                      /\ view[c].parent > 0 =>
                            \E k \in Published : k[1] = view[c].parent /\ (k \in Ready \/ view[c].draft)
    BY DEF ReadsAreCurrent
  <2>1. TypeOK /\ LoadOK(c) /\ SeenOK(c)
    BY DEF IInv, ClientOK
  <2>2. \A k \in view[c].opened : k \in Published /\ k[1] <= view[c].parent
    BY <2>1 DEF SeenOK, Loading
  <2>3. view[c].last = None => view[c].parent = 0 /\ ~view[c].draft
    BY <2>1 DEF LoadOK, Loading
  <2>4. view[c].last # None => /\ view[c].last \in Published /\ view[c].parent = view[c].last[1]
                               /\ ~view[c].draft => view[c].last \in Ready
                               /\ view[c].draft => view[c].last \notin view[c].ready
    BY <2>1 DEF LoadOK, Loading
  <2>5. ASSUME NEW k \in view[c].wasReady, k \in view[c].opened, k[1] = view[c].parent PROVE ~view[c].draft
    <3>1. k \in view[c].ready
      BY <2>1 DEF SeenOK, Loading
    <3>2. view[c].last # None => k = view[c].last
      BY <2>2, <2>4, <2>5 DEF IInv, ChainIsSound
    <3> QED BY <2>3, <2>4, <3>1, <3>2
  <2>6. view[c].parent > 0 => \E k \in Published : k[1] = view[c].parent /\ (k \in Ready \/ view[c].draft)
    BY <2>3, <2>4
  <2> QED BY <2>2, <2>5, <2>6
<1> QED BY <1>1, Invariance, PTL

\* No step replaces or removes a manifest.
THEOREM FinalizedIsForEver == Spec => FinalizedStays
<1>1. IInv /\ [Next]_vars => [\A k \in Ready : k \in Published' /\ dirs'[k].ready = dirs[k].ready]_vars
  BY Inductive DEF Grows, Ready
<1> QED BY <1>1, Invariance, PTL DEF Spec, FinalizedStays
=============================================================================
