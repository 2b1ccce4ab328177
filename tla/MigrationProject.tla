-------------------------- MODULE MigrationProject --------------------------
(***************************************************************************)
(* The migration project directory of src/migrations/MigrationProject.cpp: *)
(* processes that make, review, finalize and load migrations in one        *)
(* directory, with no other coordination than the file system.             *)
(*                                                                         *)
(* Writers exclude each other by creating .orm-cxx-lock, stage a draft in  *)
(* .orm-cxx-staging and publish it by a rename; finalize() publishes       *)
(* ready.json by a rename.  Readers take no lock: loadEntries() lists the  *)
(* directory, then reads and verifies one migration after the other, while *)
(* writers, and people who edit SQL files, go on.  A process may end       *)
(* between any two file operations.                                        *)
(*                                                                         *)
(* A hash or checksum is represented by what it is the hash of.            *)
(***************************************************************************)
EXTENDS Integers

CONSTANTS
    Client,      \* processes; each names its migrations after itself
    Ops,         \* Ops[c]: the calls c makes
    Schema,      \* snapshots, of all backends together
    Empty,       \* the snapshot before the first migration
    Sql,         \* contents of the SQL files of one migration
    Valid,       \* contents that Catalog and validateScript() accept
    Made,        \* the content as make() generates or makeManual() writes it
    MaxVersion,  \* std::numeric_limits<Version>::max()
    Retries,     \* how often a denied rename is repeated: 4 on Windows, else 0
    None         \* no file, no staged migration

Writes == {"init", "make", "makeManual", "finalize"}
Reads == {"catalog", "latestSnapshot", "draftVersion"}
Version == 1..MaxVersion
Key == Version \X Client    \* <version>_<name>

ASSUME ProjectAssumption ==
    /\ Ops \in [Client -> SUBSET (Writes \cup Reads)]
    /\ Empty \in Schema
    /\ Valid \subseteq Sql
    /\ Made \in Sql
    /\ MaxVersion \in Nat \ {0}
    /\ Retries \in Nat
    /\ {"free", "stale"} \cap Client = {}

\* migration.json (parent and the snapshot it was made from), schema.json, the
\* SQL files, ready.json, and whether .ready.json.tmp is there.
Manifest == [files : Sql, checksum : Sql]
Entry == [parent : 0..MaxVersion, before : Schema, after : Schema, sql : Sql,
          ready : Manifest \cup {None}, tmp : BOOLEAN]
Staged == [key : Key, entry : Entry]

ASSUME NoneAssumption == None \notin Writes \cup Reads \cup Sql \cup Key \cup Manifest \cup Staged

VARIABLES
    config,   \* project.json: "absent", "tmp" (only its temporary) or "present"
    lock,     \* .orm-cxx-lock: "free", its creator, or "stale" when that has gone
    staging,  \* .orm-cxx-staging: None, or what it will hold
    dirs,     \* dirs[k]: the published migration directory k
    pc,       \* where c is in a call
    op,       \* the call
    view,     \* what loadEntries() and its caller have in memory
    torn      \* directories edited after finalize() had loaded them

vars == <<config, lock, staging, dirs, pc, op, view, torn>>
files == <<config, lock, staging, dirs>>

Steps == {"Idle", "Vacant", "Config", "Install", "Open", "List", "Read", "Verify",
          "Stage", "Publish", "Hash", "Write", "Rename", "Unlock", "Return"}

\* before, parent and draft are the variables of loadEntries(); last is the
\* directory loaded last, after the schema of a migration being made.
View == [opened : SUBSET Key, wasReady : SUBSET Key, staged : BOOLEAN,
         todo : SUBSET Key, ready : SUBSET Key,
         parent : 0..MaxVersion, before : Schema, draft : BOOLEAN, last : Key \cup {None},
         after : Schema,
         sql : Sql \cup {None}, files : Sql \cup {None},
         loaded : SUBSET (Version \X Sql), tries : 0..Retries]
NoView == [opened |-> {}, wasReady |-> {}, staged |-> FALSE, todo |-> {}, ready |-> {},
           parent |-> 0, before |-> Empty, draft |-> FALSE, last |-> None, after |-> Empty,
           sql |-> None, files |-> None, loaded |-> {}, tries |-> 0]

Published == DOMAIN dirs
Ready == {k \in Published : dirs[k].ready # None}

\* The type invariant: every variable stays within its declared shape, and no
\* version leaves the range of the type Version.
TypeOK ==
    /\ config \in {"absent", "tmp", "present"}
    /\ lock \in Client \cup {"free", "stale"}
    /\ staging \in Staged \cup {None}
    /\ Published \subseteq Key
    /\ dirs \in [Published -> Entry]
    /\ pc \in [Client -> Steps]
    /\ op \in [Client -> Writes \cup Reads \cup {None}]
    /\ view \in [Client -> View]
    /\ torn \subseteq Key

Init ==
    /\ config = "absent"
    /\ lock = "free"
    /\ staging = None
    /\ dirs = [k \in {} |-> None]
    /\ pc = [c \in Client |-> "Idle"]
    /\ op = [c \in Client |-> None]
    /\ view = [c \in Client |-> NoView]
    /\ torn = {}

Goto(c, step) == pc' = [pc EXCEPT ![c] = step]

-----------------------------------------------------------------------------
(* Calls, the writer lock and the ways out.                                *)

\* The call is left, by return or by an exception: ~ProjectLock runs in a writer.
Leave(c) ==
    /\ Goto(c, IF lock = c THEN "Unlock" ELSE "Idle")
    /\ op' = [op EXCEPT ![c] = None]
    /\ view' = [view EXCEPT ![c] = NoView]

\* Variant: an existing lock directory is taken over.
TakeOver(c, o) == lock' = c

\* ProjectLock: create_directory() creates the lock, or finds it there and the
\* call fails before it has done anything.
LockProject(c, o) ==
    /\ lock = "free"
    /\ lock' = c

\* A member function of MigrationProject is called (the object exists, so
\* project.json did), or init(); the functions that write begin with the lock.
Call(c, o) ==
    /\ pc[c] = "Idle"
    /\ o \in Ops[c]
    /\ o = "init" \/ config = "present"
    /\ IF o \in Writes THEN LockProject(c, o) ELSE UNCHANGED lock
    /\ op' = [op EXCEPT ![c] = o]
    /\ Goto(c, IF o = "init" THEN "Vacant" ELSE "Open")
    /\ UNCHANGED <<config, staging, dirs, view, torn>>

\* ~ProjectLock: an error of remove() is ignored and leaves the directory.
Unlock(c) ==
    /\ pc[c] = "Unlock"
    /\ lock' \in {"free", "stale"}
    /\ Goto(c, "Idle")
    /\ UNCHANGED <<config, staging, dirs, op, view, torn>>

-----------------------------------------------------------------------------
(* init()                                                                  *)

\* The directory must have nothing but the lock.
Vacant(c) ==
    /\ pc[c] = "Vacant"
    /\ IF config = "absent" /\ staging = None /\ Published = {}
       THEN Goto(c, "Config") /\ UNCHANGED <<op, view>>
       ELSE Leave(c)
    /\ UNCHANGED <<files, torn>>

WriteConfig(c) ==
    /\ pc[c] = "Config"
    /\ config' = "tmp"
    /\ Goto(c, "Install")
    /\ UNCHANGED <<lock, staging, dirs, op, view, torn>>

\* The rename, after which the constructor loads the project.
InstallConfig(c) ==
    /\ pc[c] = "Install"
    /\ config' = "present"
    /\ Goto(c, "Open")
    /\ UNCHANGED <<lock, staging, dirs, op, view, torn>>

-----------------------------------------------------------------------------
(* loadEntries()                                                           *)

\* The directory iterator is opened.
Open(c) ==
    /\ pc[c] = "Open"
    /\ view' = [view EXCEPT ![c] = [NoView EXCEPT !.opened = Published, !.wasReady = Ready,
                                                  !.staged = (staging # None)]]
    /\ Goto(c, "List")
    /\ UNCHANGED <<files, op, torn>>

\* Variant: a directory that cannot be examined is skipped.
ListedIfReadable(c, keys, ready) == keys \cap view[c].wasReady \subseteq ready

\* What was there when the iterator was opened is met.
Listed(c, keys, ready) ==
    /\ view[c].opened \subseteq keys
    /\ view[c].wasReady \subseteq ready

\* The iteration has ended.  A directory that appeared meanwhile may have been
\* missed, and a ready.json that appeared too; .orm-cxx-staging is not the name
\* of a migration and ends the load, if it was met.
List(c) ==
    /\ pc[c] = "List"
    /\ \/ /\ staging = None \/ ~view[c].staged
          /\ \E keys \in SUBSET Published : \E ready \in SUBSET Ready :
                /\ Listed(c, keys, ready)
                /\ view' = [view EXCEPT ![c].todo = keys, ![c].ready = ready \cap keys]
          /\ Goto(c, "Read")
          /\ UNCHANGED op
       \/ /\ staging # None \/ view[c].staged
          /\ Leave(c)
    /\ UNCHANGED <<files, torn>>

\* Versions increase, drafts are last, there is no unexpected file, and
\* migration.json continues the chain.
Follows(c, k) ==
    /\ k[1] > view[c].parent
    /\ ~view[c].draft
    /\ ~dirs[k].tmp
    /\ dirs[k].parent = view[c].parent
    /\ dirs[k].before = view[c].before

\* The next directory in the order of versions: its metadata and scripts.
ReadEntry(c) ==
    /\ pc[c] = "Read"
    /\ \E k \in view[c].todo :
          /\ \A other \in view[c].todo : k[1] <= other[1]
          /\ IF Follows(c, k)
             THEN /\ view' = [view EXCEPT ![c].last = k, ![c].sql = dirs[k].sql, ![c].todo = @ \ {k}]
                  /\ Goto(c, "Verify")
                  /\ UNCHANGED op
             ELSE Leave(c)
    /\ UNCHANGED <<files, torn>>

\* Variant: the file hashes are trusted to cover the scripts.
FilesMatch(c, k) == k \in view[c].ready => dirs[k].ready.files = dirs[k].sql

\* A ready migration must agree with its manifest twice: the files as they are
\* now, and the scripts that were read.
ManifestMatches(c, k) ==
    k \in view[c].ready =>
        /\ dirs[k].ready.files = dirs[k].sql
        /\ dirs[k].ready.checksum = view[c].sql

VerifyEntry(c) ==
    /\ pc[c] = "Verify"
    /\ LET k == view[c].last
       IN  IF ManifestMatches(c, k)
           THEN /\ view' = [view EXCEPT ![c].draft = (k \notin view[c].ready),
                                        ![c].loaded = @ \cup {<<k[1], view[c].sql>>},
                                        ![c].parent = k[1],
                                        ![c].before = dirs[k].after]
                /\ Goto(c, "Read")
                /\ UNCHANGED op
           ELSE Leave(c)
    /\ UNCHANGED <<files, torn>>

\* Every directory has been loaded.
AllLoaded(c) == pc[c] = "Read" /\ view[c].todo = {}

-----------------------------------------------------------------------------
(* The callers of loadEntries().                                           *)

\* draftVersion() answers in every case; latestSnapshot() and catalog() refuse
\* a draft.
DecideRead(c) ==
    /\ AllLoaded(c)
    /\ op[c] \in Reads
    /\ IF op[c] # "draftVersion" /\ view[c].draft
       THEN Leave(c)
       ELSE Goto(c, "Return") /\ UNCHANGED <<op, view>>
    /\ UNCHANGED <<files, torn>>

Return(c) ==
    /\ pc[c] = "Return"
    /\ Leave(c)
    /\ UNCHANGED <<files, torn>>

\* The constructor at the end of init() has loaded the new project.
DecideInit(c) ==
    /\ AllLoaded(c)
    /\ op[c] = "init"
    /\ Leave(c)
    /\ UNCHANGED <<files, torn>>

\* Variant: the range of Version is not looked at.
MayMakeAny(c, after) == ~view[c].draft /\ (op[c] = "make" => after # view[c].before)

\* make() wants a change of the models; both refuse to follow a draft and to
\* leave the range of Version.
MayMake(c, after) ==
    /\ ~view[c].draft
    /\ view[c].parent # MaxVersion
    /\ op[c] = "make" => after # view[c].before

\* Generation may fail, for lack of a decision; it writes nothing.
DecideMake(c) ==
    /\ AllLoaded(c)
    /\ op[c] \in {"make", "makeManual"}
    /\ \/ /\ \E after \in Schema :
                /\ MayMake(c, after)
                /\ view' = [view EXCEPT ![c].sql = Made, ![c].after = after]
          /\ Goto(c, "Stage")
          /\ UNCHANGED op
       \/ Leave(c)
    /\ UNCHANGED <<files, torn>>

\* publishDraft(): StagingDirectory is created, or is already there.  Its files
\* are written before it is renamed.
Stage(c) ==
    /\ pc[c] = "Stage"
    /\ IF staging = None
       THEN /\ staging' = [key |-> <<view[c].parent + 1, c>>,
                           entry |-> [parent |-> view[c].parent, before |-> view[c].before,
                                      after |-> view[c].after, sql |-> view[c].sql,
                                      ready |-> None, tmp |-> FALSE]]
            /\ Goto(c, "Publish")
            /\ UNCHANGED <<op, view>>
       ELSE Leave(c) /\ UNCHANGED staging
    /\ UNCHANGED <<config, lock, dirs, torn>>

\* publishDirectory(): the rename.
Publish(c) ==
    /\ pc[c] = "Publish"
    /\ staging # None
    /\ staging.key \notin Published
    /\ dirs' = [k \in Published \cup {staging.key} |-> IF k = staging.key THEN staging.entry ELSE dirs[k]]
    /\ staging' = None
    /\ Leave(c)
    /\ UNCHANGED <<config, lock, torn>>

\* Windows denies the rename while a reader has the tree open: it is repeated,
\* but never onto a destination that exists.
PublishDenied(c) ==
    /\ pc[c] = "Publish"
    /\ view[c].tries < Retries
    /\ staging # None
    /\ staging.key \notin Published
    /\ view' = [view EXCEPT ![c].tries = @ + 1]
    /\ UNCHANGED <<files, pc, op, torn>>

\* Variant: a migration that is ready is finalized again.
MayFinalizeAny(c, version, after) == view[c].last # None /\ version = view[c].parent /\ after = view[c].before

\* Only the current draft, and only for the models it was made for.
MayFinalize(c, version, after) ==
    /\ view[c].draft
    /\ version = view[c].parent
    /\ after = view[c].before

\* finalize() validates the scripts that were loaded; its checksums are theirs.
DecideFinalize(c) ==
    /\ AllLoaded(c)
    /\ op[c] = "finalize"
    /\ \/ /\ \E version \in Version, after \in Schema : MayFinalize(c, version, after)
          /\ view[c].sql \in Valid
          /\ Goto(c, "Hash")
          /\ UNCHANGED <<op, view>>
       \/ Leave(c)
    /\ UNCHANGED <<files, torn>>

\* sqlFiles() reads the files again.
HashFiles(c) ==
    /\ pc[c] = "Hash"
    /\ view' = [view EXCEPT ![c].files = dirs[view[c].last].sql]
    /\ Goto(c, "Write")
    /\ UNCHANGED <<files, op, torn>>

WriteReady(c) ==
    /\ pc[c] = "Write"
    /\ dirs' = [dirs EXCEPT ![view[c].last].tmp = TRUE]
    /\ Goto(c, "Rename")
    /\ UNCHANGED <<config, lock, staging, op, view, torn>>

\* Variant: the checksums of the scripts as they were generated.
ManifestAsMade(c) == [files |-> view[c].files, checksum |-> Made]

ManifestOf(c) == [files |-> view[c].files, checksum |-> view[c].sql]

RenameReady(c) ==
    /\ pc[c] = "Rename"
    /\ dirs' = [dirs EXCEPT ![view[c].last].tmp = FALSE,
                            ![view[c].last].ready = ManifestOf(c)]
    /\ Leave(c)
    /\ UNCHANGED <<config, lock, staging, torn>>

-----------------------------------------------------------------------------
(* Faults, crashes and people.                                             *)

\* A file operation fails.  Unwinding removes the temporary of init() or
\* finalize() and the staging directory, if the file system lets it.
Fault(c) ==
    /\ pc[c] \in Steps \ {"Idle", "Unlock", "Return"}
    /\ config' \in {config} \cup (IF pc[c] = "Install" THEN {"absent"} ELSE {})
    /\ staging' \in {staging} \cup (IF pc[c] = "Publish" THEN {None} ELSE {})
    /\ dirs' \in {dirs} \cup (IF pc[c] = "Rename" THEN {[dirs EXCEPT ![view[c].last].tmp = FALSE]} ELSE {})
    /\ Leave(c)
    /\ UNCHANGED <<lock, torn>>

\* The process ends.
Crash(c) ==
    /\ pc[c] # "Idle"
    /\ lock' = IF lock = c THEN "stale" ELSE lock
    /\ Goto(c, "Idle")
    /\ op' = [op EXCEPT ![c] = None]
    /\ view' = [view EXCEPT ![c] = NoView]
    /\ UNCHANGED <<config, staging, dirs, torn>>

\* A person inspects what a writer that has gone left behind, and removes it.
Inspect ==
    /\ lock \notin Client
    /\ \/ lock' = "free" /\ lock # "free" /\ UNCHANGED <<config, staging, dirs>>
       \/ staging' = None /\ staging # None /\ UNCHANGED <<config, lock, dirs>>
       \/ config' = "absent" /\ config = "tmp" /\ UNCHANGED <<lock, staging, dirs>>
       \/ /\ \E k \in Published : dirs[k].tmp /\ dirs' = [dirs EXCEPT ![k].tmp = FALSE]
          /\ UNCHANGED <<config, lock, staging>>
    /\ UNCHANGED <<pc, op, view, torn>>

\* A finalization that has read the scripts of k, and has not published.
Finalizing(k) ==
    \E c \in Client : /\ op[c] = "finalize"
                      /\ view[c].last = k
                      /\ pc[c] \in {"Verify", "Read", "Hash", "Write", "Rename"}

\* A person edits the SQL of a migration, while it is a draft or later.
Edit(k, sql) ==
    /\ k \in Published
    /\ dirs[k].sql # sql
    /\ dirs' = [dirs EXCEPT ![k].sql = sql]
    /\ torn' = IF k \in Ready \/ Finalizing(k) THEN torn \cup {k} ELSE torn
    /\ UNCHANGED <<config, lock, staging, pc, op, view>>

\* The code of a call that has begun.
Step(c) ==
    \/ Unlock(c) \/ Vacant(c) \/ WriteConfig(c) \/ InstallConfig(c)
    \/ Open(c) \/ List(c) \/ ReadEntry(c) \/ VerifyEntry(c)
    \/ DecideRead(c) \/ DecideInit(c) \/ DecideMake(c) \/ DecideFinalize(c) \/ Return(c)
    \/ Stage(c) \/ Publish(c) \/ PublishDenied(c)
    \/ HashFiles(c) \/ WriteReady(c) \/ RenameReady(c)
    \/ Fault(c)

Next ==
    \/ \E c \in Client : Step(c) \/ Crash(c) \/ \E o \in Writes \cup Reads : Call(c, o)
    \/ Inspect
    \/ \E k \in Key, sql \in Sql : Edit(k, sql)

Spec == Init /\ [][Next]_vars

-----------------------------------------------------------------------------
(* Properties.                                                             *)

\* The published migrations are one chain: versions 1, 2, ... each once, each
\* made from the schema its predecessor leads to, and only the last one a draft,
\* whichever writers raced, failed or ended anywhere in make() or finalize().
ChainIsSound ==
    /\ \A j, k \in Published : j[1] = k[1] => j = k
    /\ \A k \in Published :
          /\ dirs[k].parent = k[1] - 1
          /\ k[1] = 1 => dirs[k].before = Empty
          /\ k[1] > 1 => \E j \in Ready : j[1] = k[1] - 1 /\ dirs[j].after = dirs[k].before

\* The scripts catalog() gives to a runner are, for every version, those that
\* finalize() validated and recorded in the manifest, even if somebody edits the
\* files while finalize() or catalog() is between its two readings of them.
CatalogIsAccepted ==
    \A c \in Client : pc[c] = "Return" /\ op[c] = "catalog" =>
        \A p \in view[c].loaded :
            p[2] \in Valid /\ \E k \in Ready : k[1] = p[1] /\ dirs[k].ready.checksum = p[2]

\* A migration nobody edited after finalize() had read it agrees with its
\* manifest, so that nothing the code does makes a project unloadable.
ReadyMatchesFiles ==
    \A k \in Ready \ torn : dirs[k].ready = [files |-> dirs[k].sql, checksum |-> dirs[k].sql]

\* loadEntries() takes no lock in a reader, yet a call that succeeds answers with
\* a state the project was in during the call: it misses no version that was
\* there at its beginning, nor takes a finalized one for a draft, and it invents
\* nothing that is not there at its end.
ReadsAreCurrent ==
    \A c \in Client : pc[c] = "Return" =>
        /\ \A k \in view[c].opened :
              /\ k[1] <= view[c].parent
              /\ k[1] = view[c].parent /\ k \in view[c].wasReady => ~view[c].draft
        /\ view[c].parent > 0 =>
              \E k \in Published : k[1] = view[c].parent /\ (k \in Ready \/ view[c].draft)

\* "Once finalized, a migration is immutable" (docs/schema-migrations.md): no
\* call replaces or removes a manifest.
FinalizedStays == [][\A k \in Ready : k \in Published' /\ dirs'[k].ready = dirs[k].ready]_vars
=============================================================================
