---------------------------- MODULE SchemaScript ----------------------------
(***************************************************************************)
(* From two snapshots and a developer's decisions to the scripts of a      *)
(* migration, and what the scripts do to a database: compare() of          *)
(* src/migrations/SchemaDiff.cpp, generate() of SchemaGeneration.cpp, and  *)
(* the server, statement by statement.                                     *)
(*                                                                         *)
(* Names of tables and columns are numbers, whose order is the order of    *)
(* canonicalize().  A column of the database carries, besides its          *)
(* definition, its value: the columns of the first database it was read    *)
(* from, in the order of COALESCE (terms), and whether some row may hold   *)
(* NULL (nulls).  Tables have rows, keys hold unique values, and foreign   *)
(* keys are satisfied: what the data itself forbids is the operator's.     *)
(***************************************************************************)
EXTENDS Integers, Sequences, SequencesExt, FiniteSets

CONSTANTS
    MaxName,   \* the greatest name of a table or a column
    Backends,  \* of "sqlite", "postgres" and "mysql" (both MySQL and MariaDB)
    Models,    \* pairs of schemas: [before, after]
    DecisionsFor(_) \* the decisions a developer may take for a pair

VARIABLES
    input,     \* the call of generate(): [backend, before, after, decisions]
    direction, \* the script that is executed: "up", then "down"
    phase,     \* "model", "refused", "running", "done", "rejected"
    script,    \* statements of the script that are left
    base,      \* the database when the script was started
    db         \* the database

vars == <<input, direction, phase, script, base, db>>

-----------------------------------------------------------------------------
(* Snapshots.                                                              *)

\* Names of tables and columns, in the order of canonicalize(), and temporaryName():
\* a name no model has, one for each use.
ASSUME MaxNameAssumption == MaxName \in Nat
Names == 1..MaxName
StagedColumn(c) == MaxName + c
RenamedColumn(c) == 2 * MaxName + c
StagedTable(t) == MaxName + t
RenamedTable(t) == 2 * MaxName + t
IdentityIndex(c) == <<"identity", c>>

Sorted(S) == CHOOSE s \in [1..Cardinality(S) -> S] : \A i, j \in DOMAIN s : i < j => s[i] < s[j]
Each(S, Statements(_)) == FlattenSeq([i \in 1..Cardinality(S) |-> Statements(Sorted(S)[i])])
EachOf(S, Statement(_)) == LET s == SetToSeq(S) IN [i \in DOMAIN s |-> Statement(s[i])]

mysql(backend) == backend = "mysql"
constraintName(kind, t, columns) == <<kind, t, columns>>
ForeignKey(t, columns, target, targets) ==
    [name |-> <<"fk", t, columns, target, targets>>, columns |-> columns, target |-> target, targets |-> targets]

\* foreignKeyIndexes(): MySQL and MariaDB need one for each foreign key, unless the
\* primary key or the index of a wider foreign key serves.
foreignKeyIndexes(t, table) ==
    {[name |-> constraintName("fkidx", t, k.columns), columns |-> k.columns] :
        k \in {k \in table.keys :
                /\ ~IsPrefix(k.columns, table.primary)
                /\ \A other \in table.keys : IsPrefix(k.columns, other.columns) => other.columns = k.columns}}

\* capture(): a table with the names its constraints get on a backend.
physicalTable(backend, t, table) ==
    [columns |-> table.columns, primary |-> table.primary, keys |-> table.keys,
     primaryName |-> IF table.primary = <<>> \/ mysql(backend) THEN <<"PRIMARY">>
                     ELSE constraintName("pk", t, table.primary),
     indexes |-> IF mysql(backend) THEN foreignKeyIndexes(t, table) ELSE {}]
capture(backend, schema) == [t \in DOMAIN schema |-> physicalTable(backend, t, schema[t])]

\* What a model is: columns with their definitions, and foreign keys with the names
\* constraintName() gives them.
ColumnDefinition == [type : {"int", "big"}, null : BOOLEAN, auto : BOOLEAN]
WellFormed(schema) ==
    /\ DOMAIN schema \subseteq Names
    /\ \A t \in DOMAIN schema :
        /\ DOMAIN schema[t].columns \subseteq Names
        /\ schema[t].columns \in [DOMAIN schema[t].columns -> ColumnDefinition]
        /\ schema[t].primary \in Seq(Names)
        /\ \A k \in schema[t].keys : k = ForeignKey(t, k.columns, k.target, k.targets)
ASSUME ModelsAssumption == \A m \in Models : WellFormed(m.before) /\ WellFormed(m.after)

\* validateSnapshot().
validateSnapshot(schema) ==
    \A t \in DOMAIN schema :
        LET columns == schema[t].columns
            primary == schema[t].primary
        IN  /\ columns # <<>>
            /\ ToSet(primary) \subseteq {c \in DOMAIN columns : ~columns[c].null}
            /\ \A c \in DOMAIN columns :
                columns[c].auto => ~columns[c].null /\ columns[c].type = "int" /\ primary = <<c>>
            /\ \A k \in schema[t].keys :
                /\ k.target \in DOMAIN schema /\ ToSet(k.columns) \subseteq DOMAIN columns
                /\ k.targets = schema[k.target].primary /\ Len(k.columns) = Len(k.targets)
                /\ \A i \in DOMAIN k.columns :
                    columns[k.columns[i]].type = schema[k.target].columns[k.targets[i]].type

-----------------------------------------------------------------------------
(* compare().                                                              *)

targetTable(t, d) == IF \E r \in d.tables : r.from = t THEN (CHOOSE r \in d.tables : r.from = t).to ELSE t
sourceTable(t, d) == IF \E r \in d.tables : r.to = t THEN (CHOOSE r \in d.tables : r.to = t).from ELSE t
targetColumn(t, c, d) ==
    LET found == {r \in d.columns : r.table = t /\ r.from = c}
    IN  IF found = {} THEN c ELSE (CHOOSE r \in found : TRUE).to
sourceColumn(t, c, d) ==
    LET found == {r \in d.columns : r.table = t /\ r.to = c}
    IN  IF found = {} THEN c ELSE (CHOOSE r \in found : TRUE).from

\* The table and the column of the source a target comes from, or 0.
matchingSource(before, t, d) ==
    LET s == sourceTable(t, d) IN IF s \in DOMAIN before /\ targetTable(s, d) = t THEN s ELSE 0
matchingSourceColumn(source, t, c, d) ==
    LET s == sourceColumn(t, c, d) IN IF s \in DOMAIN source.columns /\ targetColumn(t, s, d) = c THEN s ELSE 0

\* validateRenames(): pairs of names that exist, one to one, onto free names.
validateRenames(before, after, d) ==
    /\ \A r \in d.tables :
        /\ r.from # r.to /\ r.from \in DOMAIN before /\ r.to \in DOMAIN after
        /\ \A q \in d.tables \ {r} : q.from # r.from /\ q.to # r.to
        /\ r.to \in DOMAIN before => \E q \in d.tables : q.from = r.to
    /\ \A r \in d.columns :
        LET s == sourceTable(r.table, d)
        IN  /\ r.from # r.to /\ s \in DOMAIN before /\ r.table \in DOMAIN after
            /\ r.from \in DOMAIN before[s].columns /\ r.to \in DOMAIN after[r.table].columns
            /\ \A q \in d.columns \ {r} : q.table = r.table => q.from # r.from /\ q.to # r.to
            /\ r.to \in DOMAIN before[s].columns => \E q \in d.columns : q.table = r.table /\ q.from = r.to

Change(kind, t, c, loss, needs) == [kind |-> kind, table |-> t, column |-> c, loss |-> loss, needs |-> needs]

safeTypeChange(a, b) == a.type = b.type \/ (a.type = "int" /\ b.type = "big")

mapColumns(t, columns, d) == [i \in DOMAIN columns |-> targetColumn(t, columns[i], d)]
mapKey(t, k, d) ==
    [k EXCEPT !.columns = mapColumns(t, @, d), !.target = targetTable(@, d),
              !.targets = mapColumns(targetTable(k.target, d), @, d)]
mapIndex(t, i, d) == [i EXCEPT !.columns = mapColumns(t, @, d)]

\* An altered column needs a conversion unless the type is only widened, and a
\* backfill or a conversion when NULL is no longer allowed.
AlterColumn(t, c, a, b, d) ==
    Change("alter-column", t, c, ~safeTypeChange(a, b) \/ a.auto # b.auto,
           \/ ~safeTypeChange(a, b) /\ <<t, c>> \notin DOMAIN d.conversions
           \/ a.null /\ ~b.null /\ <<t, c>> \notin DOMAIN d.backfills \cup DOMAIN d.conversions)

compareTables(s, source, t, target, d) ==
    LET to(c) == targetColumn(t, c, d)
        kept == {c \in DOMAIN source.columns : to(c) \in DOMAIN target.columns}
    IN  {Change("rename-table", t, 0, FALSE, FALSE) : x \in IF s # t THEN {s} ELSE {}}
        \cup {Change("drop-column", t, c, TRUE, FALSE) : c \in DOMAIN source.columns \ kept}
        \cup {Change("rename-column", t, c, FALSE, FALSE) : c \in {c \in kept : to(c) # c}}
        \cup {AlterColumn(t, to(c), source.columns[c], target.columns[to(c)], d) :
                c \in {c \in kept : source.columns[c] # target.columns[to(c)]}}
        \cup {Change("add-column", t, c, FALSE,
                     /\ ~target.columns[c].null /\ ~target.columns[c].auto
                     /\ <<t, c>> \notin DOMAIN d.backfills) :
                c \in DOMAIN target.columns \ {to(c) : c \in kept}}
        \cup {Change("alter-primary-key", t, 0, mapColumns(t, source.primary, d) # target.primary, FALSE) :
                x \in IF mapColumns(t, source.primary, d) = target.primary
                         /\ source.primaryName = target.primaryName THEN {} ELSE {t}}
        \cup {Change("foreign-key", t, 0, FALSE, FALSE) :
                x \in IF {mapKey(t, k, d) : k \in source.keys} = target.keys THEN {} ELSE {t}}
        \cup {Change("index", t, 0, FALSE, FALSE) :
                x \in IF {mapIndex(t, i, d) : i \in source.indexes} = target.indexes THEN {} ELSE {t}}

compare(before, after, d) ==
    LET to(s) == targetTable(s, d)
        kept == {s \in DOMAIN before : to(s) \in DOMAIN after}
    IN  (UNION {compareTables(s, before[s], to(s), after[to(s)], d) : s \in kept})
        \cup {Change("drop-table", s, 0, TRUE, FALSE) : s \in DOMAIN before \ kept}
        \cup {Change("create-table", t, 0, FALSE, FALSE) : t \in DOMAIN after \ {to(s) : s \in kept}}

\* Variant: data loss needs no approval.
ResolvedUnapproved(before, after, d) ==
    validateRenames(before, after, d) /\ \A x \in compare(before, after, d) : ~x.needs
\* resolved(): no diagnostic, every input there, every loss approved.
resolved(before, after, d) ==
    /\ validateRenames(before, after, d)
    /\ \A x \in compare(before, after, d) : ~x.needs /\ (x.loss => d.approved)

-----------------------------------------------------------------------------
(* generate().                                                             *)

\* A transformation is a constant, a column of the source table, or, where it
\* names another table, an expression that reads it.
Constant == <<0, 0>>

\* transformationSql(): a source column exists and does not bring NULL into a
\* column that forbids it.  Expressions are not looked into.
transformationSql(v, s, source, column) ==
    v[1] = s => v[2] \in DOMAIN source.columns /\ (source.columns[v[2]].null => column.null)

validateTransformations(before, after, d) ==
    \A x \in DOMAIN d.backfills \cup DOMAIN d.conversions :
        LET t == x[1]
            s == matchingSource(before, t, d)
        IN  /\ s # 0 /\ t \in DOMAIN after /\ x[2] \in DOMAIN after[t].columns
            /\ x \in DOMAIN d.backfills =>
                transformationSql(d.backfills[x], s, before[s], after[t].columns[x[2]])
            /\ x \in DOMAIN d.conversions =>
                /\ matchingSourceColumn(before[s], t, x[2], d) # 0
                /\ transformationSql(d.conversions[x], s, before[s], after[t].columns[x[2]])

changedTables(before, after, d) == {x.table : x \in compare(before, after, d)}

\* Variant: the tables that reference a changed one are left alone.
ChangedSources(before, after, d) ==
    {s \in DOMAIN before : targetTable(s, d) \in changedTables(before, after, d) \cup (DOMAIN before \ DOMAIN after)}
\* nativeAffectedSources(): what changes, and whoever references it, transitively.
nativeAffectedSources(before, after, d) ==
    LET changed == changedTables(before, after, d)
        first == {s \in DOMAIN before : targetTable(s, d) \in changed \/ targetTable(s, d) \notin DOMAIN after}
        grown[n \in Nat] ==
            IF n = 0 THEN first
            ELSE grown[n - 1] \cup {s \in DOMAIN before : \E k \in before[s].keys : k.target \in grown[n - 1]}
    IN  grown[Cardinality(DOMAIN before)]

Converts(t, c, d) == <<t, c>> \in DOMAIN d.conversions
Fills(t, c, d) == <<t, c>> \in DOMAIN d.backfills

\* A nullable source column, a target column that forbids NULL, and a backfill.
Tightens(source, t, target, c, d) ==
    LET o == matchingSourceColumn(source, t, c, d)
    IN  o # 0 /\ source.columns[o].null /\ ~target.columns[c].null /\ Fills(t, c, d)

\* Target columns that are built in a staging column beside the source.
stages(source, t, target, d) ==
    {c \in DOMAIN target.columns :
        \/ matchingSourceColumn(source, t, c, d) = 0
        \/ Converts(t, c, d)
        \/ Tightens(source, t, target, c, d)}

\* Source columns that are dropped: the target lacks them or has a staged one.  (The
\* order in which they go makes no difference.)
remove(source, t, target, d) ==
    {c \in DOMAIN source.columns :
        LET n == targetColumn(t, c, d)
        IN  n \notin DOMAIN target.columns \/ n \in stages(source, t, target, d)}

\* The primary key changes its name or its columns; it is replaced then, and when
\* one of its columns is staged.
PrimaryDiffers(source, t, target, d) ==
    source.primaryName # target.primaryName \/ mapColumns(t, source.primary, d) # target.primary
replacePrimary(source, t, target, d) ==
    \/ PrimaryDiffers(source, t, target, d)
    \/ remove(source, t, target, d) \cap ToSet(source.primary) # {}

\* An identity cannot be converted: its high-water mark would be lost.
IdentityConversion(before, after, d) ==
    \E s \in DOMAIN before : \E c \in DOMAIN before[s].columns :
        LET t == targetTable(s, d)
            n == targetColumn(t, c, d)
        IN  /\ t \in changedTables(before, after, d) \cap DOMAIN after
            /\ before[s].columns[c].auto /\ n \in DOMAIN after[t].columns /\ Converts(t, n, d)

\* prepareNativeTable(): identities that end are dropped, then every staging column
\* is added and filled, while all tables and columns still have their names.
EndsIdentity(backend, source, t, target, c, d) ==
    LET n == targetColumn(t, c, d)
    IN  /\ source.columns[c].auto
        /\ \/ n \notin DOMAIN target.columns
           \/ ~target.columns[n].auto
           \/ mysql(backend) /\ PrimaryDiffers(source, t, target, d)
staged(source, t, column, c, d) ==
    [type |-> column.type, null |-> ~column.auto, auto |-> column.auto /\ matchingSourceColumn(source, t, c, d) = 0]
fill(s, source, t, target, c, d) ==
    IF Converts(t, c, d) THEN <<d.conversions[<<t, c>>]>>
    ELSE IF Tightens(source, t, target, c, d)
    THEN <<<<s, matchingSourceColumn(source, t, c, d)>>, d.backfills[<<t, c>>]>>
    ELSE <<d.backfills[<<t, c>>]>>
prepareNativeTable(backend, s, source, t, target, d) ==
    LET as(c) == staged(source, t, target.columns[c], c, d)
    IN  Each({c \in DOMAIN source.columns : EndsIdentity(backend, source, t, target, c, d)}, LAMBDA c :
            <<[op |-> "modify", table |-> s, column |-> c, as |-> [source.columns[c] EXCEPT !.auto = FALSE]]>>)
        \o Each(stages(source, t, target, d), LAMBDA c :
            <<[op |-> "add-column", table |-> s, column |-> StagedColumn(c), as |-> as(c),
               indexes |-> IF mysql(backend) /\ as(c).auto
                           THEN {[name |-> IdentityIndex(c), columns |-> <<StagedColumn(c)>>]} ELSE {}]>>
            \o (IF Converts(t, c, d) \/ Fills(t, c, d)
                THEN <<[op |-> "update", table |-> s, column |-> StagedColumn(c),
                        values |-> fill(s, source, t, target, c, d)]>>
                ELSE <<>>))

RenameColumns(t, S, from(_), to(_)) ==
    Each(S, LAMBDA c : <<[op |-> "rename-column", table |-> t, column |-> from(c), to |-> to(c)]>>)

\* The definition a column of the target still needs.  MySQL restates all of it,
\* without the identity while there is no key; PostgreSQL alters part by part.
AlterColumnSql(backend, source, t, target, c, d) ==
    LET o == matchingSourceColumn(source, t, c, d)
        new == target.columns[c]
        kept == o # 0 /\ c \notin stages(source, t, target, d)
        replaced == mysql(backend) /\ replacePrimary(source, t, target, d) /\ new.auto
        alter(op) == <<[op |-> op, table |-> t, column |-> c, as |-> new]>>
        when(condition, op) == IF condition THEN alter(op) ELSE <<>>
    IN  IF kept /\ source.columns[o] = new /\ ~replaced THEN <<>>
        ELSE IF mysql(backend)
        THEN <<[op |-> "modify", table |-> t, column |-> c, as |-> [new EXCEPT !.auto = @ /\ ~replaced]]>>
        ELSE when(kept /\ source.columns[o].type # new.type, "alter-type")
             \o when(~new.null, "set-not-null")
             \o when(new.null /\ kept /\ ~source.columns[o].null, "drop-not-null")
             \o when(new.auto /\ o # 0 /\ ~source.columns[o].auto, "add-identity")

\* nativeSql(), one table of both schemas.  Renamed columns pass through temporary
\* names.  (What setval() does to a sequence is left out.)
alterNativeTable(backend, source, t, target, d) ==
    LET replace == replacePrimary(source, t, target, d)
        staging == stages(source, t, target, d)
        to(c) == targetColumn(t, c, d)
        renamed == {c \in DOMAIN source.columns : to(c) # c /\ to(c) \in DOMAIN target.columns \ staging}
        identities == {c \in staging : staged(source, t, target.columns[c], c, d).auto}
    IN  (IF replace /\ source.primary # <<>>
         THEN <<[op |-> "drop-primary", table |-> t, name |-> source.primaryName]>> ELSE <<>>)
        \o Each(remove(source, t, target, d), LAMBDA c : <<[op |-> "drop-column", table |-> t, column |-> c]>>)
        \o RenameColumns(t, renamed, LAMBDA c : c, RenamedColumn)
        \o RenameColumns(t, renamed, RenamedColumn, to)
        \o RenameColumns(t, staging, StagedColumn, LAMBDA c : c)
        \o Each(DOMAIN target.columns, LAMBDA c : AlterColumnSql(backend, source, t, target, c, d))
        \o (IF replace /\ target.primary # <<>>
            THEN <<[op |-> "add-primary", table |-> t, name |-> target.primaryName, columns |-> target.primary,
                    auto |-> {c \in DOMAIN target.columns : mysql(backend) /\ target.columns[c].auto}]>>
            ELSE <<>>)
        \o (IF mysql(backend)
            THEN Each(identities, LAMBDA c : <<[op |-> "drop-index", table |-> t, name |-> IdentityIndex(c)]>>)
            ELSE <<>>)

RenameTables(d, from(_), to(_)) ==
    EachOf(d.tables, LAMBDA r : [op |-> "rename-table", table |-> from(r), to |-> to(r)])
CreateTable(t, table) == [op |-> "create-table", table |-> t, as |-> table]
CreateIndexes(t, table) ==
    EachOf(table.indexes, LAMBDA i : [op |-> "create-index", table |-> t, index |-> i])

nativeSql(backend, before, after, d) ==
    LET changed == changedTables(before, after, d)
        affectedSources == nativeAffectedSources(before, after, d)
        affectedTargets == (changed \cup {targetTable(s, d) : s \in affectedSources}) \cap DOMAIN after
        to(s) == targetTable(s, d)
        new == {t \in DOMAIN after : matchingSource(before, t, d) = 0}
    IN  Each(affectedSources, LAMBDA s :
            EachOf(before[s].keys, LAMBDA k : [op |-> "drop-key", table |-> s, name |-> k.name]))
        \o Each(affectedSources, LAMBDA s :
            EachOf(before[s].indexes, LAMBDA i : [op |-> "drop-index", table |-> s, name |-> i.name]))
        \o Each({s \in DOMAIN before : to(s) \in changed \cap DOMAIN after}, LAMBDA s :
            prepareNativeTable(backend, s, before[s], to(s), after[to(s)], d))
        \o RenameTables(d, LAMBDA r : r.from, LAMBDA r : RenamedTable(r.from))
        \o RenameTables(d, LAMBDA r : RenamedTable(r.from), LAMBDA r : r.to)
        \o Each(DOMAIN before, LAMBDA s :
            IF to(s) \notin DOMAIN after THEN <<[op |-> "drop-table", table |-> s]>>
            ELSE IF to(s) \notin changed THEN <<>>
            ELSE alterNativeTable(backend, before[s], to(s), after[to(s)], d))
        \o Each(new, LAMBDA t :
            <<CreateTable(t, [after[t] EXCEPT !.keys = {}, !.indexes = IF mysql(backend) THEN @ ELSE {}])>>)
        \o Each(affectedTargets, LAMBDA t :
            IF mysql(backend) /\ t \in new THEN <<>> ELSE CreateIndexes(t, after[t]))
        \o Each(affectedTargets, LAMBDA t :
            EachOf(after[t].keys, LAMBDA k : [op |-> "add-key", table |-> t, key |-> k]))

\* sqliteSql(): copy every changed table, drop the sources, rename the copies.
Selected(s, source, t, target, c, d) ==
    LET o == matchingSourceColumn(source, t, c, d)
        backfill == IF Fills(t, c, d) THEN <<d.backfills[<<t, c>>]>> ELSE <<>>
    IN  IF Converts(t, c, d) THEN <<d.conversions[<<t, c>>]>>
        ELSE IF o = 0 THEN backfill
        ELSE IF source.columns[o].null /\ ~target.columns[c].null THEN <<<<s, o>>>> \o backfill
        ELSE <<<<s, o>>>>
sqliteSql(before, after, d) ==
    LET changed == changedTables(before, after, d)
        to(s) == targetTable(s, d)
        gone == {s \in DOMAIN before : to(s) \notin DOMAIN after}
        rebuild == {s \in DOMAIN before \ gone : to(s) \in changed}
    IN  Each(rebuild, LAMBDA s :
            <<CreateTable(StagedTable(s), [after[to(s)] EXCEPT !.indexes = {}]),
              [op |-> "insert", table |-> s, into |-> StagedTable(s),
               values |-> [c \in DOMAIN after[to(s)].columns |->
                               Selected(s, before[s], to(s), after[to(s)], c, d)]]>>)
        \o Each(rebuild \cup gone, LAMBDA s : <<[op |-> "drop-table", table |-> s]>>)
        \o Each(rebuild, LAMBDA s :
            <<[op |-> "rename-table", table |-> StagedTable(s), to |-> to(s)]>> \o CreateIndexes(to(s), after[to(s)]))
        \o Each({t \in DOMAIN after : matchingSource(before, t, d) = 0}, LAMBDA t :
            <<CreateTable(t, [after[t] EXCEPT !.indexes = {}])>> \o CreateIndexes(t, after[t]))

\* Variant: renamed columns are not renamed back.
InverseOfTables(d) ==
    [tables |-> {[from |-> r.to, to |-> r.from] : r \in d.tables}, columns |-> {},
     backfills |-> d.downBackfills, conversions |-> d.downConversions, approved |-> d.approvedDown]
\* inverseDecisions(): renames backwards, with the decisions taken for the way down.
inverseDecisions(d) ==
    [tables |-> {[from |-> r.to, to |-> r.from] : r \in d.tables},
     columns |-> {[table |-> sourceTable(r.table, d), from |-> r.to, to |-> r.from] : r \in d.columns},
     backfills |-> d.downBackfills, conversions |-> d.downConversions, approved |-> d.approvedDown]

\* reverseReady(): no table is gone for good and every dropped column comes back
\* with a value.
reverseReady(before, after, d) ==
    /\ resolved(after, before, inverseDecisions(d))
    /\ \A x \in compare(before, after, d) :
        /\ x.kind # "drop-table"
        /\ x.kind = "drop-column" => Fills(sourceTable(x.table, d), x.column, inverseDecisions(d))

\* The script of one direction, and whether generate() makes it without an error.
Sql(backend, before, after, d) ==
    IF backend = "sqlite" THEN sqliteSql(before, after, d) ELSE nativeSql(backend, before, after, d)
Generates(backend, before, after, d) ==
    /\ validateTransformations(before, after, d)
    /\ backend # "sqlite" => ~IdentityConversion(before, after, d)

generate(backend, before, after, d) ==
    /\ validateSnapshot(before) /\ validateSnapshot(after)
    /\ resolved(before, after, d)
    /\ compare(before, after, d) # {}
    /\ Generates(backend, before, after, d)
    /\ reverseReady(before, after, d) => Generates(backend, after, before, inverseDecisions(d))

\* The code does not look into expressions: that they read tables and columns that
\* are there is up to the developer.
ExpressionsRead(schema, d) ==
    LET reads(x, v) == \/ v = Constant \/ v[1] = matchingSource(schema, x[1], d)
                       \/ v[1] \in DOMAIN schema /\ v[2] \in DOMAIN schema[v[1]].columns
    IN  /\ \A x \in DOMAIN d.backfills : reads(x, d.backfills[x])
        /\ \A x \in DOMAIN d.conversions : reads(x, d.conversions[x])
ASSUME DecisionsAssumption ==
    \A m \in Models : \A d \in DecisionsFor(m) :
        ExpressionsRead(m.before, d) /\ ExpressionsRead(m.after, inverseDecisions(d))

-----------------------------------------------------------------------------
(* The server (external).                                                  *)

Nulls == [terms |-> <<>>, nulls |-> TRUE]
Serial == [terms |-> <<<<0, 1>>>>, nulls |-> FALSE]

\* COALESCE over values.
Coalesce(values) ==
    [terms |-> FlattenSeq([i \in DOMAIN values |-> values[i].terms]),
     nulls |-> \A i \in DOMAIN values : values[i].nulls]
\* A transformation, evaluated for the rows of table t.  An expression over
\* another table supplies a default of its own.
Evaluate(tables, t, v) ==
    IF v = Constant THEN [terms |-> <<Constant>>, nulls |-> FALSE]
    ELSE LET value == tables[v[1]].columns[v[2]].value
         IN  IF v[1] = t THEN value ELSE [terms |-> Append(value.terms, Constant), nulls |-> FALSE]
EvaluateAll(tables, t, values) == Coalesce([i \in DOMAIN values |-> Evaluate(tables, t, values[i])])
Readable(values) == \A i \in DOMAIN values :
    values[i] = Constant \/ (values[i][1] \in DOMAIN db /\ values[i][2] \in DOMAIN db[values[i][1]].columns)

\* A table of a snapshot with values for its columns.
Filled(table, Value(_)) ==
    [table EXCEPT !.columns = [c \in DOMAIN @ |-> [type |-> @[c].type, null |-> @[c].null, auto |-> @[c].auto,
                                                   value |-> Value(c)]]]
Installed(schema) ==
    [t \in DOMAIN schema |->
        Filled(schema[t], LAMBDA c : [terms |-> <<<<t, c>>>>, nulls |-> schema[t].columns[c].null])]
Definition(tables) ==
    [t \in DOMAIN tables |->
        [tables[t] EXCEPT !.columns = [c \in DOMAIN @ |-> [type |-> @[c].type, null |-> @[c].null, auto |-> @[c].auto]]]]

Put(f, x, v) == [y \in DOMAIN f \cup {x} |-> IF y = x THEN v ELSE f[y]]
Without(f, x) == [y \in DOMAIN f \ {x} |-> f[y]]
Renamed(s, from, to) == [i \in DOMAIN s |-> IF s[i] = from THEN to ELSE s[i]]
Move(f, from, to) == [y \in (DOMAIN f \ {from}) \cup {to} |-> IF y = to THEN f[from] ELSE f[y]]

\* PostgreSQL keeps the indexes of a schema, those of primary keys too, in one
\* namespace; MySQL has one for each table.
NameFree(t, name) ==
    LET names(u) == {i.name : i \in db[u].indexes} \cup (IF db[u].primary = <<>> THEN {} ELSE {db[u].primaryName})
    IN  \A u \in DOMAIN db : input.backend = "postgres" \/ u = t => name \notin names(u)
Referenced(t) == \E u \in DOMAIN db : \E k \in db[u].keys : k.target = t
KeyColumn(t, c) ==
    \/ \E k \in db[t].keys : c \in ToSet(k.columns)
    \/ \E u \in DOMAIN db : \E k \in db[u].keys : k.target = t /\ c \in ToSet(k.targets)
\* MySQL wants an index that begins with the identity, and no second identity.
Indexed(table, c) == IsPrefix(<<c>>, table.primary) \/ \E i \in table.indexes : IsPrefix(<<c>>, i.columns)
IdentitiesIndexed(table) ==
    mysql(input.backend) =>
        LET identities == {c \in DOMAIN table.columns : table.columns[c].auto}
        IN  Cardinality(identities) <= 1 /\ \A c \in identities : Indexed(table, c)
KeysIndexed(table) ==
    mysql(input.backend) =>
        \A k \in table.keys : IsPrefix(k.columns, table.primary) \/ \E i \in table.indexes : IsPrefix(k.columns, i.columns)
Sound(table) == IdentitiesIndexed(table) /\ KeysIndexed(table)

\* The table a statement about one table leaves.
Altered(s) ==
    LET table == db[s.table]
        set(field, v) == [table EXCEPT !.columns[s.column] = [@ EXCEPT ![field] = v]]
        redefine(t, c, as) ==
            [t EXCEPT !.columns[c] = [type |-> as.type, null |-> as.null, auto |-> as.auto, value |-> @.value]]
    IN  CASE s.op = "drop-key" -> [table EXCEPT !.keys = {k \in @ : k.name # s.name}]
          [] s.op = "add-key" -> [table EXCEPT !.keys = @ \cup {s.key}]
          [] s.op = "drop-index" -> [table EXCEPT !.indexes = {i \in @ : i.name # s.name}]
          [] s.op = "create-index" -> [table EXCEPT !.indexes = @ \cup {s.index}]
          [] s.op = "modify" -> redefine(table, s.column, s.as)
          [] s.op = "alter-type" -> set("type", s.as.type)
          [] s.op = "set-not-null" -> set("null", FALSE)
          [] s.op = "drop-not-null" -> set("null", TRUE)
          [] s.op = "add-identity" -> set("auto", TRUE)
          [] s.op = "add-column" ->
                [table EXCEPT !.indexes = @ \cup s.indexes,
                              !.columns = Put(@, s.column, [type |-> s.as.type, null |-> s.as.null, auto |-> s.as.auto,
                                                            value |-> IF s.as.auto THEN Serial ELSE Nulls])]
          [] s.op = "update" -> set("value", EvaluateAll(db, s.table, s.values))
          [] s.op = "drop-column" ->
                [table EXCEPT !.columns = Without(@, s.column),
                              !.primary = IF mysql(input.backend) THEN SelectSeq(@, LAMBDA c : c # s.column)
                                          ELSE IF s.column \in ToSet(@) THEN <<>> ELSE @,
                              !.indexes = {i \in @ : s.column \notin ToSet(i.columns)}]
          [] s.op = "rename-column" ->
                [table EXCEPT !.columns = Move(@, s.column, s.to), !.primary = Renamed(@, s.column, s.to),
                              !.indexes = {[i EXCEPT !.columns = Renamed(@, s.column, s.to)] : i \in @}]
          [] s.op = "drop-primary" -> [table EXCEPT !.primary = <<>>, !.primaryName = <<"PRIMARY">>]
          [] s.op = "add-primary" ->
                [table EXCEPT !.primary = s.columns, !.primaryName = s.name,
                              !.columns = [c \in DOMAIN @ |-> [@[c] EXCEPT !.null = @ /\ c \notin ToSet(s.columns),
                                                                           !.auto = @ \/ c \in s.auto]]]

\* Whether the server executes a statement.
Accepts(s) ==
    CASE s.op = "create-table" -> s.table \notin DOMAIN db /\ NameFree(s.table, s.as.primaryName)
      [] s.op = "drop-table" -> s.table \in DOMAIN db /\ (input.backend # "sqlite" => ~Referenced(s.table))
      [] s.op = "rename-table" -> s.table \in DOMAIN db /\ s.to \notin DOMAIN db
      [] s.op = "insert" ->
            /\ {s.table, s.into} \subseteq DOMAIN db
            /\ \A c \in DOMAIN s.values :
                /\ Readable(s.values[c])
                /\ \/ db[s.into].columns[c].null \/ db[s.into].columns[c].auto
                   \/ ~EvaluateAll(db, s.table, s.values[c]).nulls
      [] OTHER ->
            /\ s.table \in DOMAIN db
            /\ LET table == db[s.table]
                   forbids == ~s.as.null /\ table.columns[s.column].value.nulls
               IN  /\ s.op \in {"modify", "alter-type", "set-not-null", "drop-not-null", "add-identity", "update",
                                "drop-column", "rename-column"} => s.column \in DOMAIN table.columns
                   /\ CASE s.op = "drop-key" -> \E k \in table.keys : k.name = s.name
                        [] s.op = "drop-index" -> \E i \in table.indexes : i.name = s.name
                        [] s.op = "create-index" -> NameFree(s.table, s.index.name)
                        [] s.op = "modify" ->
                              /\ ~forbids /\ (s.as.null => s.column \notin ToSet(table.primary))
                              /\ KeyColumn(s.table, s.column) => s.as.type = table.columns[s.column].type
                        [] s.op \in {"alter-type", "set-not-null"} -> s.op = "set-not-null" => ~forbids
                        [] s.op = "drop-not-null" -> s.column \notin ToSet(table.primary)
                        [] s.op = "add-identity" -> ~table.columns[s.column].null /\ ~table.columns[s.column].auto
                        [] s.op = "add-column" ->
                              /\ s.column \notin DOMAIN table.columns
                              /\ s.as.null \/ s.as.auto \/ mysql(input.backend)
                        [] s.op = "update" -> Readable(s.values)
                        [] s.op = "drop-column" -> ~KeyColumn(s.table, s.column)
                        [] s.op = "rename-column" -> s.to \notin DOMAIN table.columns
                        [] s.op = "drop-primary" ->
                              ~Referenced(s.table) /\ table.primary # <<>> /\ table.primaryName = s.name
                        [] s.op = "add-primary" ->
                              /\ table.primary = <<>> /\ NameFree(s.table, s.name)
                              /\ \A c \in ToSet(s.columns) :
                                    c \in DOMAIN table.columns /\ ~table.columns[c].value.nulls
                        [] s.op = "add-key" ->
                              /\ s.key.target \in DOMAIN db /\ ToSet(s.key.columns) \subseteq DOMAIN table.columns
                              /\ s.key.targets = db[s.key.target].primary
                              /\ \A i \in DOMAIN s.key.columns :
                                    table.columns[s.key.columns[i]].type
                                        = db[s.key.target].columns[s.key.targets[i]].type
                   /\ Sound(Altered(s))

\* What an executed statement leaves; foreign keys follow the names they reference.
Effect(s) ==
    LET retarget(tables, followed(_)) ==
            [u \in DOMAIN tables |-> [tables[u] EXCEPT !.keys = {followed(k) : k \in @}]]
    IN  CASE s.op = "create-table" -> Put(db, s.table, Filled(s.as, LAMBDA c : Nulls))
          [] s.op = "drop-table" -> Without(db, s.table)
          [] s.op = "rename-table" ->
                retarget(Move(db, s.table, s.to), LAMBDA k : [k EXCEPT !.target = IF @ = s.table THEN s.to ELSE @])
          [] s.op = "insert" ->
                LET copy(c) == IF db[s.into].columns[c].auto /\ s.values[c] = <<>> THEN Serial
                               ELSE EvaluateAll(db, s.table, s.values[c])
                IN  [db EXCEPT ![s.into] = Filled(@, copy)]
          [] s.op = "rename-column" ->
                LET moved == [db EXCEPT ![s.table] = [Altered(s) EXCEPT !.keys =
                                {[k EXCEPT !.columns = Renamed(@, s.column, s.to)] : k \in @}]]
                IN  retarget(moved, LAMBDA k : [k EXCEPT !.targets =
                        IF k.target = s.table THEN Renamed(@, s.column, s.to) ELSE @])
          [] OTHER -> [db EXCEPT ![s.table] = Altered(s)]

-----------------------------------------------------------------------------
(* The run of a migration.                                                 *)

\* What is migrated in the current direction.
Source == capture(input.backend, IF direction = "up" THEN input.before ELSE input.after)
Target == capture(input.backend, IF direction = "up" THEN input.after ELSE input.before)
Decisions == IF direction = "up" THEN input.decisions ELSE inverseDecisions(input.decisions)

Init ==
    /\ \E backend \in Backends, m \in Models : \E d \in DecisionsFor(m) :
        input = [backend |-> backend, before |-> m.before, after |-> m.after, decisions |-> d]
    /\ direction = "up"
    /\ phase = "model"
    /\ script = <<>>
    /\ db = Installed(capture(input.backend, input.before))
    /\ base = db

Generate ==
    /\ phase = "model"
    /\ IF generate(input.backend, Source, Target, Decisions)
       THEN phase' = "running" /\ script' = Sql(input.backend, Source, Target, Decisions)
       ELSE phase' = "refused" /\ UNCHANGED script
    /\ UNCHANGED <<input, direction, base, db>>

Execute ==
    /\ phase = "running" /\ script # <<>>
    /\ Accepts(Head(script))
    /\ db' = Effect(Head(script))
    /\ script' = Tail(script)
    /\ UNCHANGED <<input, direction, phase, base>>

\* A refused statement ends the script; only MySQL keeps what was executed.
Reject ==
    /\ phase = "running" /\ script # <<>>
    /\ ~Accepts(Head(script))
    /\ phase' = "rejected"
    /\ db' = IF mysql(input.backend) THEN db ELSE base
    /\ UNCHANGED <<input, direction, script, base>>

Finish ==
    /\ phase = "running" /\ script = <<>>
    /\ phase' = "done"
    /\ UNCHANGED <<input, direction, script, base, db>>

\* The migration is undone with its down script, if it has one.
Undo ==
    /\ phase = "done" /\ direction = "up"
    /\ reverseReady(Source, Target, Decisions)
    /\ direction' = "down"
    /\ phase' = "running"
    /\ script' = Sql(input.backend, Target, Source, inverseDecisions(Decisions))
    /\ base' = db
    /\ UNCHANGED <<input, db>>

Next == Generate \/ Execute \/ Reject \/ Finish \/ Undo

Spec == Init /\ [][Next]_vars

-----------------------------------------------------------------------------
(* Properties.                                                             *)

\* Known limits of the PostgreSQL scripts: a table takes the name of another one,
\* whose primary key still has the name the first table's is to get; and a column
\* that was there becomes an identity through a staging column, which is added as
\* NOT NULL before it is filled.
TakesKeyName == \E r \in Decisions.tables : r.to \in DOMAIN Source
StagesIdentity ==
    \E t \in DOMAIN Target : \E c \in DOMAIN Target[t].columns :
        LET s == matchingSource(Source, t, Decisions)
        IN  /\ s # 0 /\ Target[t].columns[c].auto
            /\ matchingSourceColumn(Source[s], t, c, Decisions) # 0
            /\ c \in stages(Source[s], t, Target[t], Decisions)

\* Every script generate() returns runs to its end on a server whose schema is
\* the snapshot it was generated from: no statement names something that is gone,
\* not there yet or still in use, or forbids values that are there.  (nativeSql(),
\* sqliteSql(): the order of drops, staging, renames, alterations and creations.)
ScriptsExecute ==
    phase = "rejected" => input.backend = "postgres" /\ (TakesKeyName \/ StagesIdentity)

\* What the decisions say a column holds after the migration.
Declared(t, c) ==
    LET s == matchingSource(Source, t, Decisions)
        o == matchingSourceColumn(Source[s], t, c, Decisions)
        old == base[s].columns[o].value
        backfill == Evaluate(base, s, Decisions.backfills[<<t, c>>])
    IN  IF Converts(t, c, Decisions) THEN Evaluate(base, s, Decisions.conversions[<<t, c>>])
        ELSE IF o # 0
        THEN IF Tightens(Source[s], t, Target[t], c, Decisions) THEN Coalesce(<<old, backfill>>) ELSE old
        ELSE IF Fills(t, c, Decisions) THEN backfill
        ELSE IF Target[t].columns[c].auto THEN Serial ELSE Nulls

\* At the end of a script, in either direction and on every backend, the schema is
\* the target snapshot, and every column of a table that changed holds what the
\* decisions declare, read from the source as it was before the first statement;
\* a table without a change is as it was.  (Two-phase renames, staging columns and
\* COALESCE in SchemaGeneration.cpp; rebuilt tables on SQLite.)
MigratedAsDeclared ==
    phase = "done" =>
        /\ Definition(db) = Target
        /\ \A t \in DOMAIN Target :
            LET s == matchingSource(Source, t, Decisions)
            IN  s # 0 =>
                    IF t \in changedTables(Source, Target, Decisions)
                    THEN \A c \in DOMAIN Target[t].columns : db[t].columns[c].value = Declared(t, c)
                    ELSE db[t] = base[s]

\* No data is lost unless its loss was approved or a conversion replaces it: the
\* values of every column of the source are still in some column, of a type that
\* holds them.  (SchemaChange::dataLoss in compare() against what the script does.)
NothingLostSilently ==
    phase = "done" /\ ~Decisions.approved =>
        \A s \in DOMAIN base : \A o \in DOMAIN base[s].columns :
            LET old == base[s].columns[o]
                t == targetTable(s, Decisions)
            IN  \/ t \in DOMAIN db /\ \E c \in DOMAIN db[t].columns :
                    /\ IsPrefix(old.value.terms, db[t].columns[c].value.terms)
                    /\ safeTypeChange(old, db[t].columns[c])
                \/ Converts(t, targetColumn(t, o, Decisions), Decisions)

\* Up and then down gives every column its values back, unless it was dropped or
\* converted on the way.  (inverseDecisions() and reverseReady().)
RoundTrip ==
    phase = "done" /\ direction = "down" =>
        \A s \in DOMAIN Target : \A o \in DOMAIN Target[s].columns :
            LET t == targetTable(s, input.decisions)
                c == targetColumn(t, o, input.decisions)
            IN  \/ c \notin DOMAIN Source[t].columns
                \/ Converts(t, c, input.decisions) \/ Converts(s, o, Decisions)
                \/ IsPrefix(<<<<s, o>>>>, db[s].columns[o].value.terms)

\* "Two-phase table renames also support explicit permutations of existing names."
PermutationsExecute == phase = "rejected" => ~TakesKeyName
=============================================================================
