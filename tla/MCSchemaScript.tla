--------------------------- MODULE MCSchemaScript ---------------------------
(***************************************************************************)
(* Migrations of small models, for TLC: at most two tables of at most two  *)
(* columns before and after, and whatever renames them.                    *)
(***************************************************************************)
EXTENDS SchemaScript, TLC

Column(type, null, auto) == [type |-> type, null |-> null, auto |-> auto]
I == Column("int", FALSE, FALSE)
N == Column("int", TRUE, FALSE)
B == Column("big", FALSE, FALSE)
A == Column("int", FALSE, TRUE)
Table(columns, primary) == [columns |-> columns, primary |-> primary, keys |-> {}]

\* Renames of the names {1, 2} that mention existing names only.
Renames(before, after) ==
    SUBSET {r \in [from : {1, 2}, to : {1, 2}] : r.from # r.to /\ r.from \in before /\ r.to \in after}

\* For the way back: a cast wherever a type narrows, and a constant for whatever
\* else comes back or may no longer be NULL.
Back(before, after, tables, columns) ==
    LET d == [tables |-> tables, columns |-> columns]
        all == UNION {{<<s, o>> : o \in DOMAIN before[s].columns} : s \in DOMAIN before}
        to(x) == <<targetTable(x[1], d), targetColumn(targetTable(x[1], d), x[2], d)>>
        stays(x) == to(x)[1] \in DOMAIN after
        kept(x) == stays(x) /\ to(x)[2] \in DOMAIN after[to(x)[1]].columns
        old(x) == before[x[1]].columns[x[2]]
        new(x) == after[to(x)[1]].columns[to(x)[2]]
        loose == {x \in all : stays(x) /\ IF kept(x) THEN new(x).null /\ ~old(x).null ELSE ~old(x).auto}
    IN  [downBackfills |-> [x \in loose |-> Constant],
         downConversions |-> [x \in {x \in all : kept(x) /\ ~safeTypeChange(new(x), old(x))} |-> to(x)],
         approvedDown |-> TRUE]
NoWayBack == [downBackfills |-> <<>>, downConversions |-> <<>>, approvedDown |-> FALSE]

Decide(m, tables, columns, backfills, conversions) ==
    LET d == [tables |-> tables, columns |-> columns, backfills |-> backfills, conversions |-> conversions]
    IN  {d @@ [approved |-> TRUE] @@ Back(m.before, m.after, tables, columns),
         d @@ [approved |-> FALSE] @@ NoWayBack}

-----------------------------------------------------------------------------
(* Tables that come, go, swap names and reference each other.              *)

Related(t, null, target) ==
    [Table((1 :> I) @@ (2 :> Column("int", null, FALSE)), <<1>>)
        EXCEPT !.keys = {ForeignKey(t, <<2>>, target, <<1>>)}]
TableSchemas ==
    LET plain == Table(1 :> I, <<1>>)
    IN  {<<>>, 1 :> plain, 2 :> plain, (1 :> plain) @@ (2 :> plain),
         (1 :> plain) @@ (2 :> Related(2, FALSE, 1)), (1 :> Related(1, TRUE, 2)) @@ (2 :> plain),
         (1 :> Related(1, TRUE, 2)) @@ (2 :> Related(2, TRUE, 1)), 2 :> Related(2, TRUE, 2)}
TableModels == {[about |-> "tables", before |-> before, after |-> after] : before, after \in TableSchemas}
TableChoices(m) ==
    UNION {Decide(m, tables, {}, backfills, <<>>) :
             tables \in Renames(DOMAIN m.before, DOMAIN m.after),
             backfills \in {<<>>} \cup
                {<<t, 2>> :> v : t \in {t \in DOMAIN m.after : 2 \in DOMAIN m.after[t].columns},
                                 v \in {Constant} \cup {<<s, 1>> : s \in DOMAIN m.before}}}

-----------------------------------------------------------------------------
(* A table whose columns change, alone or with a table that references it. *)

Shapes ==
    {Table(1 :> x, <<1>>) : x \in {I, B, A}} \cup {Table(2 :> x, <<2>>) : x \in {I, A}}
    \cup {Table((1 :> x) @@ (2 :> y), <<1>>) : x \in {I, A}, y \in {I, N, B}}
    \cup {Table((1 :> I) @@ (2 :> I), <<1, 2>>), Table((1 :> I) @@ (2 :> I), <<2, 1>>),
          Table((1 :> N) @@ (2 :> I), <<2>>), Table((1 :> I) @@ (2 :> A), <<2>>),
          Table((1 :> N) @@ (2 :> B), <<>>)}
WithChild(table) ==
    LET key == table.primary[1]
    IN  (1 :> table) @@
        (2 :> [Table((1 :> I) @@ (2 :> Column(table.columns[key].type, TRUE, FALSE)), <<1>>)
                 EXCEPT !.keys = {ForeignKey(2, <<2>>, 1, table.primary)}])
Parents == {table \in Shapes : Len(table.primary) = 1}
ColumnModels ==
    {[about |-> "columns", before |-> 1 :> x, after |-> t :> y] : t \in {1, 2}, x, y \in Shapes}
    \cup {[about |-> "columns", before |-> WithChild(x), after |-> WithChild(y)] : x, y \in Parents}
\* The table keeps its name or is renamed, its columns are renamed anyhow, and one
\* of them is transformed; a constant cannot fill a key.
Values(m, t) ==
    {<<>>} \cup
    UNION {{<<t, c>> :> v : v \in {<<1, o>> : o \in DOMAIN m.before[1].columns} \cup
                                  (IF c \in ToSet(m.after[t].primary) THEN {} ELSE {Constant})} :
             c \in DOMAIN m.after[t].columns}
ColumnChoices(m) ==
    LET t == IF 1 \in DOMAIN m.after THEN 1 ELSE 2
        tables == IF t = 1 THEN {} ELSE {[from |-> 1, to |-> 2]}
        columns(rs) == {[table |-> t, from |-> r.from, to |-> r.to] : r \in rs}
    IN  UNION {Decide(m, tables, columns(rs), v, <<>>) \cup Decide(m, tables, columns(rs), <<>>, v) :
                 rs \in Renames(DOMAIN m.before[1].columns, DOMAIN m.after[t].columns), v \in Values(m, t)}

AllModels == TableModels \cup ColumnModels
AllChoices(m) == IF m.about = "tables" THEN TableChoices(m) ELSE ColumnChoices(m)
\* Two tables that swap names.
SwapModels == {m \in TableModels : DOMAIN m.before = {1, 2} /\ DOMAIN m.after = {1, 2}}
SwapChoices(m) == {d \in TableChoices(m) : Cardinality(d.tables) = 2}
=============================================================================
