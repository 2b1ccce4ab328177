------------------------- MODULE SchemaScriptProofs -------------------------
(***************************************************************************)
(* Proofs about SchemaScript for any schemas and decisions: what the       *)
(* checks of compare() and generate() guarantee of a script before its     *)
(* first statement is executed, on every backend, and that the scripts for *)
(* SQLite then do it, statement by statement, up and down.  The longer     *)
(* scripts for the other backends are left to TLC.                         *)
(***************************************************************************)
EXTENDS SchemaScript, TLAPS, FiniteSetTheorems, SequenceTheorems

\* The states in which a script has been generated.
Executed == {"running", "done", "rejected"}

\* Renames are one to one: no two tables and no two columns of a table get the
\* same name, and the way from target to source finds the one it came from.
OneToOne(before, d) ==
    \A s \in DOMAIN before :
        LET t == targetTable(s, d)
        IN  /\ sourceTable(t, d) = s /\ matchingSource(before, t, d) = s
            /\ \A r \in DOMAIN before : targetTable(r, d) = t => r = s
            /\ \A o \in DOMAIN before[s].columns :
                LET c == targetColumn(t, o, d)
                IN  /\ sourceColumn(t, c, d) = o /\ matchingSourceColumn(before[s], t, c, d) = o
                    /\ \A q \in DOMAIN before[s].columns : targetColumn(t, q, d) = c => q = o

\* Every column has a column it can go to, of a type that holds its values.
Kept(before, after, d) ==
    \A s \in DOMAIN before :
        LET t == targetTable(s, d)
        IN  /\ t \in DOMAIN after
            /\ \A o \in DOMAIN before[s].columns :
                LET c == targetColumn(t, o, d)
                IN  /\ c \in DOMAIN after[t].columns
                    /\ safeTypeChange(before[s].columns[o], after[t].columns[c])
                    /\ before[s].columns[o].auto = after[t].columns[c].auto

\* Every column of a table that stays has a value where it forbids NULL: from a
\* source column that forbids it, or from a decision.
Supplied(before, after, d) ==
    \A s \in DOMAIN before : targetTable(s, d) \in DOMAIN after =>
        LET t == targetTable(s, d)
        IN  \A c \in DOMAIN after[t].columns : ~after[t].columns[c].null =>
                LET o == matchingSourceColumn(before[s], t, c, d)
                IN  \/ o \in DOMAIN before[s].columns /\ targetColumn(t, o, d) = c
                       /\ (before[s].columns[o].null => Fills(t, c, d) \/ Converts(t, c, d))
                    \/ after[t].columns[c].auto
                    \/ Fills(t, c, d)

\* The decisions for the way down rename everything back.
Undone(before, d) ==
    \A s \in DOMAIN before :
        LET t == targetTable(s, d)
        IN  /\ targetTable(t, inverseDecisions(d)) = s
            /\ \A o \in DOMAIN before[s].columns :
                targetColumn(s, targetColumn(t, o, d), inverseDecisions(d)) = o

-----------------------------------------------------------------------------
(* Lemmas about renames.                                                   *)

\* What the two look-ups of a table find.
LEMMA TableLookup ==
    ASSUME NEW d, NEW t
    PROVE  /\ \/ targetTable(t, d) = t /\ \A r \in d.tables : r.from # t
              \/ \E r \in d.tables : r.from = t /\ r.to = targetTable(t, d)
           /\ \/ sourceTable(t, d) = t /\ \A r \in d.tables : r.to # t
              \/ \E r \in d.tables : r.to = t /\ r.from = sourceTable(t, d)
BY DEF targetTable, sourceTable

\* What the two look-ups of a column find.
LEMMA ColumnLookup ==
    ASSUME NEW d, NEW t, NEW c
    PROVE  /\ \/ targetColumn(t, c, d) = c /\ \A r \in d.columns : ~(r.table = t /\ r.from = c)
              \/ \E r \in d.columns : r.table = t /\ r.from = c /\ r.to = targetColumn(t, c, d)
           /\ \/ sourceColumn(t, c, d) = c /\ \A r \in d.columns : ~(r.table = t /\ r.to = c)
              \/ \E r \in d.columns : r.table = t /\ r.to = c /\ r.from = sourceColumn(t, c, d)
<1>1. \/ targetColumn(t, c, d) = c /\ \A r \in d.columns : ~(r.table = t /\ r.from = c)
      \/ \E r \in d.columns : r.table = t /\ r.from = c /\ r.to = targetColumn(t, c, d)
  <2> DEFINE found == {r \in d.columns : r.table = t /\ r.from = c}
  <2>1. CASE found = {}
    BY <2>1 DEF targetColumn
  <2>2. CASE found # {}
    <3>1. PICK r : r = (CHOOSE x \in found : TRUE) /\ r \in found
      BY <2>2
    <3> QED BY <2>2, <3>1 DEF targetColumn
  <2> QED BY <2>1, <2>2
<1>2. \/ sourceColumn(t, c, d) = c /\ \A r \in d.columns : ~(r.table = t /\ r.to = c)
      \/ \E r \in d.columns : r.table = t /\ r.to = c /\ r.from = sourceColumn(t, c, d)
  <2> DEFINE found == {r \in d.columns : r.table = t /\ r.to = c}
  <2>1. CASE found = {}
    BY <2>1 DEF sourceColumn
  <2>2. CASE found # {}
    <3>1. PICK r : r = (CHOOSE x \in found : TRUE) /\ r \in found
      BY <2>2
    <3> QED BY <2>2, <3>1 DEF sourceColumn
  <2> QED BY <2>1, <2>2
<1> QED BY <1>1, <1>2

\* validateRenames() accepts renames that are one to one and nothing else.
LEMMA RenamesAreOneToOne ==
    ASSUME NEW before, NEW after, NEW d, validateRenames(before, after, d)
    PROVE  OneToOne(before, d)
<1> SUFFICES ASSUME NEW s \in DOMAIN before, NEW t, t = targetTable(s, d)
             PROVE  /\ sourceTable(t, d) = s /\ matchingSource(before, t, d) = s
                    /\ \A r \in DOMAIN before : targetTable(r, d) = t => r = s
                    /\ \A o \in DOMAIN before[s].columns :
                        LET c == targetColumn(t, o, d)
                        IN  /\ sourceColumn(t, c, d) = o /\ matchingSourceColumn(before[s], t, c, d) = o
                            /\ \A q \in DOMAIN before[s].columns : targetColumn(t, q, d) = c => q = o
  BY DEF OneToOne
<1>1. /\ \A r, q \in d.tables : (r.from = q.from \/ r.to = q.to) => r = q
      /\ \A r \in d.tables : r.to \in DOMAIN before => \E q \in d.tables : q.from = r.to
  BY Zenon DEF validateRenames
<1>2. /\ \A r, q \in d.columns : r.table = q.table /\ (r.from = q.from \/ r.to = q.to) => r = q
      /\ \A r \in d.columns : r.to \in DOMAIN before[sourceTable(r.table, d)].columns =>
            \E q \in d.columns : q.table = r.table /\ q.from = r.to
  BY DEF validateRenames
<1>3. sourceTable(t, d) = s
  <2>1. CASE t = s /\ \A r \in d.tables : r.from # s
    BY <1>1, <2>1, TableLookup
  <2>2. CASE \E r \in d.tables : r.from = s /\ r.to = t
    BY <1>1, <2>2, TableLookup
  <2> QED BY <2>1, <2>2, TableLookup
<1>4. matchingSource(before, t, d) = s
  BY <1>3 DEF matchingSource
<1>5. ASSUME NEW r \in DOMAIN before, targetTable(r, d) = t PROVE r = s
  <2>1. CASE t = s /\ \A q \in d.tables : q.from # s
    BY <1>1, <1>5, <2>1, TableLookup
  <2>2. CASE \E q \in d.tables : q.from = s /\ q.to = t
    <3>1. PICK q \in d.tables : q.from = s /\ q.to = t
      BY <2>2
    <3>2. CASE t = r /\ \A x \in d.tables : x.from # r
      BY <1>1, <3>1, <3>2
    <3>3. CASE \E x \in d.tables : x.from = r /\ x.to = t
      BY <1>1, <3>1, <3>3
    <3> QED BY <1>5, <3>2, <3>3, TableLookup
  <2> QED BY <2>1, <2>2, TableLookup
<1>6. ASSUME NEW o \in DOMAIN before[s].columns, NEW c, c = targetColumn(t, o, d)
      PROVE  sourceColumn(t, c, d) = o
  <2>1. CASE c = o /\ \A r \in d.columns : ~(r.table = t /\ r.from = o)
    <3>1. \A r \in d.columns : ~(r.table = t /\ r.to = o)
      BY <1>2, <1>3, <2>1
    <3> QED BY <2>1, <3>1, ColumnLookup
  <2>2. CASE \E r \in d.columns : r.table = t /\ r.from = o /\ r.to = c
    BY <1>2, <2>2, ColumnLookup
  <2> QED BY <1>6, <2>1, <2>2, ColumnLookup
<1>7. \A o \in DOMAIN before[s].columns :
          LET c == targetColumn(t, o, d)
          IN  /\ sourceColumn(t, c, d) = o /\ matchingSourceColumn(before[s], t, c, d) = o
              /\ \A q \in DOMAIN before[s].columns : targetColumn(t, q, d) = c => q = o
  BY <1>6 DEF matchingSourceColumn
<1> QED BY <1>3, <1>4, <1>5, <1>7

\* If both directions pass validateRenames(), the inverse renames are the inverse.
LEMMA InverseUndoes ==
    ASSUME NEW before, NEW after, NEW d, validateRenames(before, after, d),
           validateRenames(after, before, inverseDecisions(d))
    PROVE  Undone(before, d)
<1> DEFINE e == inverseDecisions(d)
<1> SUFFICES ASSUME NEW s \in DOMAIN before, NEW t, t = targetTable(s, d)
             PROVE  /\ targetTable(t, e) = s
                    /\ \A o \in DOMAIN before[s].columns : targetColumn(s, targetColumn(t, o, d), e) = o
  BY DEF Undone
<1>1. /\ e.tables = {[from |-> r.to, to |-> r.from] : r \in d.tables}
      /\ e.columns = {[table |-> sourceTable(r.table, d), from |-> r.to, to |-> r.from] : r \in d.columns}
  BY DEF inverseDecisions
<1>2. /\ \A r \in d.tables : \E x \in e.tables : x.from = r.to /\ x.to = r.from
      /\ \A x \in e.tables : \E r \in d.tables : x.from = r.to /\ x.to = r.from
      /\ \A r \in d.columns : \E x \in e.columns : x.table = sourceTable(r.table, d) /\ x.from = r.to /\ x.to = r.from
      /\ \A x \in e.columns : \E r \in d.columns : x.table = sourceTable(r.table, d) /\ x.from = r.to /\ x.to = r.from
  <2>1. ASSUME NEW r \in d.tables PROVE \E x \in e.tables : x.from = r.to /\ x.to = r.from
    <3>1. [from |-> r.to, to |-> r.from] \in e.tables
      BY <1>1
    <3> QED BY <3>1
  <2>2. ASSUME NEW r \in d.columns
        PROVE  \E x \in e.columns : x.table = sourceTable(r.table, d) /\ x.from = r.to /\ x.to = r.from
    <3>1. [table |-> sourceTable(r.table, d), from |-> r.to, to |-> r.from] \in e.columns
      BY <1>1
    <3> QED BY <3>1
  <2>3. \A x \in e.tables : \E r \in d.tables : x.from = r.to /\ x.to = r.from
    BY <1>1
  <2>4. \A x \in e.columns : \E r \in d.columns : x.table = sourceTable(r.table, d) /\ x.from = r.to /\ x.to = r.from
    BY <1>1
  <2> QED BY <2>1, <2>2, <2>3, <2>4
<1> HIDE DEF e
<1>3. /\ \A r, q \in d.tables : (r.from = q.from \/ r.to = q.to) => r = q
      /\ \A r \in d.tables : r.to \in DOMAIN before => \E q \in d.tables : q.from = r.to
      /\ \A r, q \in d.columns : r.table = q.table /\ (r.from = q.from \/ r.to = q.to) => r = q
      /\ \A r \in d.columns : /\ r.table \in DOMAIN after
                              /\ r.to \in DOMAIN before[sourceTable(r.table, d)].columns =>
                                    \E q \in d.columns : q.table = r.table /\ q.from = r.to
  BY DEF validateRenames
<1>4. \A x \in e.tables : x.to \in DOMAIN after => \E y \in e.tables : y.from = x.to
  BY DEF validateRenames, e
<1>5. sourceTable(t, d) = s
  BY RenamesAreOneToOne DEF OneToOne
<1>6. targetTable(t, e) = s
  <2>1. CASE t = s /\ \A r \in d.tables : r.from # s
    <3>1. \A r \in d.tables : r.to # s
      BY <1>3, <2>1
    <3> QED BY <1>2, <2>1, <3>1, TableLookup
  <2>2. CASE \E r \in d.tables : r.from = s /\ r.to = t
    BY <1>2, <1>3, <2>2, TableLookup
  <2> QED BY <2>1, <2>2, TableLookup
\* A renamed column belongs to the table that comes from s: no new table has the
\* name of one that was renamed, since the way down could not give it back.
<1>7. ASSUME NEW r \in d.columns, sourceTable(r.table, d) = s PROVE r.table = t
  <2>1. CASE r.table = s /\ \A q \in d.tables : q.to # s
    <3>1. \A q \in d.tables : q.from # s
      <4>1. ASSUME NEW q \in d.tables, q.from = s PROVE FALSE
        <5>1. PICK x \in e.tables : x.to = s
          BY <1>2, <4>1
        <5>2. s \in DOMAIN after
          BY <1>3, <2>1
        <5>3. PICK y \in e.tables : y.from = s
          BY <1>4, <5>1, <5>2
        <5> QED BY <1>2, <2>1, <5>3
      <4> QED BY <4>1
    <3> QED BY <2>1, <3>1, TableLookup
  <2>2. CASE \E q \in d.tables : q.to = r.table /\ q.from = s
    BY <1>3, <2>2, TableLookup
  <2> QED BY <1>7, <2>1, <2>2, TableLookup
<1>8. ASSUME NEW o \in DOMAIN before[s].columns, NEW c, c = targetColumn(t, o, d)
      PROVE  targetColumn(s, c, e) = o
  <2>1. CASE c = o /\ \A r \in d.columns : ~(r.table = t /\ r.from = o)
    <3>1. \A r \in d.columns : ~(r.table = t /\ r.to = o)
      BY <1>3, <1>5, <2>1
    <3>2. \A x \in e.columns : ~(x.table = s /\ x.from = o)
      BY <1>2, <1>7, <3>1
    <3> QED BY <2>1, <3>2, ColumnLookup
  <2>2. CASE \E r \in d.columns : r.table = t /\ r.from = o /\ r.to = c
    <3>1. PICK r \in d.columns : r.table = t /\ r.from = o /\ r.to = c
      BY <2>2
    <3>2. \E x \in e.columns : x.table = s /\ x.from = c
      BY <1>2, <1>5, <3>1
    <3>3. PICK x \in e.columns : x.table = s /\ x.from = c /\ x.to = targetColumn(s, c, e)
      BY <3>2, ColumnLookup
    <3>4. PICK q \in d.columns : x.table = sourceTable(q.table, d) /\ x.from = q.to /\ x.to = q.from
      BY <1>2
    <3>5. q.table = t
      BY <1>7, <3>3, <3>4
    <3>6. q = r
      BY <1>3, <3>1, <3>3, <3>4, <3>5, ZenonT(40)
    <3> QED BY <3>1, <3>3, <3>4, <3>6
  <2> QED BY <1>8, <2>1, <2>2, ColumnLookup
<1> QED BY <1>6, <1>8

-----------------------------------------------------------------------------
(* Lemmas about compare().                                                 *)

\* compare() leaves nothing out: a table or a column that goes, and a column that
\* changes or is new, is a change.
LEMMA CompareIsComplete ==
    ASSUME NEW before, NEW after, NEW d, NEW s \in DOMAIN before, NEW t, t = targetTable(s, d)
    PROVE  /\ t \notin DOMAIN after => Change("drop-table", s, 0, TRUE, FALSE) \in compare(before, after, d)
           /\ t \in DOMAIN after =>
                /\ \A o \in DOMAIN before[s].columns :
                    LET c == targetColumn(t, o, d)
                        a == before[s].columns[o]
                        b == after[t].columns[c]
                    IN  /\ c \notin DOMAIN after[t].columns =>
                              Change("drop-column", t, o, TRUE, FALSE) \in compare(before, after, d)
                        /\ c \in DOMAIN after[t].columns /\ a # b =>
                              AlterColumn(t, c, a, b, d) \in compare(before, after, d)
                /\ \A c \in DOMAIN after[t].columns :
                    (\A o \in DOMAIN before[s].columns : targetColumn(t, o, d) # c) =>
                        Change("add-column", t, c, FALSE,
                               /\ ~after[t].columns[c].null /\ ~after[t].columns[c].auto
                               /\ <<t, c>> \notin DOMAIN d.backfills) \in compare(before, after, d)
<1>1. ASSUME t \notin DOMAIN after
      PROVE  Change("drop-table", s, 0, TRUE, FALSE) \in compare(before, after, d)
  <2> DEFINE kept == {r \in DOMAIN before : targetTable(r, d) \in DOMAIN after}
             gone == {Change("drop-table", r, 0, TRUE, FALSE) : r \in DOMAIN before \ kept}
  <2>1. s \in DOMAIN before \ kept
    BY <1>1
  <2>2. Change("drop-table", s, 0, TRUE, FALSE) \in gone
    BY <2>1, Zenon
  <2>3. gone \subseteq compare(before, after, d)
    BY Zenon DEF compare
  <2> QED BY <2>2, <2>3, Zenon
<1>2. ASSUME t \in DOMAIN after, NEW x \in compareTables(s, before[s], t, after[t], d)
      PROVE  x \in compare(before, after, d)
  BY <1>2, Zenon DEF compare
<1>3. ASSUME t \in DOMAIN after, NEW o \in DOMAIN before[s].columns,
             targetColumn(t, o, d) \notin DOMAIN after[t].columns
      PROVE  Change("drop-column", t, o, TRUE, FALSE) \in compare(before, after, d)
  <2>1. Change("drop-column", t, o, TRUE, FALSE) \in compareTables(s, before[s], t, after[t], d)
    BY <1>3, Zenon DEF compareTables
  <2> QED BY <1>2, <1>3, <2>1
<1>4. ASSUME t \in DOMAIN after, NEW o \in DOMAIN before[s].columns, NEW c, c = targetColumn(t, o, d),
             c \in DOMAIN after[t].columns, before[s].columns[o] # after[t].columns[c]
      PROVE  AlterColumn(t, c, before[s].columns[o], after[t].columns[c], d) \in compare(before, after, d)
  <2>1. AlterColumn(t, c, before[s].columns[o], after[t].columns[c], d)
            \in compareTables(s, before[s], t, after[t], d)
    BY <1>4, Zenon DEF compareTables
  <2> QED BY <1>2, <1>4, <2>1
<1>5. ASSUME t \in DOMAIN after, NEW c \in DOMAIN after[t].columns,
             \A o \in DOMAIN before[s].columns : targetColumn(t, o, d) # c
      PROVE  Change("add-column", t, c, FALSE,
                    /\ ~after[t].columns[c].null /\ ~after[t].columns[c].auto
                    /\ <<t, c>> \notin DOMAIN d.backfills) \in compare(before, after, d)
  <2>1. Change("add-column", t, c, FALSE,
               /\ ~after[t].columns[c].null /\ ~after[t].columns[c].auto
               /\ <<t, c>> \notin DOMAIN d.backfills) \in compareTables(s, before[s], t, after[t], d)
    BY <1>5, ZenonT(40) DEF compareTables
  <2> QED BY <1>2, <1>5, <2>1
<1> QED BY <1>1, <1>3, <1>4, <1>5

\* Without an approval nothing that resolved() lets pass loses a table, a column or
\* the range of a type.
LEMMA UnapprovedIsKept ==
    ASSUME NEW before, NEW after, NEW d, resolved(before, after, d), ~d.approved
    PROVE  Kept(before, after, d)
<1>1. \A x \in compare(before, after, d) : ~x.loss
  BY DEF resolved
<1> SUFFICES ASSUME NEW s \in DOMAIN before, NEW t, t = targetTable(s, d)
             PROVE  /\ t \in DOMAIN after
                    /\ \A o \in DOMAIN before[s].columns :
                        LET c == targetColumn(t, o, d)
                        IN  /\ c \in DOMAIN after[t].columns
                            /\ safeTypeChange(before[s].columns[o], after[t].columns[c])
                            /\ before[s].columns[o].auto = after[t].columns[c].auto
  BY DEF Kept
<1>2. t \in DOMAIN after
  <2>1. Change("drop-table", s, 0, TRUE, FALSE).loss = TRUE
    BY DEF Change
  <2> QED BY <1>1, <2>1, CompareIsComplete
<1>3. ASSUME NEW o \in DOMAIN before[s].columns, NEW c, c = targetColumn(t, o, d)
      PROVE  /\ c \in DOMAIN after[t].columns
             /\ safeTypeChange(before[s].columns[o], after[t].columns[c])
             /\ before[s].columns[o].auto = after[t].columns[c].auto
  <2> DEFINE a == before[s].columns[o]
             b == after[t].columns[c]
  <2>1. c \in DOMAIN after[t].columns
    <3>1. Change("drop-column", t, o, TRUE, FALSE).loss = TRUE
      BY DEF Change
    <3> QED BY <1>1, <1>2, <1>3, <3>1, CompareIsComplete
  <2>2. CASE a = b
    BY <2>1, <2>2 DEF safeTypeChange
  <2>3. CASE a # b
    <3>1. AlterColumn(t, c, a, b, d) \in compare(before, after, d)
      BY <1>2, <1>3, <2>1, <2>3, CompareIsComplete
    <3>2. AlterColumn(t, c, a, b, d).loss <=> (~safeTypeChange(a, b) \/ a.auto # b.auto)
      BY DEF AlterColumn, Change
    <3> QED BY <1>1, <2>1, <3>1, <3>2
  <2> QED BY <2>2, <2>3
<1> QED BY <1>2, <1>3

\* Where NULL is forbidden, resolved() makes sure that there is a value.
LEMMA ResolvedIsSupplied ==
    ASSUME NEW before, NEW after, NEW d, resolved(before, after, d)
    PROVE  Supplied(before, after, d)
<1>1. (\A x \in compare(before, after, d) : ~x.needs) /\ OneToOne(before, d)
  BY RenamesAreOneToOne DEF resolved
<1> SUFFICES ASSUME NEW s \in DOMAIN before, NEW t, t = targetTable(s, d), t \in DOMAIN after,
                    NEW c \in DOMAIN after[t].columns, ~after[t].columns[c].null
             PROVE  LET o == matchingSourceColumn(before[s], t, c, d)
                    IN  \/ o \in DOMAIN before[s].columns /\ targetColumn(t, o, d) = c
                           /\ (before[s].columns[o].null => Fills(t, c, d) \/ Converts(t, c, d))
                        \/ after[t].columns[c].auto
                        \/ Fills(t, c, d)
  BY DEF Supplied
<1>2. CASE \A o \in DOMAIN before[s].columns : targetColumn(t, o, d) # c
  <2> DEFINE needs == /\ ~after[t].columns[c].null /\ ~after[t].columns[c].auto
                      /\ <<t, c>> \notin DOMAIN d.backfills
  <2>1. Change("add-column", t, c, FALSE, needs) \in compare(before, after, d)
    BY <1>2, CompareIsComplete
  <2>2. Change("add-column", t, c, FALSE, needs).needs <=> needs
    BY DEF Change
  <2> QED BY <1>1, <2>1, <2>2 DEF Fills
<1>3. ASSUME NEW o \in DOMAIN before[s].columns, targetColumn(t, o, d) = c
      PROVE  /\ matchingSourceColumn(before[s], t, c, d) = o
             /\ before[s].columns[o].null => Fills(t, c, d) \/ Converts(t, c, d)
  <2> DEFINE a == before[s].columns[o]
             b == after[t].columns[c]
  <2>1. matchingSourceColumn(before[s], t, c, d) = o
    BY <1>1, <1>3 DEF OneToOne
  <2>2. ASSUME a.null PROVE Fills(t, c, d) \/ Converts(t, c, d)
    <3>1. AlterColumn(t, c, a, b, d) \in compare(before, after, d)
      BY <1>3, <2>2, CompareIsComplete
    <3>2. a.null /\ ~b.null /\ <<t, c>> \notin DOMAIN d.backfills \cup DOMAIN d.conversions
              => AlterColumn(t, c, a, b, d).needs
      BY DEF AlterColumn, Change
    <3> QED BY <1>1, <2>2, <3>1, <3>2 DEF Fills, Converts
  <2> QED BY <2>1, <2>2
<1> QED BY <1>2, <1>3

-----------------------------------------------------------------------------
(* The scripts that are executed.                                          *)

\* A script is executed only if its decisions are resolved, and the way down only
\* if those of the way up were.
Decided ==
    /\ direction \in {"up", "down"}
    /\ phase \in Executed => resolved(Source, Target, Decisions)
    /\ direction = "down" => /\ phase \in Executed
                             /\ resolved(Target, Source, input.decisions)

\* The invariant of generate() and of whoever executes its scripts.
THEOREM ScriptsAreDecided == Spec => []Decided
<1>1. Init => Decided
  BY DEF Init, Decided, Executed
<1>2. Decided /\ [Next]_vars => Decided'
  <2> SUFFICES ASSUME Decided, [Next]_vars PROVE Decided'
    OBVIOUS
  <2>1. ASSUME input' = input, direction' = direction
        PROVE  Source' = Source /\ Target' = Target /\ Decisions' = Decisions
    BY <2>1 DEF Source, Target, Decisions
  <2>2. CASE Generate
    <3>1. input' = input /\ direction' = direction /\ phase = "model"
      BY <2>2 DEF Generate
    <3>2. phase' \in Executed => resolved(Source, Target, Decisions)
      BY <2>2 DEF Generate, generate, Executed
    <3>3. direction = "up"
      BY <3>1 DEF Decided, Executed
    <3> QED BY <2>1, <3>1, <3>2, <3>3 DEF Decided
  <2>3. CASE Execute
    BY <2>1, <2>3 DEF Execute, Decided
  <2>4. CASE Reject
    BY <2>1, <2>4 DEF Reject, Decided, Executed
  <2>5. CASE Finish
    BY <2>1, <2>5 DEF Finish, Decided, Executed
  <2>6. CASE Undo
    <3>1. direction = "up" /\ direction' = "down" /\ input' = input /\ phase = "done" /\ phase' = "running"
      BY <2>6 DEF Undo
    <3>2. Source' = Target /\ Target' = Source /\ Decisions = input.decisions
          /\ Decisions' = inverseDecisions(input.decisions)
      BY <3>1 DEF Source, Target, Decisions
    <3>3. resolved(Source, Target, Decisions)
      BY <3>1 DEF Decided, Executed
    <3>4. resolved(Target, Source, inverseDecisions(Decisions))
      BY <2>6 DEF Undo, reverseReady
    <3> QED BY <3>1, <3>2, <3>3, <3>4 DEF Decided, Executed
  <2>7. CASE UNCHANGED vars
    BY <2>1, <2>7 DEF vars, Decided
  <2> QED BY <2>2, <2>3, <2>4, <2>5, <2>6, <2>7 DEF Next
<1> QED BY <1>1, <1>2, PTL DEF Spec

\* The renames of a script that is executed, up or down, are one to one
\* (validateRenames()): no two columns are ever copied into one, and matchingSource()
\* and matchingSourceColumn() of SchemaGeneration.cpp find what compare() mapped.
THEOREM NothingIsMerged == Spec => [](phase \in Executed => OneToOne(Source, Decisions))
<1>1. Decided => (phase \in Executed => OneToOne(Source, Decisions))
  BY RenamesAreOneToOne DEF Decided, resolved
<1> QED BY <1>1, ScriptsAreDecided, PTL

\* A script without an approval of data loss has a column to go to for every column
\* there is, of a type that holds its values (SchemaChange::dataLoss of compare()).
THEOREM UnapprovedScriptsKeep ==
    Spec => [](phase \in Executed /\ ~Decisions.approved => Kept(Source, Target, Decisions))
<1>1. Decided => (phase \in Executed /\ ~Decisions.approved => Kept(Source, Target, Decisions))
  BY UnapprovedIsKept DEF Decided
<1> QED BY <1>1, ScriptsAreDecided, PTL

\* A script that forbids NULL in a column has a value for it: a source column that
\* forbids NULL, an identity, a backfill or a conversion (SchemaChange::unresolved).
THEOREM ForbiddenNullsAreSupplied == Spec => [](phase \in Executed => Supplied(Source, Target, Decisions))
<1>1. Decided => (phase \in Executed => Supplied(Source, Target, Decisions))
  BY ResolvedIsSupplied DEF Decided
<1> QED BY <1>1, ScriptsAreDecided, PTL

\* The way down, if there is one, gives every table and every column its old name
\* back: inverseDecisions() inverts what both directions of compare() accept.
THEOREM WayDownUndoesRenames == Spec => [](direction = "down" => Undone(Target, input.decisions))
<1>1. Decided => (direction = "down" => Undone(Target, input.decisions))
  <2> SUFFICES ASSUME Decided, direction = "down" PROVE Undone(Target, input.decisions)
    OBVIOUS
  <2>1. Decisions = inverseDecisions(input.decisions)
    BY DEF Decisions
  <2>2. resolved(Target, Source, input.decisions) /\ resolved(Source, Target, Decisions)
    BY DEF Decided
  <2> QED BY <2>1, <2>2, InverseUndoes DEF resolved
<1> QED BY <1>1, ScriptsAreDecided, PTL

-----------------------------------------------------------------------------
(* Finite sets of names and sequences.                                     *)

\* Induction over the natural numbers, for a set of them.
LEMMA NatSetInduction ==
    ASSUME NEW X, 0 \in X, \A n \in Nat : n \in X => n + 1 \in X
    PROVE  \A n \in Nat : n \in X
<1> DEFINE Y == {n \in Nat : n \notin X}
<1> SUFFICES ASSUME Y # {} PROVE FALSE
  OBVIOUS
<1>1. Y \subseteq Nat
  OBVIOUS
<1>2. PICK x \in Y : \A y \in Y : ~(<<y, x>> \in OpToRel(<, Nat))
  BY <1>1, WFMin, NatLessThanWellFounded
<1>3. \A y \in Y : ~(y < x)
  BY <1>1, <1>2, Zenon DEF OpToRel
<1>4. x \in Nat /\ x \notin X /\ \A y \in Nat : y < x => y \in X
  BY <1>2, <1>3
<1> HIDE DEF Y
<1>5. x # 0
  BY <1>4
<1>6. x - 1 \in Nat /\ x - 1 < x /\ (x - 1) + 1 = x
  BY <1>4, <1>5
<1> QED BY <1>4, <1>6

\* Names are numbers.
LEMMA NamesAreNumbers == Names \subseteq Nat /\ 0 \notin Names
BY MaxNameAssumption DEF Names

\* So are those of a set.
LEMMA SomeNames == ASSUME NEW S \in SUBSET Names, NEW x \in S PROVE x \in Nat /\ x \in Int /\ x # 0 /\ x =< MaxName
<1>1. x \in Names
  BY Zenon
<1> QED BY <1>1, MaxNameAssumption DEF Names

\* A set of names has a greatest one.
LEMMA GreatestName ==
    ASSUME NEW S \in SUBSET Names, S # {}
    PROVE  \E m \in S : \A x \in S : x =< m
<1> DEFINE Y == {n \in Nat : \E x \in S : n = MaxName - x}
<1>0. PICK z \in S : TRUE
  OBVIOUS
<1>1. Y \subseteq Nat /\ Y # {}
  <2>1. MaxName - z \in Y
    BY <1>0, MaxNameAssumption DEF Names
  <2> QED BY <2>1
<1>2. PICK n \in Y : \A y \in Y : ~(<<y, n>> \in OpToRel(<, Nat))
  BY <1>1, WFMin, NatLessThanWellFounded
<1>3. \A y \in Y : ~(y < n)
  BY <1>1, <1>2, Zenon DEF OpToRel
<1>4. PICK m \in S : n = MaxName - m
  BY <1>2
<1>5. ASSUME NEW x \in S PROVE x =< m
  <2>1. MaxName - x \in Y
    BY MaxNameAssumption DEF Names
  <2> QED BY <1>3, <1>4, <2>1, MaxNameAssumption DEF Names
<1> QED BY <1>5

\* An enumeration of a set in ascending order.
Ascending(S) == {s \in [1..Cardinality(S) -> S] : \A i, j \in DOMAIN s : i < j => s[i] < s[j]}

\* Sets of names are finite.
LEMMA NamesAreFinite ==
    \A S \in SUBSET Names : IsFiniteSet(S) /\ Cardinality(S) \in Nat
<1>1. IsFiniteSet(1..MaxName)
  <2>1. 1 \in Int /\ MaxName \in Int
    BY MaxNameAssumption
  <2> QED BY <2>1, FS_Interval, Zenon
<1>2. ASSUME NEW S \in SUBSET Names PROVE IsFiniteSet(S)
  BY <1>1, FS_Subset, Zenon DEF Names
<1> QED BY <1>2, FS_CardinalityType, Zenon

\* Names can be sorted.
LEMMA NamesCanBeSorted ==
    ASSUME NEW T \in SUBSET Names
    PROVE  Ascending(T) # {}
<1> DEFINE X == {n \in Nat : \A S \in SUBSET Names : Cardinality(S) = n => Ascending(S) # {}}
<1>0. \A S \in SUBSET Names : IsFiniteSet(S) /\ Cardinality(S) \in Nat
  BY NamesAreFinite
<1>1. 0 \in X
  <2> SUFFICES ASSUME NEW S \in SUBSET Names, Cardinality(S) = 0 PROVE Ascending(S) # {}
    OBVIOUS
  <2>1. S = {}
    BY <1>0, FS_EmptySet
  <2> DEFINE s == [i \in 1..0 |-> 0]
  <2>2. s \in [1..Cardinality(S) -> S]
    BY <2>1
  <2>3. \A i, j \in DOMAIN s : i < j => s[i] < s[j]
    OBVIOUS
  <2> QED BY <2>2, <2>3 DEF Ascending
<1>2. ASSUME NEW n \in Nat, n \in X PROVE n + 1 \in X
  <2> SUFFICES ASSUME NEW S \in SUBSET Names, Cardinality(S) = n + 1 PROVE Ascending(S) # {}
    OBVIOUS
  <2>1. S # {}
    BY <1>0, FS_EmptySet
  <2>2. PICK m \in S : \A x \in S : x =< m
    BY <2>1, GreatestName
  <2>3. S \ {m} \in SUBSET Names /\ Cardinality(S \ {m}) = n
    <3>1. Cardinality(S \ {m}) = Cardinality(S) - 1
      BY <1>0, <2>2, FS_RemoveElement, Zenon
    <3> QED BY <3>1
  <2>4. PICK r \in Ascending(S \ {m}) : TRUE
    BY <1>2, <2>3
  <2>5. r \in [1..n -> S \ {m}] /\ \A i, j \in 1..n : i < j => r[i] < r[j]
    BY <2>3, <2>4 DEF Ascending
  <2> DEFINE s == [i \in 1..(n + 1) |-> IF i = n + 1 THEN m ELSE r[i]]
  <2>6. s \in [1..(n + 1) -> S]
    BY <2>5
  <2>7. ASSUME NEW i \in 1..(n + 1), NEW j \in 1..(n + 1), i < j PROVE s[i] < s[j]
    <3>0. i \in 1..n
      BY <2>7
    <3>1. r[i] \in S /\ r[i] # m /\ r[i] =< m
      BY <2>2, <2>5, <3>0
    <3>2. r[i] \in Int /\ m \in Int
      BY <3>1, SomeNames
    <3>3. r[i] < m
      BY <3>1, <3>2
    <3> QED BY <2>5, <2>7, <3>0, <3>3
  <2> HIDE DEF s
  <2>8. s \in Ascending(S)
    BY <2>6, <2>7 DEF Ascending
  <2> QED BY <2>8
<1> HIDE DEF X
<1>3. \A n \in Nat : n \in X
  BY <1>1, <1>2, NatSetInduction
<1> QED BY <1>0, <1>3 DEF X

\* Sorted() enumerates a set of names, each once.
LEMMA SortedEnumerates ==
    ASSUME NEW S \in SUBSET Names
    PROVE  /\ Cardinality(S) \in Nat
           /\ Sorted(S) \in [1..Cardinality(S) -> S]
           /\ \A i, j \in 1..Cardinality(S) : Sorted(S)[i] = Sorted(S)[j] => i = j
           /\ \A x \in S : \E i \in 1..Cardinality(S) : Sorted(S)[i] = x
<1> DEFINE n == Cardinality(S)
           s == Sorted(S)
<1>0. IsFiniteSet(S) /\ n \in Nat
  BY NamesAreFinite
<1>1. s \in [1..n -> S] /\ \A i, j \in DOMAIN s : i < j => s[i] < s[j]
  BY NamesCanBeSorted, Zenon DEF Ascending, Sorted
<1> HIDE DEF s, n
<1>2. ASSUME NEW i \in 1..n, NEW j \in 1..n, s[i] = s[j] PROVE i = j
  <2>1. s[i] \in Int /\ s[j] \in Int
    <3>1. s[i] \in S /\ s[j] \in S
      BY <1>1
    <3> QED BY <3>1, SomeNames
  <2>2. DOMAIN s = 1..n
    BY <1>1
  <2>3. (i < j => s[i] < s[j]) /\ (j < i => s[j] < s[i])
    BY <1>1, <2>2
  <2> QED BY <1>0, <1>2, <2>1, <2>3
<1>3. s \in Injection(1..n, S)
  BY <1>1, <1>2 DEF Injection, IsInjective
<1>4. Cardinality(1..n) = n
  BY <1>0, FS_Interval
<1>5. s \in Surjection(1..n, S)
  BY <1>0, <1>3, <1>4, FS_Injection DEF n
<1> QED BY <1>0, <1>1, <1>2, <1>5 DEF Surjection, s, n

\* A function on 1..n is a sequence of length n.
LEMMA FunctionIsSequence ==
    ASSUME NEW T, NEW n \in Nat, NEW f \in [1..n -> T]
    PROVE  f \in Seq(T) /\ Len(f) = n /\ DOMAIN f = 1..n
<1>1. f \in Seq(T)
  BY SeqDef
<1>2. DOMAIN f = 1..n /\ DOMAIN f = 1..Len(f) /\ Len(f) \in Nat
  BY <1>1, LenProperties
<1>3. Len(f) = n
  BY <1>2
<1> QED BY <1>1, <1>2, <1>3

\* The prefixes FlattenSeq() concatenates.
Flattening(seqs, n, f) == f = [i \in 1..n |-> IF i = 1 THEN seqs[i] ELSE f[i - 1] \o seqs[i]]

\* FlattenSeq() is the last of them.
LEMMA FlatteningExists ==
    ASSUME NEW seqs, NEW n \in Nat, Len(seqs) = n, n # 0
    PROVE  \E f : Flattening(seqs, n, f) /\ FlattenSeq(seqs) = f[n]
<1> DEFINE X == {m \in Nat : \E f : Flattening(seqs, m, f)}
<1>1. 0 \in X
  <2> DEFINE f == [i \in 1..0 |-> 0]
  <2>1. Flattening(seqs, 0, f)
    BY DEF Flattening
  <2> QED BY <2>1
<1>2. ASSUME NEW m \in Nat, m \in X PROVE m + 1 \in X
  <2>1. PICK f : Flattening(seqs, m, f)
    BY <1>2
  <2>2. \A i \in 1..m : f[i] = IF i = 1 THEN seqs[i] ELSE f[i - 1] \o seqs[i]
    BY <2>1, Zenon DEF Flattening
  <2> DEFINE g == [i \in 1..(m + 1) |->
                    IF i = m + 1 THEN IF i = 1 THEN seqs[i] ELSE f[i - 1] \o seqs[i] ELSE f[i]]
  <2>3. ASSUME NEW i \in 1..(m + 1)
        PROVE  g[i] = IF i = 1 THEN seqs[i] ELSE g[i - 1] \o seqs[i]
    <3>1. i # 1 => i - 1 \in 1..m /\ g[i - 1] = f[i - 1]
      OBVIOUS
    <3>2. i # m + 1 => i \in 1..m
      OBVIOUS
    <3>3. g[i] = IF i = m + 1 THEN IF i = 1 THEN seqs[i] ELSE f[i - 1] \o seqs[i] ELSE f[i]
      OBVIOUS
    <3> HIDE DEF g
    <3>4. f[i - 1] \o seqs[i] = f[i - 1] \o seqs[i]
      OBVIOUS
    <3> QED BY <2>2, <3>1, <3>2, <3>3, Zenon
  <2>4. g = [i \in 1..(m + 1) |-> g[i]]
    OBVIOUS
  <2> HIDE DEF g
  <2>5. Flattening(seqs, m + 1, g)
    BY <2>3, <2>4, Zenon DEF Flattening
  <2> QED BY <2>5
<1> HIDE DEF X
<1>3. n \in X
  BY <1>1, <1>2, NatSetInduction
<1>4. \E f : Flattening(seqs, n, f)
  BY <1>3 DEF X
<1>5. FlattenSeq(seqs) = (CHOOSE f : Flattening(seqs, n, f))[n]
  BY Zenon DEF FlattenSeq, Flattening
<1>6. Flattening(seqs, n, CHOOSE f : Flattening(seqs, n, f))
  BY <1>4, Zenon
<1> QED BY <1>5, <1>6

\* One statement for each.
LEMMA FlattenOnes ==
    ASSUME NEW T, NEW n \in Nat, NEW e \in [1..n -> T], NEW seqs \in [1..n -> Seq(T)],
           \A i \in 1..n : seqs[i] = <<e[i]>>
    PROVE  FlattenSeq(seqs) = e
<1>0. seqs \in [1..n -> Seq(T)] /\ \A i \in 1..n : seqs[i] = <<e[i]>> /\ <<e[i]>> \in Seq(T)
  OBVIOUS
<1>1. Len(seqs) = n
  BY <1>0, FunctionIsSequence
<1>2. CASE n = 0
  <2>1. FlattenSeq(seqs) = seqs
    BY <1>1, <1>2 DEF FlattenSeq
  <2> QED BY <1>2, <2>1
<1>3. CASE n # 0
  <2>1. PICK f : Flattening(seqs, n, f) /\ FlattenSeq(seqs) = f[n]
    BY <1>1, <1>3, FlatteningExists
  <2>2. \A i \in 1..n : f[i] = IF i = 1 THEN seqs[i] ELSE f[i - 1] \o seqs[i]
    BY <2>1, Zenon DEF Flattening
  <2> DEFINE X == {m \in Nat : m \in 1..n => f[m] \in Seq(T) /\ Len(f[m]) = m /\ \A i \in 1..m : f[m][i] = e[i]}
  <2>3. 0 \in X
    OBVIOUS
  <2>4. ASSUME NEW m \in Nat, m \in X PROVE m + 1 \in X
    <3> SUFFICES ASSUME m + 1 \in 1..n
                 PROVE  f[m + 1] \in Seq(T) /\ Len(f[m + 1]) = m + 1 /\ \A i \in 1..(m + 1) : f[m + 1][i] = e[i]
      OBVIOUS
    <3>1. CASE m = 0
      <4>1. f[1] = seqs[1] /\ seqs[1] = <<e[1]>> /\ <<e[1]>> \in Seq(T)
        BY <1>0, <2>2, <3>1
      <4>2. f[1] \in Seq(T) /\ Len(f[1]) = 1 /\ f[1][1] = e[1]
        BY <4>1
      <4>3. m + 1 = 1 /\ \A i \in 1..1 : i = 1
        BY <3>1
      <4> QED BY <4>2, <4>3
    <3>2. CASE m # 0
      <4>0. m + 1 # 1 /\ (m + 1) - 1 = m
        BY <3>2
      <4>1. f[m + 1] = f[m] \o <<e[m + 1]>> /\ <<e[m + 1]>> \in Seq(T)
        BY <1>0, <2>2, <4>0
      <4>2. f[m] \in Seq(T) /\ Len(f[m]) = m /\ \A i \in 1..m : f[m][i] = e[i]
        BY <2>4, <3>2
      <4> QED BY <4>1, <4>2
    <3> QED BY <3>1, <3>2
  <2> HIDE DEF X
  <2>5. n \in X
    BY <2>3, <2>4, NatSetInduction
  <2>6. f[n] \in Seq(T) /\ Len(f[n]) = n /\ \A i \in 1..n : f[n][i] = e[i]
    BY <1>3, <2>5 DEF X
  <2>7. e \in Seq(T) /\ Len(e) = n
    BY FunctionIsSequence
  <2> QED BY <2>1, <2>6, <2>7, SeqEqual
<1> QED BY <1>2, <1>3

\* Two statements for each.
Twos(T, n, e, g, seqs) ==
    /\ n \in Nat /\ e \in [1..n -> T] /\ g \in [1..n -> T] /\ seqs \in [1..n -> Seq(T)]
    /\ \A i \in 1..n : seqs[i] = <<e[i], g[i]>>
Interleaves(T, n, e, g, q) ==
    /\ q \in Seq(T) /\ Len(q) = 2 * n
    /\ \A i \in 1..n : q[2 * i - 1] = e[i] /\ q[2 * i] = g[i]

\* FlattenSeq() interleaves them.
LEMMA FlattenTwos ==
    ASSUME NEW T, NEW n, NEW e, NEW g, NEW seqs, Twos(T, n, e, g, seqs)
    PROVE  Interleaves(T, n, e, g, FlattenSeq(seqs))
<1> SUFFICES ASSUME n \in Nat, e \in [1..n -> T], g \in [1..n -> T], seqs \in [1..n -> Seq(T)],
                    \A i \in 1..n : seqs[i] = <<e[i], g[i]>>
             PROVE  /\ FlattenSeq(seqs) \in Seq(T) /\ Len(FlattenSeq(seqs)) = 2 * n
                    /\ \A i \in 1..n : FlattenSeq(seqs)[2 * i - 1] = e[i] /\ FlattenSeq(seqs)[2 * i] = g[i]
  BY DEF Twos, Interleaves
<1>0. seqs \in [1..n -> Seq(T)] /\ \A i \in 1..n : seqs[i] = <<e[i], g[i]>> /\ <<e[i], g[i]>> \in Seq(T)
  OBVIOUS
<1>1. Len(seqs) = n /\ seqs \in Seq(Seq(T))
  BY <1>0, FunctionIsSequence
<1>2. CASE n = 0
  <2>1. FlattenSeq(seqs) = seqs
    BY <1>1, <1>2 DEF FlattenSeq
  <2>2. seqs = <<>>
    BY <1>1, <1>2
  <2>3. <<>> \in Seq(T) /\ Len(<<>>) = 2 * n /\ 1..n = {}
    BY <1>2
  <2> QED BY <2>1, <2>2, <2>3
<1>3. CASE n # 0
  <2>1. PICK f : Flattening(seqs, n, f) /\ FlattenSeq(seqs) = f[n]
    BY <1>1, <1>3, FlatteningExists
  <2>2. \A i \in 1..n : f[i] = IF i = 1 THEN seqs[i] ELSE f[i - 1] \o seqs[i]
    BY <2>1, Zenon DEF Flattening
  <2> DEFINE X == {m \in Nat : m \in 1..n =>
                    /\ f[m] \in Seq(T) /\ Len(f[m]) = 2 * m
                    /\ \A i \in 1..m : f[m][2 * i - 1] = e[i] /\ f[m][2 * i] = g[i]}
  <2>3. 0 \in X
    OBVIOUS
  <2>4. ASSUME NEW m \in Nat, m \in X PROVE m + 1 \in X
    <3> SUFFICES ASSUME m + 1 \in 1..n
                 PROVE  /\ f[m + 1] \in Seq(T) /\ Len(f[m + 1]) = 2 * (m + 1)
                        /\ \A i \in 1..(m + 1) : f[m + 1][2 * i - 1] = e[i] /\ f[m + 1][2 * i] = g[i]
      OBVIOUS
    <3>1. CASE m = 0
      <4>1. f[1] = seqs[1] /\ seqs[1] = <<e[1], g[1]>> /\ <<e[1], g[1]>> \in Seq(T)
        BY <1>0, <2>2, <3>1
      <4>2. f[1] \in Seq(T) /\ Len(f[1]) = 2 /\ f[1][1] = e[1] /\ f[1][2] = g[1]
        BY <4>1
      <4>3. m + 1 = 1 /\ 2 * (m + 1) = 2 /\ \A i \in 1..(m + 1) : i = 1 /\ 2 * i = 2 /\ 2 * i - 1 = 1
        BY <3>1
      <4> QED BY <4>2, <4>3
    <3>2. CASE m # 0
      <4>0. m + 1 # 1 /\ (m + 1) - 1 = m
        BY <3>2
      <4>1. f[m + 1] = f[m] \o <<e[m + 1], g[m + 1]>> /\ <<e[m + 1], g[m + 1]>> \in Seq(T)
        BY <1>0, <2>2, <4>0
      <4>2. f[m] \in Seq(T) /\ Len(f[m]) = 2 * m /\ \A i \in 1..m : f[m][2 * i - 1] = e[i] /\ f[m][2 * i] = g[i]
        BY <2>4, <3>2
      <4> DEFINE h == <<e[m + 1], g[m + 1]>>
      <4>3. h \in Seq(T) /\ Len(h) = 2 /\ h[1] = e[m + 1] /\ h[2] = g[m + 1]
        BY <4>1
      <4> HIDE DEF h
      <4>4. f[m + 1] = f[m] \o h
        BY <4>1 DEF h
      <4>5. f[m + 1] \in Seq(T) /\ Len(f[m + 1]) = 2 * m + 2
        <5>1. f[m] \o h \in Seq(T) /\ Len(f[m] \o h) = Len(f[m]) + Len(h)
          BY <4>2, <4>3, ConcatProperties
        <5> QED BY <4>2, <4>3, <4>4, <5>1
      <4>6. ASSUME NEW i \in 1..m PROVE f[m + 1][2 * i - 1] = e[i] /\ f[m + 1][2 * i] = g[i]
        <5>1. 2 * i - 1 \in 1..(2 * m) /\ 2 * i \in 1..(2 * m)
          OBVIOUS
        <5>2. \A j \in 1..(2 * m) : f[m + 1][j] = f[m][j]
          BY <4>2, <4>3, <4>4
        <5> QED BY <4>2, <5>1, <5>2
      <4>7. f[m + 1][2 * m + 1] = e[m + 1] /\ f[m + 1][2 * m + 2] = g[m + 1]
        <5> DEFINE p == 2 * m
        <5>1. p \in Nat /\ Len(f[m]) = p /\ f[m] \in Seq(T)
          BY <4>2
        <5> HIDE DEF p
        <5>2. \A j \in 1..(p + 2) : (f[m] \o h)[j] = IF j =< p THEN f[m][j] ELSE h[j - p]
          <6>1. \A j \in 1..(Len(f[m]) + Len(h)) :
                    (f[m] \o h)[j] = IF j =< Len(f[m]) THEN f[m][j] ELSE h[j - Len(f[m])]
            BY <4>3, <5>1, ConcatProperties, Zenon
          <6> QED BY <4>3, <5>1, <6>1, Zenon
        <5>3. p + 1 \in 1..(p + 2) /\ p + 2 \in 1..(p + 2) /\ (p + 1) - p = 1 /\ (p + 2) - p = 2
              /\ ~(p + 1 =< p) /\ ~(p + 2 =< p)
          BY <5>1
        <5>4. f[m + 1][p + 1] = h[1] /\ f[m + 1][p + 2] = h[2]
          BY <4>4, <5>2, <5>3
        <5> QED BY <4>3, <5>4 DEF p
      <4>8. \A i \in 1..(m + 1) : i \in 1..m \/ (i = m + 1 /\ 2 * i - 1 = 2 * m + 1 /\ 2 * i = 2 * m + 2)
        OBVIOUS
      <4>9. ASSUME NEW i \in 1..(m + 1) PROVE f[m + 1][2 * i - 1] = e[i] /\ f[m + 1][2 * i] = g[i]
        <5>1. CASE i \in 1..m
          BY <4>6, <5>1
        <5>2. CASE i = m + 1 /\ 2 * i - 1 = 2 * m + 1 /\ 2 * i = 2 * m + 2
          BY <4>7, <5>2, Zenon
        <5> QED BY <4>8, <5>1, <5>2
      <4>10. 2 * (m + 1) = 2 * m + 2
        OBVIOUS
      <4> QED BY <4>5, <4>9, <4>10
    <3> QED BY <3>1, <3>2
  <2> HIDE DEF X
  <2>5. n \in X
    BY <2>3, <2>4, NatSetInduction
  <2>6. n \in 1..n
    BY <1>3
  <2>7. /\ f[n] \in Seq(T) /\ Len(f[n]) = 2 * n
        /\ \A i \in 1..n : f[n][2 * i - 1] = e[i] /\ f[n][2 * i] = g[i]
    BY <2>5, <2>6 DEF X
  <2> QED BY <2>1, <2>7
<1> QED BY <1>2, <1>3

-----------------------------------------------------------------------------
(* Values and the statements of SQLite.                                    *)

\* What a column can hold.
ColumnValue == [terms : Seq(Nat \X Nat), nulls : BOOLEAN]

\* FlattenSeq() of at most two sequences.
LEMMA FlattenFew ==
    ASSUME NEW T, NEW a \in Seq(T), NEW b \in Seq(T)
    PROVE  /\ FlattenSeq(<<>>) = <<>>
           /\ FlattenSeq(<<a>>) = a
           /\ FlattenSeq(<<a, b>>) = a \o b
<1>1. FlattenSeq(<<>>) = <<>>
  <2>1. Len(<<>>) = 0
    OBVIOUS
  <2> QED BY <2>1, Zenon DEF FlattenSeq
<1>2. FlattenSeq(<<a>>) = a
  <2>1. Len(<<a>>) = 1 /\ <<a>>[1] = a /\ 1 \in 1..1 /\ 1 \in Nat /\ 1 # 0
    OBVIOUS
  <2>2. PICK f : Flattening(<<a>>, 1, f) /\ FlattenSeq(<<a>>) = f[1]
    BY <2>1, FlatteningExists, Zenon
  <2>3. \A i \in 1..1 : f[i] = IF i = 1 THEN <<a>>[i] ELSE f[i - 1] \o <<a>>[i]
    BY <2>2, Zenon DEF Flattening
  <2> QED BY <2>1, <2>2, <2>3
<1>3. FlattenSeq(<<a, b>>) = a \o b
  <2>1. Len(<<a, b>>) = 2 /\ <<a, b>>[1] = a /\ <<a, b>>[2] = b
    OBVIOUS
  <2>2. 1 \in 1..2 /\ 2 \in 1..2 /\ 2 \in Nat /\ 2 # 0 /\ 2 # 1 /\ 2 - 1 = 1
    OBVIOUS
  <2>3. PICK f : Flattening(<<a, b>>, 2, f) /\ FlattenSeq(<<a, b>>) = f[2]
    BY <2>1, <2>2, FlatteningExists, Zenon
  <2>4. \A i \in 1..2 : f[i] = IF i = 1 THEN <<a, b>>[i] ELSE f[i - 1] \o <<a, b>>[i]
    BY <2>3, Zenon DEF Flattening
  <2>5. f[1] = a /\ f[2] = f[1] \o b
    BY <2>1, <2>2, <2>4
  <2> QED BY <2>3, <2>5
<1> QED BY <1>1, <1>2, <1>3

\* COALESCE of at most two values.
LEMMA CoalesceFew ==
    ASSUME NEW v \in ColumnValue, NEW w \in ColumnValue
    PROVE  /\ Coalesce(<<>>) = Nulls
           /\ Coalesce(<<v>>) = v
           /\ Coalesce(<<v, w>>) = [terms |-> v.terms \o w.terms, nulls |-> v.nulls /\ w.nulls]
<1>0. v.terms \in Seq(Nat \X Nat) /\ w.terms \in Seq(Nat \X Nat) /\ v.nulls \in BOOLEAN /\ w.nulls \in BOOLEAN
      /\ v = [terms |-> v.terms, nulls |-> v.nulls]
  BY DEF ColumnValue
<1>1. Coalesce(<<>>) = Nulls
  <2> DEFINE none == <<>>
  <2>1. [i \in DOMAIN none |-> none[i].terms] = <<>> /\ DOMAIN none = {}
    OBVIOUS
  <2>2. FlattenSeq([i \in DOMAIN none |-> none[i].terms]) = <<>>
    BY <1>0, <2>1, FlattenFew
  <2>3. (\A i \in DOMAIN none : none[i].nulls) = TRUE
    BY <2>1
  <2> HIDE DEF none
  <2>4. Coalesce(none) = Nulls
    BY <2>2, <2>3 DEF Coalesce, Nulls
  <2> QED BY <2>4 DEF none
<1>2. Coalesce(<<v>>) = v
  <2> DEFINE s == <<v>>
  <2>1. DOMAIN s = {1} /\ s[1] = v
    OBVIOUS
  <2>2. [i \in DOMAIN s |-> s[i].terms] = <<v.terms>>
    OBVIOUS
  <2>3. FlattenSeq([i \in DOMAIN s |-> s[i].terms]) = v.terms
    BY <1>0, <2>2, FlattenFew
  <2>4. (\A i \in DOMAIN s : s[i].nulls) = v.nulls
    BY <1>0, <2>1
  <2> HIDE DEF s
  <2>5. Coalesce(s) = [terms |-> v.terms, nulls |-> v.nulls]
    BY <2>3, <2>4, Zenon DEF Coalesce
  <2> QED BY <1>0, <2>5 DEF s
<1>3. Coalesce(<<v, w>>) = [terms |-> v.terms \o w.terms, nulls |-> v.nulls /\ w.nulls]
  <2> DEFINE s == <<v, w>>
  <2>1. DOMAIN s = {1, 2} /\ s[1] = v /\ s[2] = w
    OBVIOUS
  <2>2. [i \in DOMAIN s |-> s[i].terms] = <<v.terms, w.terms>>
    OBVIOUS
  <2>3. FlattenSeq([i \in DOMAIN s |-> s[i].terms]) = v.terms \o w.terms
    BY <1>0, <2>2, FlattenFew
  <2>4. (\A i \in DOMAIN s : s[i].nulls) = (v.nulls /\ w.nulls)
    BY <1>0, <2>1
  <2> HIDE DEF s
  <2>5. Coalesce(s) = [terms |-> v.terms \o w.terms, nulls |-> v.nulls /\ w.nulls]
    BY <2>3, <2>4, Zenon DEF Coalesce
  <2> QED BY <2>5 DEF s
<1> QED BY <1>1, <1>2, <1>3

\* COALESCE of at most two expressions.
LEMMA EvaluateFew ==
    ASSUME NEW tables, NEW t, NEW v, NEW w, Evaluate(tables, t, v) \in ColumnValue,
           Evaluate(tables, t, w) \in ColumnValue
    PROVE  /\ EvaluateAll(tables, t, <<>>) = Nulls
           /\ EvaluateAll(tables, t, <<v>>) = Evaluate(tables, t, v)
           /\ EvaluateAll(tables, t, <<v, w>>) = Coalesce(<<Evaluate(tables, t, v), Evaluate(tables, t, w)>>)
<1> DEFINE E(x) == Evaluate(tables, t, x)
<1> HIDE DEF E
<1>1. EvaluateAll(tables, t, <<>>) = Nulls
  <2>1. [i \in DOMAIN <<>> |-> E(<<>>[i])] = <<>>
    OBVIOUS
  <2>2. EvaluateAll(tables, t, <<>>) = Coalesce([i \in DOMAIN <<>> |-> E(<<>>[i])])
    BY Zenon DEF EvaluateAll, E
  <2> QED BY <2>1, <2>2, CoalesceFew
<1>2. EvaluateAll(tables, t, <<v>>) = E(v)
  <2>1. [i \in DOMAIN <<v>> |-> E(<<v>>[i])] = <<E(v)>>
    OBVIOUS
  <2>2. EvaluateAll(tables, t, <<v>>) = Coalesce([i \in DOMAIN <<v>> |-> E(<<v>>[i])])
    BY Zenon DEF EvaluateAll, E
  <2>3. E(v) \in ColumnValue
    BY DEF E
  <2> QED BY <2>1, <2>2, <2>3, CoalesceFew
<1>3. EvaluateAll(tables, t, <<v, w>>) = Coalesce(<<E(v), E(w)>>)
  <2>1. [i \in DOMAIN <<v, w>> |-> E(<<v, w>>[i])] = <<E(v), E(w)>>
    OBVIOUS
  <2>2. EvaluateAll(tables, t, <<v, w>>) = Coalesce([i \in DOMAIN <<v, w>> |-> E(<<v, w>>[i])])
    BY Zenon DEF EvaluateAll, E
  <2> QED BY <2>1, <2>2
<1> QED BY <1>1, <1>2, <1>3 DEF E

\* A sequence is a prefix of itself and of what extends it, and keeps its first element there.
LEMMA PrefixOfConcat ==
    ASSUME NEW T, NEW a \in Seq(T), NEW b \in Seq(T)
    PROVE  /\ IsPrefix(a, a \o b)
           /\ IsPrefix(a, a)
           /\ \A x \in T : IsPrefix(<<x>>, a) => IsPrefix(<<x>>, a \o b)
<1>1. IsPrefix(a, a \o b)
  <2>1. a \o b \in Seq(T) /\ Len(a) =< Len(a \o b) /\ Len(a) \in Nat
    OBVIOUS
  <2>2. SubSeq(a \o b, 1, Len(a)) = a /\ SubSeq(a, 1, Len(a)) = a
    OBVIOUS
  <2> QED BY <2>1, <2>2 DEF IsPrefix
<1>2. IsPrefix(a, a)
  BY DEF IsPrefix
<1>3. ASSUME NEW x \in T, IsPrefix(<<x>>, a) PROVE IsPrefix(<<x>>, a \o b)
  <2>1. Len(<<x>>) = 1 /\ 1 =< Len(a) /\ SubSeq(<<x>>, 1, 1) = SubSeq(a, 1, 1)
    BY <1>3 DEF IsPrefix
  <2>2. a \o b \in Seq(T) /\ 1 =< Len(a \o b)
    BY <2>1
  <2>3. SubSeq(a \o b, 1, 1) = SubSeq(a, 1, 1)
    BY <2>1
  <2> QED BY <2>1, <2>2, <2>3 DEF IsPrefix
<1> QED BY <1>1, <1>2, <1>3

\* What SQLite accepts.
LEMMA SqliteAccepts ==
    ASSUME NEW s, input.backend = "sqlite"
    PROVE  /\ s.op = "create-table" /\ s.table \notin DOMAIN db => Accepts(s)
           /\ s.op = "drop-table" /\ s.table \in DOMAIN db => Accepts(s)
           /\ s.op = "rename-table" /\ s.table \in DOMAIN db /\ s.to \notin DOMAIN db => Accepts(s)
           /\ s.op = "insert"
              /\ {s.table, s.into} \subseteq DOMAIN db
              /\ (\A c \in DOMAIN s.values :
                    /\ Readable(s.values[c])
                    /\ \/ db[s.into].columns[c].null \/ db[s.into].columns[c].auto
                       \/ ~EvaluateAll(db, s.table, s.values[c]).nulls) => Accepts(s)
<1>1. ASSUME s.op = "create-table", s.table \notin DOMAIN db PROVE Accepts(s)
  <2>1. NameFree(s.table, s.as.primaryName)
    BY <1>1 DEF NameFree
  <2>2. Accepts(s) = (s.table \notin DOMAIN db /\ NameFree(s.table, s.as.primaryName))
    BY <1>1 DEF Accepts
  <2> QED BY <1>1, <2>1, <2>2
<1>2. ASSUME s.op = "drop-table", s.table \in DOMAIN db PROVE Accepts(s)
  <2>2. Accepts(s) = (s.table \in DOMAIN db /\ (input.backend # "sqlite" => ~Referenced(s.table)))
    BY <1>2 DEF Accepts
  <2> QED BY <1>2, <2>2
<1>3. ASSUME s.op = "rename-table", s.table \in DOMAIN db, s.to \notin DOMAIN db PROVE Accepts(s)
  <2>2. Accepts(s) = (s.table \in DOMAIN db /\ s.to \notin DOMAIN db)
    BY <1>3 DEF Accepts
  <2> QED BY <1>3, <2>2
<1>4. ASSUME s.op = "insert", {s.table, s.into} \subseteq DOMAIN db,
             \A c \in DOMAIN s.values :
                    /\ Readable(s.values[c])
                    /\ \/ db[s.into].columns[c].null \/ db[s.into].columns[c].auto
                       \/ ~EvaluateAll(db, s.table, s.values[c]).nulls
      PROVE  Accepts(s)
  BY <1>4 DEF Accepts
<1> QED BY <1>1, <1>2, <1>3, <1>4

\* What they do.
LEMMA EffectOfTables ==
    ASSUME NEW s
    PROVE  /\ s.op = "create-table" => Effect(s) = Put(db, s.table, Filled(s.as, LAMBDA c : Nulls))
           /\ s.op = "drop-table" => Effect(s) = Without(db, s.table)
           /\ s.op = "rename-table" => Effect(s) =
                LET moved == Move(db, s.table, s.to)
                IN  [u \in DOMAIN moved |->
                        [moved[u] EXCEPT !.keys = {[k EXCEPT !.target = IF @ = s.table THEN s.to ELSE @] : k \in @}]]
           /\ s.op = "insert" => Effect(s) =
                [db EXCEPT ![s.into] =
                    Filled(@, LAMBDA c : IF db[s.into].columns[c].auto /\ s.values[c] = <<>> THEN Serial
                                         ELSE EvaluateAll(db, s.table, s.values[c]))]
<1>1. s.op = "create-table" => Effect(s) = Put(db, s.table, Filled(s.as, LAMBDA c : Nulls))
  BY Zenon DEF Effect
<1>2. s.op = "drop-table" => Effect(s) = Without(db, s.table)
  BY DEF Effect
<1>3. s.op = "rename-table" => Effect(s) =
                LET moved == Move(db, s.table, s.to)
                IN  [u \in DOMAIN moved |->
                        [moved[u] EXCEPT !.keys = {[k EXCEPT !.target = IF @ = s.table THEN s.to ELSE @] : k \in @}]]
  BY DEF Effect
<1>4.  s.op = "insert" => Effect(s) =
                [db EXCEPT ![s.into] =
                    Filled(@, LAMBDA c : IF db[s.into].columns[c].auto /\ s.values[c] = <<>> THEN Serial
                                         ELSE EvaluateAll(db, s.table, s.values[c]))]
  BY Zenon DEF Effect
<1> QED BY <1>1, <1>2, <1>3, <1>4

-----------------------------------------------------------------------------
(* A script for SQLite: what it finds and what it declares.                *)

To(s) == targetTable(s, Decisions)
Gone == {s \in DOMAIN Source : To(s) \notin DOMAIN Target}
Rebuild == {s \in DOMAIN Source \ Gone : To(s) \in changedTables(Source, Target, Decisions)}
Stays == DOMAIN Source \ (Rebuild \cup Gone)
New == {t \in DOMAIN Target : matchingSource(Source, t, Decisions) = 0}

\* A table of a snapshot as it is for SQLite, whose foreign keys bear the names of
\* what they reference.
IsTable(t, table) ==
    /\ table = [columns |-> table.columns, primary |-> table.primary, keys |-> table.keys,
                primaryName |-> table.primaryName, indexes |-> table.indexes]
    /\ table.indexes = {}
    /\ DOMAIN table.columns \subseteq Names
    /\ table.columns \in [DOMAIN table.columns -> ColumnDefinition]
    /\ \E n \in Nat : table.primary \in [1..n -> Names]
    /\ \A k \in table.keys : k = ForeignKey(t, k.columns, k.target, k.targets) /\ k.target \in Names
IsSnapshot(schema) ==
    /\ schema = [t \in DOMAIN schema |-> schema[t]]
    /\ DOMAIN schema \subseteq Names
    /\ \A t \in DOMAIN schema : IsTable(t, schema[t])

\* What capture() makes of a model that validateSnapshot() accepts.
LEMMA CaptureMakesSnapshot ==
    ASSUME NEW schema, WellFormed(schema), validateSnapshot(capture("sqlite", schema))
    PROVE  IsSnapshot(capture("sqlite", schema))
<1> DEFINE captured == capture("sqlite", schema)
<1>1. captured = [t \in DOMAIN schema |-> physicalTable("sqlite", t, schema[t])]
  BY DEF capture
<1> HIDE DEF captured
<1>2. DOMAIN captured = DOMAIN schema /\ DOMAIN schema \subseteq Names
      /\ captured = [t \in DOMAIN captured |-> captured[t]]
  BY <1>1 DEF WellFormed
<1>3. ASSUME NEW t \in DOMAIN schema PROVE IsTable(t, captured[t])
  <2> DEFINE table == captured[t]
             name == IF schema[t].primary = <<>> \/ mysql("sqlite") THEN <<"PRIMARY">>
                     ELSE constraintName("pk", t, schema[t].primary)
  <2>1. captured[t] = [columns |-> schema[t].columns, primary |-> schema[t].primary, keys |-> schema[t].keys,
                       primaryName |-> name, indexes |-> {}]
    BY <1>1 DEF physicalTable, mysql
  <2> HIDE DEF name
  <2>2. /\ DOMAIN schema[t].columns \subseteq Names
        /\ schema[t].columns \in [DOMAIN schema[t].columns -> ColumnDefinition]
        /\ schema[t].primary \in Seq(Names)
        /\ \A k \in schema[t].keys : k = ForeignKey(t, k.columns, k.target, k.targets)
    BY DEF WellFormed
  <2>3. \E n \in Nat : schema[t].primary \in [1..n -> Names]
    BY <2>2, LenProperties
  <2>4. ASSUME NEW k \in captured[t].keys PROVE k.target \in Names
    <3>1. k.target \in DOMAIN captured
      BY <1>2, <2>4 DEF validateSnapshot, captured
    <3> QED BY <1>2, <3>1
  <2> QED BY <2>1, <2>2, <2>3, <2>4 DEF IsTable
<1> QED BY <1>2, <1>3 DEF IsSnapshot, captured

\* What the proofs use of a script that is executed: snapshots, resolved decisions and
\* valid transformations.
Ready ==
    /\ input.backend = "sqlite"
    /\ IsSnapshot(Source) /\ IsSnapshot(Target)
    /\ validateSnapshot(Source) /\ validateSnapshot(Target)
    /\ resolved(Source, Target, Decisions)
    /\ validateTransformations(Source, Target, Decisions)
    /\ ExpressionsRead(Source, Decisions)

\* compareTables() reports changes of one table.
LEMMA ChangesNameTheTable ==
    ASSUME NEW s, NEW source, NEW t, NEW target, NEW d, NEW x \in compareTables(s, source, t, target, d)
    PROVE  x.table = t
<1> DEFINE to(c) == targetColumn(t, c, d)
           kept == {c \in DOMAIN source.columns : to(c) \in DOMAIN target.columns}
           primary == mapColumns(t, source.primary, d)
<1>1. \E kind, c, loss, needs : x = Change(kind, t, c, loss, needs)
  <2>1. CASE x \in {AlterColumn(t, to(c), source.columns[c], target.columns[to(c)], d) :
                        c \in {c \in kept : source.columns[c] # target.columns[to(c)]}}
    BY <2>1, Zenon DEF AlterColumn
  <2>2. CASE \/ x \in {Change("rename-table", t, 0, FALSE, FALSE) : y \in IF s # t THEN {s} ELSE {}}
             \/ x \in {Change("drop-column", t, c, TRUE, FALSE) : c \in DOMAIN source.columns \ kept}
             \/ x \in {Change("rename-column", t, c, FALSE, FALSE) : c \in {c \in kept : to(c) # c}}
             \/ x \in {Change("add-column", t, c, FALSE,
                               /\ ~target.columns[c].null /\ ~target.columns[c].auto
                               /\ <<t, c>> \notin DOMAIN d.backfills) :
                            c \in DOMAIN target.columns \ {to(c) : c \in kept}}
    BY <2>2, Zenon
  <2>3. CASE \/ x \in {Change("alter-primary-key", t, 0, primary # target.primary, FALSE) :
                            y \in IF primary = target.primary /\ source.primaryName = target.primaryName
                                  THEN {} ELSE {t}}
             \/ x \in {Change("foreign-key", t, 0, FALSE, FALSE) :
                            y \in IF {mapKey(t, k, d) : k \in source.keys} = target.keys THEN {} ELSE {t}}
             \/ x \in {Change("index", t, 0, FALSE, FALSE) :
                            y \in IF {mapIndex(t, i, d) : i \in source.indexes} = target.indexes THEN {} ELSE {t}}
    BY <2>3, Zenon
  <2> QED BY <2>1, <2>2, <2>3, Zenon DEF compareTables
<1> QED BY <1>1 DEF Change

\* A rename is a change of the table.
LEMMA UnchangedKeepsName ==
    ASSUME Ready, NEW s \in Stays
    PROVE  To(s) = s /\ s \in DOMAIN Source /\ s \in DOMAIN Target
           /\ compareTables(s, Source[s], s, Target[s], Decisions) = {}
<1>1. s \in DOMAIN Source /\ To(s) \in DOMAIN Target /\ To(s) \notin changedTables(Source, Target, Decisions)
  BY DEF Stays, Rebuild, Gone
<1>2. compareTables(s, Source[s], To(s), Target[To(s)], Decisions) \subseteq compare(Source, Target, Decisions)
  BY <1>1, Zenon DEF compare, To
<1>3. \A x \in compareTables(s, Source[s], To(s), Target[To(s)], Decisions) : x.table # To(s)
  BY <1>1, <1>2, Zenon DEF changedTables
<1>4. \A x \in compareTables(s, Source[s], To(s), Target[To(s)], Decisions) : x.table = To(s)
  BY ChangesNameTheTable
<1>5. compareTables(s, Source[s], To(s), Target[To(s)], Decisions) = {}
  BY <1>3, <1>4, Zenon
<1>6. s # To(s) => Change("rename-table", To(s), 0, FALSE, FALSE)
                        \in compareTables(s, Source[s], To(s), Target[To(s)], Decisions)
  <2> SUFFICES ASSUME s # To(s)
               PROVE  Change("rename-table", To(s), 0, FALSE, FALSE)
                        \in compareTables(s, Source[s], To(s), Target[To(s)], Decisions)
    OBVIOUS
  <2>1. Change("rename-table", To(s), 0, FALSE, FALSE)
            \in {Change("rename-table", To(s), 0, FALSE, FALSE) : x \in IF s # To(s) THEN {s} ELSE {}}
    BY Zenon
  <2> QED BY <2>1, Zenon DEF compareTables
<1> QED BY <1>1, <1>5, <1>6

\* A table without a change is the same in both snapshots.
LEMMA UnchangedIsSame ==
    ASSUME Ready, NEW s \in Stays
    PROVE  Source[s] = Target[s]
<1> DEFINE source == Source[s]
           target == Target[s]
           d == Decisions
           to(c) == targetColumn(s, c, d)
           kept == {c \in DOMAIN source.columns : to(c) \in DOMAIN target.columns}
<1>0. /\ s \in DOMAIN Source /\ s \in DOMAIN Target
      /\ compareTables(s, source, s, target, d) = {}
      /\ IsTable(s, source) /\ IsTable(s, target)
  BY UnchangedKeepsName DEF Ready, IsSnapshot
<1> HIDE DEF source, target, d
<1>1. /\ {Change("drop-column", s, c, TRUE, FALSE) : c \in DOMAIN source.columns \ kept} = {}
      /\ {Change("rename-column", s, c, FALSE, FALSE) : c \in {c \in kept : to(c) # c}} = {}
      /\ {AlterColumn(s, to(c), source.columns[c], target.columns[to(c)], d) :
                c \in {c \in kept : source.columns[c] # target.columns[to(c)]}} = {}
      /\ {Change("add-column", s, c, FALSE,
                     /\ ~target.columns[c].null /\ ~target.columns[c].auto
                     /\ <<s, c>> \notin DOMAIN d.backfills) :
                c \in DOMAIN target.columns \ {to(c) : c \in kept}} = {}
      /\ {Change("alter-primary-key", s, 0, mapColumns(s, source.primary, d) # target.primary, FALSE) :
                x \in IF mapColumns(s, source.primary, d) = target.primary
                         /\ source.primaryName = target.primaryName THEN {} ELSE {s}} = {}
      /\ {Change("foreign-key", s, 0, FALSE, FALSE) :
                x \in IF {mapKey(s, k, d) : k \in source.keys} = target.keys THEN {} ELSE {s}} = {}
  BY <1>0, Zenon DEF compareTables
<1>2. /\ DOMAIN source.columns \ kept = {}
      /\ {c \in kept : to(c) # c} = {}
      /\ {c \in kept : source.columns[c] # target.columns[to(c)]} = {}
      /\ DOMAIN target.columns \ {to(c) : c \in kept} = {}
      /\ mapColumns(s, source.primary, d) = target.primary /\ source.primaryName = target.primaryName
      /\ {mapKey(s, k, d) : k \in source.keys} = target.keys
  <2>1. DOMAIN source.columns \ kept = {}
    <3> DEFINE dropped == DOMAIN source.columns \ kept
    <3>1. {Change("drop-column", s, c, TRUE, FALSE) : c \in dropped} = {}
      BY <1>1
    <3> HIDE DEF dropped
    <3>2. dropped = {}
      BY <3>1, Zenon
    <3> QED BY <3>2 DEF dropped
  <2>2. {c \in kept : to(c) # c} = {}
    <3> DEFINE renamed == {c \in kept : to(c) # c}
    <3>1. {Change("rename-column", s, c, FALSE, FALSE) : c \in renamed} = {}
      BY <1>1
    <3> HIDE DEF renamed
    <3>2. renamed = {}
      BY <3>1, Zenon
    <3> QED BY <3>2 DEF renamed
  <2>3. {c \in kept : source.columns[c] # target.columns[to(c)]} = {}
    <3> DEFINE altered == {c \in kept : source.columns[c] # target.columns[to(c)]}
    <3>1. {AlterColumn(s, to(c), source.columns[c], target.columns[to(c)], d) : c \in altered} = {}
      BY <1>1
    <3> HIDE DEF altered
    <3>2. altered = {}
      BY <3>1, Zenon
    <3> QED BY <3>2 DEF altered
  <2>4. DOMAIN target.columns \ {to(c) : c \in kept} = {}
    <3> DEFINE added == DOMAIN target.columns \ {to(c) : c \in kept}
    <3>1. {Change("add-column", s, c, FALSE,
                     /\ ~target.columns[c].null /\ ~target.columns[c].auto
                     /\ <<s, c>> \notin DOMAIN d.backfills) : c \in added} = {}
      BY <1>1
    <3> HIDE DEF added
    <3>2. added = {}
      BY <3>1, Zenon
    <3> QED BY <3>2 DEF added
  <2>5. mapColumns(s, source.primary, d) = target.primary /\ source.primaryName = target.primaryName
    BY <1>1, Zenon
  <2>6. {mapKey(s, k, d) : k \in source.keys} = target.keys
    BY <1>1, Zenon
  <2> QED BY <2>1, <2>2, <2>3, <2>4, <2>5, <2>6
<1>3. \A c \in DOMAIN source.columns : c \in kept /\ to(c) = c /\ source.columns[c] = target.columns[c]
  BY <1>2, Zenon
<1>4. DOMAIN source.columns = DOMAIN target.columns
  BY <1>2, <1>3
<1>5. source.columns = target.columns
  <2>1. source.columns = [c \in DOMAIN source.columns |-> source.columns[c]]
        /\ target.columns = [c \in DOMAIN target.columns |-> target.columns[c]]
    BY <1>0 DEF IsTable
  <2> HIDE DEF kept, to
  <2> QED BY <1>3, <1>4, <2>1
<1>6. source.primary = target.primary
  <2>1. PICK n \in Nat : source.primary \in [1..n -> Names]
    BY <1>0 DEF IsTable
  <2>2. ToSet(source.primary) \subseteq DOMAIN source.columns
    BY <1>0 DEF Ready, validateSnapshot, source
  <2>3. \A i \in 1..n : source.primary[i] \in DOMAIN source.columns
    BY <2>1, <2>2 DEF ToSet
  <2>4. \A i \in 1..n : to(source.primary[i]) = source.primary[i]
    BY <1>3, <2>3
  <2>5. mapColumns(s, source.primary, d) = [i \in 1..n |-> to(source.primary[i])]
    BY <2>1 DEF mapColumns
  <2>6. mapColumns(s, source.primary, d) = source.primary
    BY <2>1, <2>4, <2>5
  <2> QED BY <1>2, <2>6
\* The name of a foreign key names its columns, its target and their columns.
<1>7. ASSUME NEW k \in source.keys PROVE mapKey(s, k, d) = k
  <2> DEFINE m == mapKey(s, k, d)
  <2>1. k = ForeignKey(s, k.columns, k.target, k.targets)
    BY <1>0 DEF IsTable
  <2>2. m \in target.keys
    BY <1>2
  <2>3. m = ForeignKey(s, m.columns, m.target, m.targets)
    BY <1>0, <2>2 DEF IsTable
  <2>4. m.name = k.name
    BY <2>1 DEF mapKey, ForeignKey
  <2> HIDE DEF m
  <2>5. k.name = <<"fk", s, k.columns, k.target, k.targets>>
    BY <2>1 DEF ForeignKey
  <2>6. m.name = <<"fk", s, m.columns, m.target, m.targets>>
    BY <2>3 DEF ForeignKey
  <2>7. m.columns = k.columns /\ m.target = k.target /\ m.targets = k.targets
    BY <2>4, <2>5, <2>6
  <2> QED BY <2>1, <2>3, <2>7 DEF m
<1>8. source.keys = target.keys
  <2>1. {mapKey(s, k, d) : k \in source.keys} = target.keys
    BY <1>2
  <2>2. \A k \in source.keys : mapKey(s, k, d) = k
    BY <1>7
  <2>3. {mapKey(s, k, d) : k \in source.keys} = source.keys
    BY <2>2
  <2> QED BY <2>1, <2>3
<1>9. source.primaryName = target.primaryName /\ source.indexes = target.indexes
  BY <1>0, <1>2 DEF IsTable
<1>10. source = target
  BY <1>0, <1>5, <1>6, <1>8, <1>9 DEF IsTable
<1> QED BY <1>10 DEF source, target

\* Rebuilt tables, tables that stay and new ones have names of their own, which are
\* those of the target.
LEMMA NamesAreApart ==
    ASSUME Ready
    PROVE  /\ DOMAIN Source \subseteq Names /\ DOMAIN Target \subseteq Names
           /\ Rebuild \subseteq DOMAIN Source /\ Gone \subseteq DOMAIN Source /\ Stays \subseteq DOMAIN Source
           /\ New \subseteq DOMAIN Target
           /\ \A s \in Rebuild : /\ s \notin Gone /\ To(s) \in DOMAIN Target
                                 /\ To(s) \notin Stays /\ To(s) \notin New
                                 /\ matchingSource(Source, To(s), Decisions) = s
           /\ \A s, r \in Rebuild : To(s) = To(r) => s = r
           /\ \A t \in New : t \notin Stays
           /\ \A t \in DOMAIN Target : t \in Stays \/ t \in New \/ \E s \in Rebuild : To(s) = t
<1>1. /\ DOMAIN Source \subseteq Names /\ DOMAIN Target \subseteq Names
      /\ OneToOne(Source, Decisions)
  BY RenamesAreOneToOne DEF Ready, IsSnapshot, resolved
<1>2. /\ Rebuild \subseteq DOMAIN Source /\ Gone \subseteq DOMAIN Source /\ Stays \subseteq DOMAIN Source
      /\ New \subseteq DOMAIN Target
      /\ \A s \in Rebuild : s \notin Gone /\ To(s) \in DOMAIN Target /\ s \notin Stays
  BY DEF Rebuild, Gone, Stays, New
<1>3. \A s \in DOMAIN Source : /\ matchingSource(Source, To(s), Decisions) = s /\ s # 0
                               /\ \A r \in DOMAIN Source : To(r) = To(s) => r = s
  BY <1>1, NamesAreNumbers DEF OneToOne, To
<1>4. \A s \in Stays : To(s) = s
  BY UnchangedKeepsName
<1>5. ASSUME NEW s \in Rebuild
      PROVE  To(s) \notin Stays /\ To(s) \notin New /\ matchingSource(Source, To(s), Decisions) = s
  <2>1. To(s) \notin Stays
    BY <1>2, <1>3, <1>4
  <2>2. To(s) \notin New
    BY <1>2, <1>3 DEF New
  <2> QED BY <1>2, <1>3, <2>1, <2>2
<1>6. \A t \in New : t \notin Stays
  BY <1>2, <1>3, <1>4 DEF New
<1>7. ASSUME NEW t \in DOMAIN Target, t \notin New, t \notin Stays PROVE \E s \in Rebuild : To(s) = t
  <2>1. PICK s : s = matchingSource(Source, t, Decisions) /\ s # 0
    BY <1>7 DEF New
  <2>2. s \in DOMAIN Source /\ To(s) = t
    BY <2>1 DEF matchingSource, To
  <2>3. s \notin Gone
    BY <2>2 DEF Gone
  <2>4. s \notin Stays
    BY <1>4, <1>7, <2>2
  <2> QED BY <2>2, <2>3, <2>4 DEF Stays
<1> QED BY <1>1, <1>2, <1>3, <1>5, <1>6, <1>7

\* A table of a snapshot whose columns hold values.
Holding(table, values) ==
    [columns |-> [c \in DOMAIN table.columns |->
                    [type |-> table.columns[c].type, null |-> table.columns[c].null,
                     auto |-> table.columns[c].auto, value |-> values[c]]],
     primary |-> table.primary, keys |-> table.keys, primaryName |-> table.primaryName,
     indexes |-> table.indexes]
Held(u) == [c \in DOMAIN Source[u].columns |-> base[u].columns[c].value]

\* The database a script is started on has the schema of the source, and no NULL in a
\* column that forbids it, except in the empty tables that were created on the way
\* up: none of them is a source of the way down.
Fits ==
    /\ DOMAIN base = DOMAIN Source
    /\ base = [u \in DOMAIN base |-> base[u]]
    /\ \A u \in DOMAIN Source : base[u] = Holding(Source[u], Held(u))
    /\ \A u \in DOMAIN Source : \A c \in DOMAIN Source[u].columns : base[u].columns[c].value \in ColumnValue
    /\ \A u \in DOMAIN Source : To(u) \in DOMAIN Target =>
        \A c \in DOMAIN Source[u].columns : base[u].columns[c].value.nulls => Source[u].columns[c].null

\* A transformation can be evaluated on the database the script is started on.
Reads(v) == v = Constant \/ (v[1] \in DOMAIN Source /\ v[2] \in DOMAIN Source[v[1]].columns)

\* Transformations read what is there, and bring no NULL where it is forbidden.
LEMMA TransformationsRead ==
    ASSUME Ready, NEW s \in Rebuild, NEW t, t = To(s), NEW c \in DOMAIN Target[t].columns
    PROVE  /\ Fills(t, c, Decisions) =>
                LET v == Decisions.backfills[<<t, c>>]
                IN  Reads(v) /\ (v # Constant /\ v[1] = s => (Source[s].columns[v[2]].null => Target[t].columns[c].null))
           /\ Converts(t, c, Decisions) =>
                LET v == Decisions.conversions[<<t, c>>]
                IN  Reads(v) /\ (v # Constant /\ v[1] = s => (Source[s].columns[v[2]].null => Target[t].columns[c].null))
<1> DEFINE x == <<t, c>>
<1>1. s \in DOMAIN Source /\ matchingSource(Source, t, Decisions) = s /\ x[1] = t /\ x[2] = c
  BY NamesAreApart
<1> HIDE DEF x
<1>2. ASSUME NEW v, v = Constant \/ v[1] = s \/ (v[1] \in DOMAIN Source /\ v[2] \in DOMAIN Source[v[1]].columns),
             transformationSql(v, s, Source[s], Target[t].columns[c])
      PROVE  Reads(v) /\ (v # Constant /\ v[1] = s => (Source[s].columns[v[2]].null => Target[t].columns[c].null))
  BY <1>1, <1>2 DEF transformationSql, Reads
<1>3. ASSUME Fills(t, c, Decisions)
      PROVE  /\ transformationSql(Decisions.backfills[x], s, Source[s], Target[t].columns[c])
             /\ LET v == Decisions.backfills[x]
                IN  v = Constant \/ v[1] = s \/ (v[1] \in DOMAIN Source /\ v[2] \in DOMAIN Source[v[1]].columns)
  <2>1. x \in DOMAIN Decisions.backfills
    BY <1>3 DEF Fills, x
  <2>2. transformationSql(Decisions.backfills[x], s, Source[s], Target[t].columns[c])
    BY <1>1, <2>1, Zenon DEF Ready, validateTransformations
  <2> QED BY <1>1, <2>1, <2>2, Zenon DEF Ready, ExpressionsRead
<1>4. ASSUME Converts(t, c, Decisions)
      PROVE  /\ transformationSql(Decisions.conversions[x], s, Source[s], Target[t].columns[c])
             /\ LET v == Decisions.conversions[x]
                IN  v = Constant \/ v[1] = s \/ (v[1] \in DOMAIN Source /\ v[2] \in DOMAIN Source[v[1]].columns)
  <2>1. x \in DOMAIN Decisions.conversions
    BY <1>4 DEF Converts, x
  <2>2. transformationSql(Decisions.conversions[x], s, Source[s], Target[t].columns[c])
    BY <1>1, <2>1, Zenon DEF Ready, validateTransformations
  <2> QED BY <1>1, <2>1, <2>2, Zenon DEF Ready, ExpressionsRead
<1> QED BY <1>2, <1>3, <1>4 DEF x

\* What an expression yields.
LEMMA EvaluateYields ==
    ASSUME Fits, NEW s, NEW v, Reads(v)
    PROVE  /\ Evaluate(base, s, v) \in ColumnValue
           /\ Evaluate(base, s, v).nulls =>
                v # Constant /\ v[1] = s /\ base[s].columns[v[2]].value.nulls
           /\ v # Constant /\ v[1] = s => Evaluate(base, s, v) = base[s].columns[v[2]].value
<1>0. Constant \in Nat \X Nat
  BY DEF Constant
<1>1. CASE v = Constant
  BY <1>0, <1>1 DEF Evaluate, ColumnValue
<1>2. CASE v # Constant
  <2> DEFINE value == base[v[1]].columns[v[2]].value
  <2>1. value \in ColumnValue
    BY <1>2 DEF Fits, Reads
  <2>2. value.terms \in Seq(Nat \X Nat)
    BY <2>1 DEF ColumnValue
  <2>3. Append(value.terms, Constant) \in Seq(Nat \X Nat)
    BY <1>0, <2>2
  <2>4. Evaluate(base, s, v) = IF v[1] = s THEN value ELSE [terms |-> Append(value.terms, Constant), nulls |-> FALSE]
    BY <1>2 DEF Evaluate
  <2>5. [terms |-> Append(value.terms, Constant), nulls |-> FALSE] \in ColumnValue
    BY <2>3 DEF ColumnValue
  <2> HIDE DEF value
  <2>6. CASE v[1] = s
    BY <1>2, <2>1, <2>4, <2>6 DEF value
  <2>7. CASE v[1] # s
    BY <1>2, <2>4, <2>5, <2>7
  <2> QED BY <2>6, <2>7
<1> QED BY <1>1, <1>2

\* A column that allows NULL becomes one that does not only with a decision.
LEMMA TightenedIsDecided ==
    ASSUME NEW before, NEW after, NEW d, resolved(before, after, d), NEW s \in DOMAIN before,
           NEW t, t = targetTable(s, d), t \in DOMAIN after,
           NEW o \in DOMAIN before[s].columns, NEW c, c = targetColumn(t, o, d), c \in DOMAIN after[t].columns,
           before[s].columns[o].null, ~after[t].columns[c].null
    PROVE  Fills(t, c, d) \/ Converts(t, c, d)
<1> DEFINE a == before[s].columns[o]
           b == after[t].columns[c]
<1>1. AlterColumn(t, c, a, b, d) \in compare(before, after, d)
  BY CompareIsComplete
<1>2. a.null /\ ~b.null /\ <<t, c>> \notin DOMAIN d.backfills \cup DOMAIN d.conversions
          => AlterColumn(t, c, a, b, d).needs
  BY DEF AlterColumn, Change
<1> QED BY <1>1, <1>2 DEF resolved, Fills, Converts

\* Two sequences of one element make one of two.
LEMMA PairOfOnes == ASSUME NEW a, NEW b PROVE <<a>> \o <<b>> = <<a, b>>
<1> DEFINE T == {a, b}
<1>1. <<a>> \in Seq(T) /\ <<b>> \in Seq(T) /\ <<a, b>> \in Seq(T)
  OBVIOUS
<1>2. Len(<<a>>) = 1 /\ Len(<<b>>) = 1 /\ Len(<<a, b>>) = 2
  OBVIOUS
<1>3. <<a>> \o <<b>> \in Seq(T) /\ Len(<<a>> \o <<b>>) = 2
  BY <1>1, <1>2
<1>4. (<<a>> \o <<b>>)[1] = a /\ (<<a>> \o <<b>>)[2] = b
  BY <1>1, <1>2
<1>5. \A i \in 1..2 : (<<a>> \o <<b>>)[i] = <<a, b>>[i]
  BY <1>4
<1> QED BY <1>1, <1>2, <1>3, <1>5, SeqEqual

\* What the copy of a table is filled with.
Copied(s, c) ==
    LET t == To(s)
        selected == Selected(s, Source[s], t, Target[t], c, Decisions)
    IN  IF Target[t].columns[c].auto /\ selected = <<>> THEN Serial ELSE EvaluateAll(base, s, selected)

\* INSERT ... SELECT of a rebuilt table reads what is there and copies what the
\* decisions declare, never NULL into a column that forbids it.
LEMMA CopiesAreDeclared ==
    ASSUME Ready, Fits, NEW s \in Rebuild, NEW t, t = To(s), NEW c \in DOMAIN Target[t].columns,
           NEW selected, selected = Selected(s, Source[s], t, Target[t], c, Decisions)
    PROVE  /\ \A i \in DOMAIN selected : Reads(selected[i])
           /\ Copied(s, c) = Declared(t, c)
           /\ Declared(t, c) \in ColumnValue
           /\ Declared(t, c).nulls => Target[t].columns[c].null
<1> DEFINE o == matchingSourceColumn(Source[s], t, c, Decisions)
           column == Target[t].columns[c]
           E(v) == Evaluate(base, s, v)
           backfill == Decisions.backfills[<<t, c>>]
           conversion == Decisions.conversions[<<t, c>>]
           old == base[s].columns[o].value
<1>1. /\ s \in DOMAIN Source /\ s \in Names /\ t \in DOMAIN Target
      /\ matchingSource(Source, t, Decisions) = s
  BY NamesAreApart
<1>2. o = 0 \/ (o \in DOMAIN Source[s].columns /\ targetColumn(t, o, Decisions) = c)
  BY DEF matchingSourceColumn
<1>3. /\ Serial \in ColumnValue /\ Nulls \in ColumnValue /\ Nulls.nulls /\ ~Serial.nulls
  BY DEF Serial, Nulls, ColumnValue
<1>4. \A u \in DOMAIN Source[s].columns : /\ base[s].columns[u].value \in ColumnValue
                                          /\ base[s].columns[u].value.nulls => Source[s].columns[u].null
  BY <1>1 DEF Fits
<1>5. Fills(t, c, Decisions) => /\ Reads(backfill) /\ E(backfill) \in ColumnValue
                                /\ E(backfill).nulls => column.null
  <2> SUFFICES ASSUME Fills(t, c, Decisions)
               PROVE  /\ Reads(backfill) /\ E(backfill) \in ColumnValue
                      /\ E(backfill).nulls => column.null
    OBVIOUS
  <2>1. /\ Reads(backfill)
        /\ backfill # Constant /\ backfill[1] = s => (Source[s].columns[backfill[2]].null => column.null)
    BY TransformationsRead
  <2>2. backfill # Constant /\ backfill[1] = s => backfill[2] \in DOMAIN Source[s].columns
    BY <2>1 DEF Reads
  <2>3. E(backfill) \in ColumnValue
        /\ (E(backfill).nulls => backfill # Constant /\ backfill[1] = s /\ base[s].columns[backfill[2]].value.nulls)
    BY <2>1, EvaluateYields
  <2> QED BY <1>4, <2>1, <2>2, <2>3
<1>6. Converts(t, c, Decisions) => /\ Reads(conversion) /\ E(conversion) \in ColumnValue
                                   /\ E(conversion).nulls => column.null
  <2> SUFFICES ASSUME Converts(t, c, Decisions)
               PROVE  /\ Reads(conversion) /\ E(conversion) \in ColumnValue
                      /\ E(conversion).nulls => column.null
    OBVIOUS
  <2>1. /\ Reads(conversion)
        /\ conversion # Constant /\ conversion[1] = s => (Source[s].columns[conversion[2]].null => column.null)
    BY TransformationsRead
  <2>2. conversion # Constant /\ conversion[1] = s => conversion[2] \in DOMAIN Source[s].columns
    BY <2>1 DEF Reads
  <2>3. E(conversion) \in ColumnValue
        /\ (E(conversion).nulls => conversion # Constant /\ conversion[1] = s /\ base[s].columns[conversion[2]].value.nulls)
    BY <2>1, EvaluateYields
  <2> QED BY <1>4, <2>1, <2>2, <2>3
<1>7. o # 0 => /\ Reads(<<s, o>>) /\ E(<<s, o>>) = old /\ old \in ColumnValue
               /\ old.nulls => Source[s].columns[o].null
  <2> SUFFICES ASSUME o # 0 PROVE /\ Reads(<<s, o>>) /\ E(<<s, o>>) = old /\ old \in ColumnValue
                                  /\ old.nulls => Source[s].columns[o].null
    OBVIOUS
  <2>1. o \in DOMAIN Source[s].columns
    BY <1>2
  <2> HIDE DEF o
  <2>2. Reads(<<s, o>>)
    BY <1>1, <2>1 DEF Reads
  <2>3. <<s, o>> # Constant
    BY <1>1, NamesAreNumbers DEF Constant
  <2> QED BY <1>4, <2>1, <2>2, <2>3, EvaluateYields
<1>8. Declared(t, c) =
        IF Converts(t, c, Decisions) THEN E(conversion)
        ELSE IF o # 0
        THEN IF Tightens(Source[s], t, Target[t], c, Decisions) THEN Coalesce(<<old, E(backfill)>>) ELSE old
        ELSE IF Fills(t, c, Decisions) THEN E(backfill)
        ELSE IF column.auto THEN Serial ELSE Nulls
  BY <1>1, Zenon DEF Declared
<1>9. Tightens(Source[s], t, Target[t], c, Decisions)
        <=> o # 0 /\ Source[s].columns[o].null /\ ~column.null /\ Fills(t, c, Decisions)
  BY DEF Tightens
<1>10. Copied(s, c) = IF column.auto /\ selected = <<>> THEN Serial ELSE EvaluateAll(base, s, selected)
  BY DEF Copied
<1>11. selected =
        IF Converts(t, c, Decisions) THEN <<conversion>>
        ELSE IF o = 0 THEN IF Fills(t, c, Decisions) THEN <<backfill>> ELSE <<>>
        ELSE IF Source[s].columns[o].null /\ ~column.null
        THEN <<<<s, o>>>> \o (IF Fills(t, c, Decisions) THEN <<backfill>> ELSE <<>>)
        ELSE <<<<s, o>>>>
  BY Zenon DEF Selected
<1>12. \A v : E(v) \in ColumnValue => EvaluateAll(base, s, <<v>>) = E(v)
  BY EvaluateFew
<1>13. CASE Converts(t, c, Decisions)
  <2>1. selected = <<conversion>> /\ Declared(t, c) = E(conversion)
    BY <1>8, <1>11, <1>13
  <2>2. selected # <<>> /\ DOMAIN selected = {1} /\ selected[1] = conversion
    BY <2>1
  <2> QED BY <1>6, <1>10, <1>12, <1>13, <2>1, <2>2
<1>14. CASE ~Converts(t, c, Decisions) /\ o = 0 /\ Fills(t, c, Decisions)
  <2>1. selected = <<backfill>> /\ Declared(t, c) = E(backfill)
    BY <1>8, <1>11, <1>14
  <2>2. selected # <<>> /\ DOMAIN selected = {1} /\ selected[1] = backfill
    BY <2>1
  <2> QED BY <1>5, <1>10, <1>12, <1>14, <2>1, <2>2
<1>15. CASE ~Converts(t, c, Decisions) /\ o = 0 /\ ~Fills(t, c, Decisions)
  <2>1. selected = <<>> /\ Declared(t, c) = IF column.auto THEN Serial ELSE Nulls
    BY <1>8, <1>11, <1>15
  <2>2. EvaluateAll(base, s, <<>>) = Nulls
    <3>1. Evaluate(base, s, Constant) \in ColumnValue
      BY EvaluateYields DEF Reads
    <3> QED BY <3>1, EvaluateFew
  <2>3. ~column.null => column.auto
    <3>1. Supplied(Source, Target, Decisions)
      BY ResolvedIsSupplied DEF Ready
    <3>2. 0 \notin DOMAIN Source[s].columns
      BY <1>1, NamesAreNumbers DEF Ready, IsSnapshot, IsTable
    <3> QED BY <1>1, <1>15, <3>1, <3>2 DEF Supplied, To
  <2>4. Copied(s, c) = Declared(t, c)
    BY <1>10, <2>1, <2>2
  <2>5. DOMAIN selected = {}
    BY <2>1
  <2> QED BY <1>3, <2>1, <2>3, <2>4, <2>5
<1>16. CASE ~Converts(t, c, Decisions) /\ o # 0 /\ Source[s].columns[o].null /\ ~column.null
  <2>1. Fills(t, c, Decisions)
    BY <1>1, <1>2, <1>16, TightenedIsDecided DEF Ready, To
  <2> DEFINE own == <<s, o>>
  <2> HIDE DEF own
  <2>2. selected = <<own>> \o <<backfill>> /\ Declared(t, c) = Coalesce(<<old, E(backfill)>>)
    BY <1>8, <1>9, <1>11, <1>16, <2>1 DEF own
  <2>3. selected = <<own, backfill>>
    BY <2>2, PairOfOnes, Zenon
  <2>4. selected # <<>> /\ DOMAIN selected = {1, 2} /\ selected[1] = own /\ selected[2] = backfill
    BY <2>3
  <2>5. Reads(own) /\ E(own) = old /\ old \in ColumnValue
    BY <1>7, <1>16 DEF own
  <2>6. EvaluateAll(base, s, selected) = Coalesce(<<old, E(backfill)>>)
    <3>1. E(own) \in ColumnValue /\ E(backfill) \in ColumnValue
      BY <1>5, <2>1, <2>5
    <3>2. EvaluateAll(base, s, <<own, backfill>>) = Coalesce(<<E(own), E(backfill)>>)
      BY <3>1, EvaluateFew, ZenonT(40)
    <3> QED BY <2>3, <2>5, <3>2
  <2>7. Coalesce(<<old, E(backfill)>>)
            = [terms |-> old.terms \o E(backfill).terms, nulls |-> old.nulls /\ E(backfill).nulls]
    BY <1>5, <2>1, <2>5, CoalesceFew
  <2>8. old.terms \o E(backfill).terms \in Seq(Nat \X Nat)
    BY <1>5, <2>1, <2>5 DEF ColumnValue
  <2>9. Coalesce(<<old, E(backfill)>>) \in ColumnValue /\ ~Coalesce(<<old, E(backfill)>>).nulls
    <3> DEFINE terms == old.terms \o E(backfill).terms
               nulls == old.nulls /\ E(backfill).nulls
               value == Coalesce(<<old, E(backfill)>>)
    <3>1. ~nulls
      BY <1>5, <1>16, <2>1
    <3>2. value = [terms |-> terms, nulls |-> nulls] /\ terms \in Seq(Nat \X Nat)
      BY <2>7, <2>8
    <3> HIDE DEF terms, nulls, value
    <3>3. nulls = FALSE
      BY <3>1, Zenon DEF nulls
    <3>4. value \in ColumnValue /\ ~value.nulls
      BY <3>2, <3>3 DEF ColumnValue
    <3> QED BY <3>4 DEF value
  <2> QED BY <1>5, <1>10, <2>1, <2>2, <2>4, <2>5, <2>6, <2>9
<1>17. CASE ~Converts(t, c, Decisions) /\ o # 0 /\ ~(Source[s].columns[o].null /\ ~column.null)
  <2> DEFINE own == <<s, o>>
  <2> HIDE DEF own
  <2>1. selected = <<own>> /\ Declared(t, c) = old
    BY <1>8, <1>9, <1>11, <1>17 DEF own
  <2>2. selected # <<>> /\ DOMAIN selected = {1} /\ selected[1] = own
    BY <2>1
  <2>3. Reads(own) /\ E(own) = old /\ old \in ColumnValue /\ (old.nulls => Source[s].columns[o].null)
    BY <1>7, <1>17 DEF own
  <2> QED BY <1>10, <1>12, <1>17, <2>1, <2>2, <2>3
<1> QED BY <1>13, <1>14, <1>15, <1>16, <1>17

-----------------------------------------------------------------------------
(* Its statements, one by one.                                             *)

\* The tables SQLite scripts make: empty ones and copies.
Blank(t) == Holding(Target[t], [c \in DOMAIN Target[t].columns |-> Nulls])
Copy(s) == Holding(Target[To(s)], [c \in DOMAIN Target[To(s)].columns |-> Declared(To(s), c)])

\* The statements they consist of.
CreateStaged(s) == CreateTable(StagedTable(s), [Target[To(s)] EXCEPT !.indexes = {}])
InsertCopy(s) ==
    [op |-> "insert", table |-> s, into |-> StagedTable(s),
     values |-> [c \in DOMAIN Target[To(s)].columns |->
                    Selected(s, Source[s], To(s), Target[To(s)], c, Decisions)]]
DropSource(s) == [op |-> "drop-table", table |-> s]
RenameCopy(s) == [op |-> "rename-table", table |-> StagedTable(s), to |-> To(s)]
CreateNew(t) == CreateTable(t, [Target[t] EXCEPT !.indexes = {}])

\* A database between two statements: the sources that are still there (D), the copies
\* that are made (M), filled (I) and renamed (R), and the new tables (W).
Shape(tables, D, M, I, R, W) ==
    /\ DOMAIN tables = D \cup {StagedTable(s) : s \in M} \cup {To(s) : s \in R} \cup W
    /\ tables = [u \in DOMAIN tables |-> tables[u]]
    /\ \A s \in D : tables[s] = base[s]
    /\ \A s \in M : tables[StagedTable(s)] = IF s \in I THEN Copy(s) ELSE Blank(To(s))
    /\ \A s \in R : tables[To(s)] = Copy(s)
    /\ \A t \in W : tables[t] = Blank(t)

\* Temporary names are no names of a model.
LEMMA StagedNamesAreFree ==
    \A s, r \in Names : StagedTable(s) \notin Names /\ (StagedTable(s) = StagedTable(r) => s = r)
BY MaxNameAssumption DEF StagedTable, Names

\* A snapshot's table with its columns filled.
LEMMA FilledIsBlank ==
    ASSUME Ready, NEW t \in DOMAIN Target
    PROVE  /\ [Target[t] EXCEPT !.indexes = {}] = Target[t]
           /\ Filled([Target[t] EXCEPT !.indexes = {}], LAMBDA c : Nulls) = Blank(t)
<1> DEFINE table == Target[t]
<1>1. /\ table = [columns |-> table.columns, primary |-> table.primary, keys |-> table.keys,
                  primaryName |-> table.primaryName, indexes |-> table.indexes]
      /\ table.indexes = {}
  BY DEF Ready, IsSnapshot, IsTable
<1> HIDE DEF table
<1>2. [table EXCEPT !.indexes = {}] = table
  BY <1>1
<1>3. [table EXCEPT !.columns = [c \in DOMAIN @ |->
            [type |-> @[c].type, null |-> @[c].null, auto |-> @[c].auto, value |-> Nulls]]]
        = Holding(table, [c \in DOMAIN table.columns |-> Nulls])
  <2> DEFINE columns == [c \in DOMAIN table.columns |->
                            [type |-> table.columns[c].type, null |-> table.columns[c].null,
                             auto |-> table.columns[c].auto, value |-> Nulls]]
  <2>1. [c \in DOMAIN table.columns |->
            [type |-> table.columns[c].type, null |-> table.columns[c].null, auto |-> table.columns[c].auto,
             value |-> [n \in DOMAIN table.columns |-> Nulls][c]]] = columns
    OBVIOUS
  <2> HIDE DEF columns
  <2>2. [table EXCEPT !.columns = columns] =
            [columns |-> columns, primary |-> table.primary, keys |-> table.keys,
             primaryName |-> table.primaryName, indexes |-> table.indexes]
    BY <1>1
  <2>3. Holding(table, [c \in DOMAIN table.columns |-> Nulls]) =
            [columns |-> columns, primary |-> table.primary, keys |-> table.keys,
             primaryName |-> table.primaryName, indexes |-> table.indexes]
    BY <2>1, Zenon DEF Holding
  <2> QED BY <2>2, <2>3 DEF columns
<1>4. Filled(table, LAMBDA c : Nulls) = Holding(table, [c \in DOMAIN table.columns |-> Nulls])
  BY <1>3 DEF Filled
<1> QED BY <1>2, <1>4 DEF Blank, table

\* CREATE TABLE of a copy.
LEMMA CreateStagedStep ==
    ASSUME Ready, NEW D, NEW M, NEW I, NEW R, NEW W, Shape(db, D, M, I, R, W),
           D \subseteq DOMAIN Source, M \subseteq Rebuild, R \subseteq Rebuild, W \subseteq New,
           NEW s \in Rebuild, s \notin M, s \notin I
    PROVE  Accepts(CreateStaged(s)) /\ Shape(Effect(CreateStaged(s)), D, M \cup {s}, I, R, W)
<1> DEFINE x == StagedTable(s)
           q == CreateStaged(s)
           next == Effect(q)
<1>1. q.op = "create-table" /\ q.table = x /\ q.as = [Target[To(s)] EXCEPT !.indexes = {}]
  BY DEF CreateStaged, CreateTable
<1>2. /\ DOMAIN Source \subseteq Names /\ DOMAIN Target \subseteq Names /\ Rebuild \subseteq Names
      /\ New \subseteq Names /\ \A r \in Rebuild : To(r) \in Names /\ To(r) \in DOMAIN Target
  BY NamesAreApart
<1>3. x \notin Names /\ \A r \in M : StagedTable(r) # x /\ StagedTable(r) \notin Names
  BY <1>2, StagedNamesAreFree
<1>4. x \notin DOMAIN db
  BY <1>2, <1>3 DEF Shape
<1>5. Accepts(q)
  BY <1>1, <1>4, SqliteAccepts DEF Ready
<1>6. next = [y \in DOMAIN db \cup {x} |-> IF y = x THEN Blank(To(s)) ELSE db[y]]
  <2>1. next = Put(db, q.table, Filled(q.as, LAMBDA c : Nulls))
    BY <1>1, EffectOfTables, Zenon
  <2>2. Filled(q.as, LAMBDA c : Nulls) = Blank(To(s))
    BY <1>1, <1>2, FilledIsBlank, Zenon
  <2>3. next = Put(db, x, Blank(To(s)))
    BY <1>1, <2>1, <2>2, Zenon
  <2> QED BY <2>3, Zenon DEF Put
<1> HIDE DEF x, next
<1>7. DOMAIN next = D \cup {StagedTable(r) : r \in M \cup {s}} \cup {To(r) : r \in R} \cup W
  BY <1>6 DEF Shape, x
<1>8. next = [u \in DOMAIN next |-> next[u]]
  BY <1>6
<1>9. \A y \in DOMAIN db : next[y] = db[y]
  BY <1>4, <1>6
<1>10. next[x] = Blank(To(s))
  BY <1>6
<1>11. /\ \A r \in D : r \in DOMAIN db
       /\ \A r \in M : StagedTable(r) \in DOMAIN db
       /\ \A r \in R : To(r) \in DOMAIN db
       /\ \A t \in W : t \in DOMAIN db
  BY DEF Shape
<1>12. Shape(next, D, M \cup {s}, I, R, W)
  <2>1. \A r \in D : next[r] = base[r]
    BY <1>9, <1>11 DEF Shape
  <2>2. \A r \in M \cup {s} : next[StagedTable(r)] = IF r \in I THEN Copy(r) ELSE Blank(To(r))
    BY <1>9, <1>10, <1>11 DEF Shape, x
  <2>3. \A r \in R : next[To(r)] = Copy(r)
    BY <1>9, <1>11 DEF Shape
  <2>4. \A t \in W : next[t] = Blank(t)
    BY <1>9, <1>11 DEF Shape
  <2> QED BY <1>7, <1>8, <2>1, <2>2, <2>3, <2>4 DEF Shape
<1> QED BY <1>5, <1>12 DEF next

\* While all sources are there, expressions read what they held at the start.
LEMMA SourcesAreRead ==
    ASSUME Fits, DOMAIN Source \subseteq DOMAIN db, \A u \in DOMAIN Source : db[u] = base[u],
           NEW s, NEW values, \A i \in DOMAIN values : Reads(values[i])
    PROVE  Readable(values) /\ EvaluateAll(db, s, values) = EvaluateAll(base, s, values)
<1>1. Readable(values)
  <2>1. \A u \in DOMAIN Source : DOMAIN db[u].columns = DOMAIN Source[u].columns
    BY DEF Fits, Holding
  <2> QED BY <2>1 DEF Readable, Reads
<1>2. \A i \in DOMAIN values : Evaluate(db, s, values[i]) = Evaluate(base, s, values[i])
  BY DEF Evaluate, Reads
<1>3. [i \in DOMAIN values |-> Evaluate(db, s, values[i])] = [i \in DOMAIN values |-> Evaluate(base, s, values[i])]
  BY <1>2, Zenon
<1> QED BY <1>1, <1>3 DEF EvaluateAll

\* INSERT ... SELECT into a copy.
LEMMA InsertCopyStep ==
    ASSUME Ready, Fits, NEW D, NEW M, NEW I, NEW R, NEW W, Shape(db, D, M, I, R, W),
           D = DOMAIN Source, M \subseteq Rebuild, R = {}, W = {},
           NEW s \in M, s \notin I
    PROVE  Accepts(InsertCopy(s)) /\ Shape(Effect(InsertCopy(s)), D, M, I \cup {s}, R, W)
<1> DEFINE x == StagedTable(s)
           t == To(s)
           q == InsertCopy(s)
           next == Effect(q)
           columns == DOMAIN Target[t].columns
           sel(c) == Selected(s, Source[s], t, Target[t], c, Decisions)
<1>1. q.op = "insert" /\ q.table = s /\ q.into = x /\ q.values = [c \in columns |-> sel(c)]
  BY DEF InsertCopy
<1>2. /\ DOMAIN Source \subseteq Names /\ Rebuild \subseteq Names /\ s \in Rebuild /\ s \in DOMAIN Source
      /\ t \in DOMAIN Target
  BY NamesAreApart
<1>3. x \notin Names /\ \A r \in M : StagedTable(r) \notin Names /\ (StagedTable(r) = x => r = s)
  BY <1>2, StagedNamesAreFree
<1>4. /\ DOMAIN db = D \cup {StagedTable(r) : r \in M}
      /\ x \in DOMAIN db /\ s \in DOMAIN db /\ db[x] = Blank(t)
      /\ \A u \in DOMAIN Source : u \in DOMAIN db /\ db[u] = base[u]
  BY <1>2 DEF Shape
<1>5. ASSUME NEW c \in columns
      PROVE  /\ Readable(sel(c))
             /\ Target[t].columns[c].null \/ Target[t].columns[c].auto \/ ~EvaluateAll(db, s, sel(c)).nulls
             /\ (IF Target[t].columns[c].auto /\ sel(c) = <<>> THEN Serial ELSE EvaluateAll(db, s, sel(c)))
                    = Declared(t, c)
  <2>1. /\ \A i \in DOMAIN sel(c) : Reads(sel(c)[i])
        /\ Copied(s, c) = Declared(t, c)
        /\ Declared(t, c).nulls => Target[t].columns[c].null
    BY <1>2, CopiesAreDeclared
  <2>2. Readable(sel(c)) /\ EvaluateAll(db, s, sel(c)) = EvaluateAll(base, s, sel(c))
    BY <1>4, <2>1, SourcesAreRead
  <2>3. Copied(s, c) = IF Target[t].columns[c].auto /\ sel(c) = <<>> THEN Serial ELSE EvaluateAll(base, s, sel(c))
    BY DEF Copied
  <2> QED BY <2>1, <2>2, <2>3
<1> HIDE DEF sel
<1>6. /\ DOMAIN db[x].columns = columns
      /\ \A c \in columns : /\ db[x].columns[c].auto = Target[t].columns[c].auto
                            /\ db[x].columns[c].null = Target[t].columns[c].null
                            /\ db[x].columns[c].type = Target[t].columns[c].type
  <2> DEFINE blank == [c \in columns |-> [type |-> Target[t].columns[c].type, null |-> Target[t].columns[c].null,
                                          auto |-> Target[t].columns[c].auto,
                                          value |-> [k \in columns |-> Nulls][c]]]
  <2>1. db[x].columns = blank
    BY <1>4 DEF Blank, Holding
  <2> QED BY <2>1
<1>7. Accepts(q)
  <2>1. DOMAIN q.values = columns /\ \A c \in columns : q.values[c] = sel(c)
    BY <1>1
  <2>2. \A c \in DOMAIN q.values :
            /\ Readable(q.values[c])
            /\ \/ db[q.into].columns[c].null \/ db[q.into].columns[c].auto
               \/ ~EvaluateAll(db, q.table, q.values[c]).nulls
    BY <1>1, <1>5, <1>6, <2>1
  <2> QED BY <1>1, <1>4, <2>2, SqliteAccepts DEF Ready
<1>8. next = [db EXCEPT ![x] = Copy(s)]
  <2> DEFINE copy(c) == IF db[x].columns[c].auto /\ q.values[c] = <<>> THEN Serial
                        ELSE EvaluateAll(db, s, q.values[c])
             filled == [c \in DOMAIN db[x].columns |->
                            [type |-> db[x].columns[c].type, null |-> db[x].columns[c].null,
                             auto |-> db[x].columns[c].auto, value |-> copy(c)]]
  <2>2. next = [db EXCEPT ![x] = [db[x] EXCEPT !.columns = filled]]
    <3>1. next = [db EXCEPT ![q.into] =
            Filled(db[q.into], LAMBDA c : IF db[q.into].columns[c].auto /\ q.values[c] = <<>> THEN Serial
                                     ELSE EvaluateAll(db, q.table, q.values[c]))]
      BY <1>1, EffectOfTables, Zenon
    <3>2. next = [db EXCEPT ![q.into] = [db[q.into] EXCEPT !.columns = [c \in DOMAIN db[q.into].columns |->
                            [type |-> db[q.into].columns[c].type, null |-> db[q.into].columns[c].null,
                             auto |-> db[q.into].columns[c].auto,
                             value |-> IF db[q.into].columns[c].auto /\ q.values[c] = <<>> THEN Serial
                                       ELSE EvaluateAll(db, q.table, q.values[c])]]]]
      BY <3>1, Zenon DEF Filled
    <3> HIDE DEF next, q, x
    <3>3. q.into = x /\ q.table = s
      BY <1>1
    <3> QED BY <3>2, <3>3
  <2>3. \A c \in columns : copy(c) = Declared(t, c)
    BY <1>1, <1>5, <1>6
  <2> DEFINE declared == [c \in columns |-> Declared(t, c)]
  <2>4. filled = [c \in columns |->
                    [type |-> Target[t].columns[c].type, null |-> Target[t].columns[c].null,
                     auto |-> Target[t].columns[c].auto, value |-> declared[c]]]
    BY <1>6, <2>3
  <2> HIDE DEF filled, declared
  <2>5. [db[x] EXCEPT !.columns = filled] =
            [columns |-> filled, primary |-> Target[t].primary, keys |-> Target[t].keys,
             primaryName |-> Target[t].primaryName, indexes |-> Target[t].indexes]
    BY <1>4 DEF Blank, Holding
  <2>6. [db[x] EXCEPT !.columns = filled] = Holding(Target[t], declared)
    BY <2>4, <2>5, Zenon DEF Holding
  <2>7. Copy(s) = Holding(Target[t], declared)
    BY Zenon DEF Copy, declared
  <2> QED BY <2>2, <2>6, <2>7
<1> HIDE DEF x, next, q
<1>9. DOMAIN next = DOMAIN db /\ next = [u \in DOMAIN next |-> next[u]] /\ next[x] = Copy(s)
      /\ \A u \in DOMAIN db : u # x => next[u] = db[u]
  BY <1>4, <1>8 DEF Shape
<1>10. Shape(next, D, M, I \cup {s}, R, W)
  <2>1. \A r \in D : next[r] = base[r]
    BY <1>2, <1>3, <1>4, <1>9
  <2>2. \A r \in M : next[StagedTable(r)] = IF r \in I \cup {s} THEN Copy(r) ELSE Blank(To(r))
    BY <1>3, <1>4, <1>9 DEF Shape, x
  <2> QED BY <1>4, <1>9, <2>1, <2>2 DEF Shape
<1> QED BY <1>7, <1>10 DEF next, q

\* DROP TABLE of a source.
LEMMA DropSourceStep ==
    ASSUME Ready, NEW D, NEW M, NEW I, NEW R, NEW W, Shape(db, D, M, I, R, W),
           D \subseteq DOMAIN Source, M \subseteq Rebuild, R = {}, W = {}, NEW s \in D
    PROVE  Accepts(DropSource(s)) /\ Shape(Effect(DropSource(s)), D \ {s}, M, I, R, W)
<1> DEFINE q == DropSource(s)
           next == Effect(q)
<1>1. q.op = "drop-table" /\ q.table = s
  BY DEF DropSource
<1>2. DOMAIN Source \subseteq Names /\ Rebuild \subseteq Names
  BY NamesAreApart
<1>3. s \in Names /\ \A r \in M : StagedTable(r) # s
  BY <1>2, StagedNamesAreFree
<1>4. s \in DOMAIN db
  BY DEF Shape
<1>5. Accepts(q)
  BY <1>1, <1>4, SqliteAccepts DEF Ready
<1>6. next = [y \in DOMAIN db \ {s} |-> db[y]]
  BY <1>1, EffectOfTables, Zenon DEF Without
<1> HIDE DEF next, q
<1>7. DOMAIN next = DOMAIN db \ {s} /\ next = [u \in DOMAIN next |-> next[u]] /\ \A y \in DOMAIN next : next[y] = db[y]
  BY <1>6
<1>8. DOMAIN next = (D \ {s}) \cup {StagedTable(r) : r \in M} \cup {To(r) : r \in R} \cup W
  BY <1>3, <1>7 DEF Shape
<1>9. Shape(next, D \ {s}, M, I, R, W)
  <2>1. \A r \in D \ {s} : next[r] = base[r]
    BY <1>7, <1>8 DEF Shape
  <2>2. \A r \in M : next[StagedTable(r)] = IF r \in I THEN Copy(r) ELSE Blank(To(r))
    BY <1>7, <1>8 DEF Shape
  <2> QED BY <1>7, <1>8, <2>1, <2>2 DEF Shape
<1> QED BY <1>5, <1>9 DEF next, q

\* CREATE TABLE of a new table.
LEMMA CreateNewStep ==
    ASSUME Ready, NEW D, NEW M, NEW I, NEW R, NEW W, Shape(db, D, M, I, R, W),
           D \subseteq Stays, M = {}, R \subseteq Rebuild, W \subseteq New, NEW t \in New, t \notin W
    PROVE  Accepts(CreateNew(t)) /\ Shape(Effect(CreateNew(t)), D, M, I, R, W \cup {t})
<1> DEFINE q == CreateNew(t)
           next == Effect(q)
<1>1. q.op = "create-table" /\ q.table = t /\ q.as = [Target[t] EXCEPT !.indexes = {}]
  BY DEF CreateNew, CreateTable
<1>2. t \in DOMAIN Target /\ t \notin Stays /\ \A r \in Rebuild : To(r) # t
  BY NamesAreApart
<1>3. t \notin DOMAIN db
  BY <1>2 DEF Shape
<1>4. Accepts(q)
  BY <1>1, <1>3, SqliteAccepts DEF Ready
<1>5. next = [y \in DOMAIN db \cup {t} |-> IF y = t THEN Blank(t) ELSE db[y]]
  <2>1. next = Put(db, q.table, Filled(q.as, LAMBDA c : Nulls))
    BY <1>1, EffectOfTables, Zenon
  <2>2. Filled(q.as, LAMBDA c : Nulls) = Blank(t)
    BY <1>1, <1>2, FilledIsBlank, Zenon
  <2>3. next = Put(db, t, Blank(t))
    BY <1>1, <2>1, <2>2, Zenon
  <2> QED BY <2>3, Zenon DEF Put
<1> HIDE DEF next, q
<1>6. /\ DOMAIN next = DOMAIN db \cup {t} /\ next = [u \in DOMAIN next |-> next[u]] /\ next[t] = Blank(t)
      /\ \A y \in DOMAIN db : next[y] = db[y]
  BY <1>3, <1>5
<1>7. Shape(next, D, M, I, R, W \cup {t})
  <2>1. \A r \in D : next[r] = base[r]
    BY <1>6 DEF Shape
  <2>2. \A r \in R : next[To(r)] = Copy(r)
    BY <1>6 DEF Shape
  <2>3. \A u \in W \cup {t} : next[u] = Blank(u)
    BY <1>6 DEF Shape
  <2> QED BY <1>6, <2>1, <2>2, <2>3 DEF Shape
<1> QED BY <1>4, <1>7 DEF next, q

\* What ALTER TABLE ... RENAME TO does to a table's foreign keys.
Retargeted(h, x, y) ==
    [h EXCEPT !.keys = {[k EXCEPT !.target = IF k.target = x THEN y ELSE k.target] : k \in h.keys}]

\* No foreign key references a temporary name.
LEMMA RetargetKeeps ==
    ASSUME NEW t, NEW table, IsTable(t, table), NEW values, NEW h, h = Holding(table, values),
           NEW x, x \notin Names, NEW y
    PROVE  Retargeted(h, x, y) = h
<1>1. h.keys = table.keys /\ h = [columns |-> h.columns, primary |-> h.primary, keys |-> h.keys,
                                  primaryName |-> h.primaryName, indexes |-> h.indexes]
  BY DEF Holding
<1>2. ASSUME NEW k \in table.keys PROVE [k EXCEPT !.target = IF k.target = x THEN y ELSE k.target] = k
  <2>1. k = ForeignKey(t, k.columns, k.target, k.targets) /\ k.target \in Names
    BY DEF IsTable
  <2>2. k = [name |-> k.name, columns |-> k.columns, target |-> k.target, targets |-> k.targets]
    BY <2>1 DEF ForeignKey
  <2>3. k.target # x
    BY <2>1
  <2> QED BY <2>2, <2>3
<1>3. {[k EXCEPT !.target = IF k.target = x THEN y ELSE k.target] : k \in table.keys} = table.keys
  BY <1>2, Zenon
<1> DEFINE same == {[k EXCEPT !.target = IF k.target = x THEN y ELSE k.target] : k \in h.keys}
<1>4. same = h.keys
  BY <1>1, <1>3
<1> HIDE DEF same
<1>5. [h EXCEPT !.keys = same] = h
  BY <1>1, <1>4
<1> QED BY <1>5, Zenon DEF same, Retargeted

\* ALTER TABLE ... RENAME TO of a copy: it takes the name of its target, which is free.
LEMMA RenameCopyStep ==
    ASSUME Ready, Fits, NEW D, NEW M, NEW I, NEW R, NEW W, Shape(db, D, M, I, R, W),
           D \subseteq Stays, M \subseteq Rebuild, R \subseteq Rebuild, W = {},
           NEW s \in M, s \in I, s \notin R
    PROVE  Accepts(RenameCopy(s)) /\ Shape(Effect(RenameCopy(s)), D, M \ {s}, I, R \cup {s}, W)
<1> DEFINE x == StagedTable(s)
           t == To(s)
           q == RenameCopy(s)
           next == Effect(q)
<1>1. q.op = "rename-table" /\ q.table = x /\ q.to = t
  BY DEF RenameCopy
<1>2. /\ DOMAIN Source \subseteq Names /\ DOMAIN Target \subseteq Names /\ Rebuild \subseteq Names
      /\ Stays \subseteq DOMAIN Source /\ s \in Rebuild
      /\ t \notin Stays /\ \A r \in Rebuild : To(r) \in DOMAIN Target /\ (To(r) = t => r = s)
  BY NamesAreApart
<1>3. x \notin Names /\ \A r \in M : StagedTable(r) \notin Names /\ (StagedTable(r) = x => r = s)
  BY <1>2, StagedNamesAreFree
<1>4. t \in Names /\ t \in DOMAIN Target /\ x # t
  BY <1>2, <1>3
<1>5. /\ x \in DOMAIN db /\ db[x] = Copy(s)
      /\ DOMAIN db = D \cup {StagedTable(r) : r \in M} \cup {To(r) : r \in R}
  BY DEF Shape
<1>6. t \notin DOMAIN db
  BY <1>2, <1>3, <1>4, <1>5
<1>7. Accepts(q)
  BY <1>1, <1>5, <1>6, SqliteAccepts DEF Ready
<1> DEFINE moved == [y \in (DOMAIN db \ {x}) \cup {t} |-> IF y = t THEN db[x] ELSE db[y]]
<1>8. next = [u \in DOMAIN moved |->
                [moved[u] EXCEPT !.keys = {[k EXCEPT !.target = IF @ = x THEN t ELSE @] : k \in @}]]
  <2>1. Move(db, x, t) = moved
    BY Zenon DEF Move
  <2>2. next = [u \in DOMAIN Move(db, q.table, q.to) |->
                [Move(db, q.table, q.to)[u] EXCEPT !.keys =
                    {[k EXCEPT !.target = IF @ = q.table THEN q.to ELSE @] : k \in @}]]
    BY <1>1, EffectOfTables
  <2> HIDE DEF next, q, x, moved
  <2> QED BY <1>1, <2>1, <2>2
<1> HIDE DEF next, q, x
<1>9. /\ DOMAIN moved = (DOMAIN db \ {x}) \cup {t} /\ moved = [u \in DOMAIN moved |-> moved[u]]
      /\ moved[t] = Copy(s) /\ \A y \in DOMAIN db : y # x => moved[y] = db[y]
  BY <1>5, <1>6
<1> HIDE DEF moved
<1>10. ASSUME NEW u \in DOMAIN moved PROVE \E n, table, values : IsTable(n, table) /\ moved[u] = Holding(table, values)
  <2>1. CASE u = t
    BY <1>4, <1>9, <2>1 DEF Copy, Ready, IsSnapshot
  <2>2. CASE u \in D
    <3>1. moved[u] = base[u] /\ u \in DOMAIN Source
      BY <1>2, <1>3, <1>5, <1>9, <2>2 DEF Shape
    <3>2. IsTable(u, Source[u]) /\ base[u] = Holding(Source[u], Held(u))
      BY <3>1 DEF Fits, Ready, IsSnapshot
    <3> QED BY <3>1, <3>2
  <2>3. CASE u # x /\ u \in {StagedTable(r) : r \in M}
    <3>1. PICK r \in M : u = StagedTable(r)
      BY <2>3
    <3>2. moved[u] = IF r \in I THEN Copy(r) ELSE Blank(To(r))
      BY <1>5, <1>9, <2>3, <3>1 DEF Shape
    <3>3. IsTable(To(r), Target[To(r)])
      BY <1>2 DEF Ready, IsSnapshot
    <3>4. \E values : moved[u] = Holding(Target[To(r)], values)
      BY <3>2, Zenon DEF Copy, Blank
    <3> QED BY <3>3, <3>4
  <2>4. CASE u \in {To(r) : r \in R}
    <3>1. PICK r \in R : u = To(r)
      BY <2>4
    <3>2. u \in Names
      BY <1>2, <3>1
    <3>3. moved[u] = Copy(r)
      BY <1>3, <1>5, <1>9, <3>1, <3>2 DEF Shape
    <3>4. IsTable(To(r), Target[To(r)])
      BY <1>2 DEF Ready, IsSnapshot
    <3>5. \E values : moved[u] = Holding(Target[To(r)], values)
      BY <3>3, Zenon DEF Copy
    <3> QED BY <3>4, <3>5
  <2> QED BY <1>5, <1>9, <2>1, <2>2, <2>3, <2>4
<1>11. ASSUME NEW u \in DOMAIN moved
       PROVE  [moved[u] EXCEPT !.keys = {[k EXCEPT !.target = IF @ = x THEN t ELSE @] : k \in @}] = moved[u]
  <2>1. PICK n, table, values : IsTable(n, table) /\ moved[u] = Holding(table, values)
    BY <1>10
  <2> DEFINE h == moved[u]
  <2>2. h = Holding(table, values)
    BY <2>1
  <2> HIDE DEF h
  <2>3. Retargeted(h, x, t) = h
    BY <1>3, <2>1, <2>2, RetargetKeeps
  <2>4. [h EXCEPT !.keys = {[k EXCEPT !.target = IF @ = x THEN t ELSE @] : k \in @}] = h
    BY <2>3, Zenon DEF Retargeted
  <2> QED BY <2>4 DEF h
<1>12. next = moved
  BY <1>8, <1>9, <1>11, Zenon
<1>13. Shape(moved, D, M \ {s}, I, R \cup {s}, W)
  <2>1. DOMAIN moved = D \cup {StagedTable(r) : r \in M \ {s}} \cup {To(r) : r \in R \cup {s}} \cup W
    <3>1. \A r \in D : r # x
      BY <1>2, <1>3
    <3>2. \A r \in R : To(r) # x
      BY <1>2, <1>3
    <3>3. {StagedTable(r) : r \in M} \ {x} = {StagedTable(r) : r \in M \ {s}}
      BY <1>3 DEF x
    <3> QED BY <1>5, <1>9, <3>1, <3>2, <3>3
  <2>2. \A r \in D : moved[r] = base[r]
    BY <1>2, <1>3, <1>5, <1>9 DEF Shape
  <2>3. \A r \in M \ {s} : moved[StagedTable(r)] = IF r \in I THEN Copy(r) ELSE Blank(To(r))
    BY <1>3, <1>5, <1>9 DEF Shape
  <2>4. ASSUME NEW r \in R PROVE moved[To(r)] = Copy(r)
    <3>1. To(r) # x /\ To(r) \in DOMAIN db /\ db[To(r)] = Copy(r)
      BY <1>2, <1>3 DEF Shape
    <3> QED BY <1>9, <3>1
  <2> QED BY <1>9, <2>1, <2>2, <2>3, <2>4 DEF Shape
<1> QED BY <1>7, <1>12, <1>13 DEF next, q

-----------------------------------------------------------------------------
(* The script as a whole.                                                  *)

\* The place of a name in the order of canonicalize().
At(S, x) == CHOOSE i \in 1..Cardinality(S) : Sorted(S)[i] = x

\* It is the inverse of Sorted().
LEMMA PlacesInOrder ==
    ASSUME NEW S \in SUBSET Names
    PROVE  /\ Cardinality(S) \in Nat
           /\ \A x \in S : At(S, x) \in 1..Cardinality(S) /\ Sorted(S)[At(S, x)] = x
           /\ \A i \in 1..Cardinality(S) : Sorted(S)[i] \in S /\ At(S, Sorted(S)[i]) = i
<1> DEFINE n == Cardinality(S)
           s == Sorted(S)
<1>1. /\ n \in Nat /\ s \in [1..n -> S]
      /\ \A i, j \in 1..n : s[i] = s[j] => i = j
      /\ \A x \in S : \E i \in 1..n : s[i] = x
  BY SortedEnumerates
<1>2. \A x \in S : At(S, x) \in 1..n /\ s[At(S, x)] = x
  BY <1>1, Zenon DEF At
<1> HIDE DEF n, s
<1>3. ASSUME NEW i \in 1..n PROVE s[i] \in S /\ At(S, s[i]) = i
  <2>1. s[i] \in S
    BY <1>1
  <2>2. At(S, s[i]) \in 1..n /\ s[At(S, s[i])] = s[i]
    BY <1>2, <2>1
  <2> QED BY <1>1, <2>1, <2>2
<1> QED BY <1>1, <1>2, <1>3 DEF n, s

\* A table without indexes needs no statement for them.
LEMMA NoIndexes ==
    ASSUME NEW t, NEW table, table.indexes = {}, NEW x
    PROVE  <<x>> \o CreateIndexes(t, table) = <<x>>
<1>1. SetToSeq({}) \in [1..0 -> {}]
  <2>1. Cardinality({}) = 0
    BY FS_EmptySet
  <2> DEFINE f == [i \in 1..0 |-> 0]
  <2>2. f \in [1..0 -> {}]
    OBVIOUS
  <2>3. IsInjective(f)
    BY DEF IsInjective
  <2>4. SetToSeq({}) = CHOOSE g \in [1..0 -> {}] : IsInjective(g)
    BY <2>1, Zenon DEF SetToSeq
  <2> HIDE DEF f
  <2> QED BY <2>2, <2>3, <2>4, Zenon
<1>2. DOMAIN SetToSeq({}) = {}
  <2>1. 1..0 = {}
    OBVIOUS
  <2> QED BY <1>1, <2>1
<1>3. CreateIndexes(t, table)
        = [i \in DOMAIN SetToSeq({}) |-> [op |-> "create-index", table |-> t, index |-> SetToSeq({})[i]]]
  BY Zenon DEF CreateIndexes, EachOf
<1>4. CreateIndexes(t, table) = <<>>
  BY <1>2, <1>3
<1>5. <<x>> \in Seq({x})
  OBVIOUS
<1> QED BY <1>4, <1>5, ConcatEmptySeq

OfLength(T, n, q) == n \in Nat /\ q \in Seq(T) /\ Len(q) = n
Joins(T, n, m, q, r, z) ==
    OfLength(T, n + m, z) /\ (\A i \in 1..n : z[i] = q[i]) /\ (\A i \in 1..m : z[n + i] = r[i])

\* Where the elements of two sequences are after their concatenation.
LEMMA ConcatPlaces ==
    ASSUME NEW T, NEW q, NEW r, NEW n, NEW m, OfLength(T, n, q), OfLength(T, m, r)
    PROVE  Joins(T, n, m, q, r, q \o r)
<1>0. n \in Nat /\ m \in Nat /\ q \in Seq(T) /\ r \in Seq(T) /\ Len(q) = n /\ Len(r) = m
  BY DEF OfLength
<1>1. /\ q \o r \in Seq(T) /\ Len(q \o r) = Len(q) + Len(r)
      /\ \A i \in 1..(Len(q) + Len(r)) : (q \o r)[i] = IF i =< Len(q) THEN q[i] ELSE r[i - Len(q)]
  BY <1>0, ConcatProperties, Zenon
<1>2. \A i \in 1..(n + m) : (q \o r)[i] = IF i =< n THEN q[i] ELSE r[i - n]
  BY <1>0, <1>1, Zenon
<1>3. ASSUME NEW i \in 1..n PROVE (q \o r)[i] = q[i]
  BY <1>0, <1>2
<1>4. ASSUME NEW i \in 1..m PROVE (q \o r)[n + i] = r[i]
  <2>1. n + i \in 1..(n + m) /\ ~(n + i =< n) /\ (n + i) - n = i
    BY <1>0
  <2> QED BY <1>0, <1>2, <2>1
<1>5. OfLength(T, n + m, q \o r)
  BY <1>0, <1>1 DEF OfLength
<1> QED BY <1>3, <1>4, <1>5, Zenon DEF Joins

\* The statements of a script for SQLite, and how many there are of each kind.
Statements ==
    {CreateStaged(s) : s \in Rebuild} \cup {InsertCopy(s) : s \in Rebuild}
    \cup {DropSource(s) : s \in Rebuild \cup Gone} \cup {RenameCopy(s) : s \in Rebuild} \cup {CreateNew(t) : t \in New}
Copies == Cardinality(Rebuild)
Drops == Cardinality(Rebuild \cup Gone)
Creations == Cardinality(New)
Whole == sqliteSql(Source, Target, Decisions)

\* sqliteSql(): copies are made and filled, then sources are dropped, copies renamed
\* and new tables created.
LEMMA WholeScript ==
    ASSUME Ready
    PROVE  /\ Copies \in Nat /\ Drops \in Nat /\ Creations \in Nat
           /\ Whole \in Seq(Statements) /\ Len(Whole) = 3 * Copies + Drops + Creations
           /\ \A s \in Rebuild : /\ Whole[2 * At(Rebuild, s) - 1] = CreateStaged(s)
                                 /\ Whole[2 * At(Rebuild, s)] = InsertCopy(s)
                                 /\ Whole[2 * Copies + Drops + At(Rebuild, s)] = RenameCopy(s)
           /\ \A s \in Rebuild \cup Gone : Whole[2 * Copies + At(Rebuild \cup Gone, s)] = DropSource(s)
           /\ \A t \in New : Whole[3 * Copies + Drops + At(New, t)] = CreateNew(t)
<1> DEFINE S == Rebuild \cup Gone
           n == Copies
           m == Drops
           p == Creations
           a == Sorted(Rebuild)
           b == Sorted(S)
           w == Sorted(New)
           T == Statements
<1>1. Rebuild \in SUBSET Names /\ S \in SUBSET Names /\ New \in SUBSET Names
      /\ \A s \in Rebuild : To(s) \in DOMAIN Target
  BY NamesAreApart
<1>2. /\ n \in Nat /\ a \in [1..n -> Rebuild]
      /\ m \in Nat /\ b \in [1..m -> S]
      /\ p \in Nat /\ w \in [1..p -> New]
  BY <1>1, SortedEnumerates DEF Copies, Drops, Creations
<1>3. /\ \A x \in Rebuild : At(Rebuild, x) \in 1..n /\ a[At(Rebuild, x)] = x
      /\ \A x \in S : At(S, x) \in 1..m /\ b[At(S, x)] = x
      /\ \A x \in New : At(New, x) \in 1..p /\ w[At(New, x)] = x
  BY <1>1, PlacesInOrder DEF Copies, Drops, Creations
<1> DEFINE F1 == FlattenSeq([i \in 1..n |-> <<CreateStaged(a[i]), InsertCopy(a[i])>>])
           F2 == FlattenSeq([i \in 1..m |-> <<DropSource(b[i])>>])
           F3 == FlattenSeq([i \in 1..n |->
                    <<RenameCopy(a[i])>> \o CreateIndexes(To(a[i]), Target[To(a[i])])])
           F4 == FlattenSeq([i \in 1..p |-> <<CreateNew(w[i])>> \o CreateIndexes(w[i], Target[w[i]])])
<1>4. Whole = F1 \o F2 \o F3 \o F4
  BY DEF Whole, sqliteSql, Each, CreateStaged, InsertCopy, DropSource, RenameCopy, CreateNew,
         Rebuild, Gone, New, To, Copies, Drops, Creations
<1> HIDE DEF a, b, w, n, m, p, S
<1>5. \A t \in DOMAIN Target : Target[t].indexes = {}
  BY DEF Ready, IsSnapshot, IsTable
<1>6. F1 \in Seq(T) /\ Len(F1) = 2 * n
      /\ \A i \in 1..n : F1[2 * i - 1] = CreateStaged(a[i]) /\ F1[2 * i] = InsertCopy(a[i])
  <2> DEFINE e == [i \in 1..n |-> CreateStaged(a[i])]
             g == [i \in 1..n |-> InsertCopy(a[i])]
  <2>1. e \in [1..n -> T] /\ g \in [1..n -> T]
    BY <1>2 DEF Statements
  <2>2. /\ [i \in 1..n |-> <<CreateStaged(a[i]), InsertCopy(a[i])>>] = [i \in 1..n |-> <<e[i], g[i]>>]
        /\ \A i \in 1..n : e[i] = CreateStaged(a[i]) /\ g[i] = InsertCopy(a[i])
    OBVIOUS
  <2> DEFINE seqs == [i \in 1..n |-> <<e[i], g[i]>>]
  <2>3. F1 = FlattenSeq(seqs)
    BY <2>2, Zenon
  <2> HIDE DEF e, g, T
  <2>4. seqs \in [1..n -> Seq(T)] /\ \A i \in 1..n : seqs[i] = <<e[i], g[i]>>
    BY <2>1
  <2> HIDE DEF F1, seqs
  <2>5. /\ FlattenSeq(seqs) \in Seq(T) /\ Len(FlattenSeq(seqs)) = 2 * n
        /\ \A i \in 1..n : FlattenSeq(seqs)[2 * i - 1] = e[i] /\ FlattenSeq(seqs)[2 * i] = g[i]
    <3>1. Twos(T, n, e, g, seqs)
      BY <1>2, <2>1, <2>4 DEF Twos
    <3> QED BY <3>1, FlattenTwos DEF Interleaves
  <2> QED BY <2>2, <2>3, <2>5
<1>7. F2 \in [1..m -> T] /\ \A i \in 1..m : F2[i] = DropSource(b[i])
  <2> DEFINE e == [i \in 1..m |-> DropSource(b[i])]
  <2>1. e \in [1..m -> T]
    BY <1>2 DEF Statements, S
  <2>2. /\ [i \in 1..m |-> <<DropSource(b[i])>>] = [i \in 1..m |-> <<e[i]>>]
        /\ \A i \in 1..m : e[i] = DropSource(b[i])
    OBVIOUS
  <2> HIDE DEF e
  <2>3. F2 = e
    <3> DEFINE seqs == [i \in 1..m |-> <<e[i]>>]
    <3>1. F2 = FlattenSeq(seqs)
      BY <2>2, Zenon
    <3> HIDE DEF T
    <3>2. seqs \in [1..m -> Seq(T)] /\ \A i \in 1..m : seqs[i] = <<e[i]>>
      BY <2>1
    <3> HIDE DEF F2, seqs, T
    <3>3. FlattenSeq(seqs) = e
      BY <1>2, <2>1, <3>2, FlattenOnes
    <3> QED BY <3>1, <3>3
  <2> QED BY <2>1, <2>2, <2>3
<1>8. F3 \in [1..n -> T] /\ \A i \in 1..n : F3[i] = RenameCopy(a[i])
  <2> DEFINE e == [i \in 1..n |-> RenameCopy(a[i])]
  <2>1. e \in [1..n -> T]
    BY <1>2 DEF Statements
  <2>2. \A i \in 1..n : e[i] = RenameCopy(a[i])
    OBVIOUS
  <2>3. ASSUME NEW i \in 1..n PROVE <<RenameCopy(a[i])>> \o CreateIndexes(To(a[i]), Target[To(a[i])]) = <<e[i]>>
    <3>1. Target[To(a[i])].indexes = {}
      BY <1>1, <1>2, <1>5
    <3> QED BY <2>2, <3>1, NoIndexes
  <2> HIDE DEF e
  <2>4. [i \in 1..n |-> <<RenameCopy(a[i])>> \o CreateIndexes(To(a[i]), Target[To(a[i])])] = [i \in 1..n |-> <<e[i]>>]
    BY <2>3, Zenon
  <2>5. F3 = e
    <3> DEFINE seqs == [i \in 1..n |-> <<e[i]>>]
    <3>1. F3 = FlattenSeq(seqs)
      BY <2>4, Zenon
    <3> HIDE DEF T
    <3>2. seqs \in [1..n -> Seq(T)] /\ \A i \in 1..n : seqs[i] = <<e[i]>>
      BY <2>1
    <3> HIDE DEF F3, seqs, T
    <3>3. FlattenSeq(seqs) = e
      BY <1>2, <2>1, <3>2, FlattenOnes
    <3> QED BY <3>1, <3>3
  <2> QED BY <2>1, <2>2, <2>5
<1>9. F4 \in [1..p -> T] /\ \A i \in 1..p : F4[i] = CreateNew(w[i])
  <2> DEFINE e == [i \in 1..p |-> CreateNew(w[i])]
  <2>1. e \in [1..p -> T]
    BY <1>2 DEF Statements
  <2>2. \A i \in 1..p : e[i] = CreateNew(w[i])
    OBVIOUS
  <2>3. ASSUME NEW i \in 1..p PROVE <<CreateNew(w[i])>> \o CreateIndexes(w[i], Target[w[i]]) = <<e[i]>>
    <3>1. Target[w[i]].indexes = {}
      BY <1>2, <1>5 DEF New
    <3> QED BY <2>2, <3>1, NoIndexes
  <2> HIDE DEF e
  <2>4. [i \in 1..p |-> <<CreateNew(w[i])>> \o CreateIndexes(w[i], Target[w[i]])] = [i \in 1..p |-> <<e[i]>>]
    BY <2>3, Zenon
  <2>5. F4 = e
    <3> DEFINE seqs == [i \in 1..p |-> <<e[i]>>]
    <3>1. F4 = FlattenSeq(seqs)
      BY <2>4, Zenon
    <3> HIDE DEF T
    <3>2. seqs \in [1..p -> Seq(T)] /\ \A i \in 1..p : seqs[i] = <<e[i]>>
      BY <2>1
    <3> HIDE DEF F4, seqs, T
    <3>3. FlattenSeq(seqs) = e
      BY <1>2, <2>1, <3>2, FlattenOnes
    <3> QED BY <3>1, <3>3
  <2> QED BY <2>1, <2>2, <2>5
<1> HIDE DEF F1, F2, F3, F4, T
<1>10. F2 \in Seq(T) /\ Len(F2) = m /\ F3 \in Seq(T) /\ Len(F3) = n /\ F4 \in Seq(T) /\ Len(F4) = p
  BY <1>2, <1>7, <1>8, <1>9, FunctionIsSequence
<1> DEFINE G2 == F1 \o F2
           G3 == G2 \o F3
<1>11. /\ G2 \in Seq(T) /\ Len(G2) = 2 * n + m
       /\ \A i \in 1..(2 * n) : G2[i] = F1[i]
       /\ \A i \in 1..m : G2[2 * n + i] = F2[i]
  <2> DEFINE j == 2 * n
  <2>1. j \in Nat
    BY <1>2
  <2> HIDE DEF j
  <2>2. Len(F1) = j
    BY <1>6 DEF j
  <2>3. OfLength(T, j, F1) /\ OfLength(T, m, F2)
    BY <1>2, <1>6, <1>10, <2>1, <2>2 DEF OfLength
  <2>4. Joins(T, j, m, F1, F2, G2)
    BY <2>3, ConcatPlaces, Zenon
  <2> QED BY <2>4 DEF j, OfLength, Joins
<1> HIDE DEF G2
<1>12. /\ G3 \in Seq(T) /\ Len(G3) = 3 * n + m
       /\ \A i \in 1..(2 * n + m) : G3[i] = G2[i]
       /\ \A i \in 1..n : G3[2 * n + m + i] = F3[i]
  <2> DEFINE j == 2 * n + m
  <2>1. j \in Nat /\ j + n = 3 * n + m
    BY <1>2
  <2> HIDE DEF j
  <2>2. Len(G2) = j
    BY <1>11 DEF j
  <2>3. OfLength(T, j, G2) /\ OfLength(T, n, F3)
    BY <1>2, <1>10, <1>11, <2>1, <2>2 DEF OfLength
  <2>4. Joins(T, j, n, G2, F3, G3)
    BY <2>3, ConcatPlaces, Zenon
  <2> QED BY <2>1, <2>4 DEF j, OfLength, Joins
<1> HIDE DEF G3
<1>13. Whole = G3 \o F4
  BY <1>4 DEF G3, G2
<1>14. /\ Whole \in Seq(T) /\ Len(Whole) = 3 * n + m + p
       /\ \A i \in 1..(3 * n + m) : Whole[i] = G3[i]
       /\ \A i \in 1..p : Whole[3 * n + m + i] = F4[i]
  <2> DEFINE j == 3 * n + m
  <2>1. j \in Nat
    BY <1>2
  <2> HIDE DEF j
  <2>2. Len(G3) = j
    BY <1>12 DEF j
  <2>3. OfLength(T, j, G3) /\ OfLength(T, p, F4)
    BY <1>2, <1>10, <1>12, <2>1, <2>2 DEF OfLength
  <2>4. Joins(T, j, p, G3, F4, G3 \o F4)
    BY <2>3, ConcatPlaces, Zenon
  <2> QED BY <1>13, <2>4 DEF j, OfLength, Joins
<1>15. ASSUME NEW i \in 1..n
       PROVE  /\ Whole[2 * i - 1] = CreateStaged(a[i]) /\ Whole[2 * i] = InsertCopy(a[i])
              /\ Whole[2 * n + m + i] = RenameCopy(a[i])
  <2>1. /\ 2 * i - 1 \in 1..(2 * n) /\ 2 * i \in 1..(2 * n)
        /\ 2 * i - 1 \in 1..(2 * n + m) /\ 2 * i \in 1..(2 * n + m)
        /\ 2 * i - 1 \in 1..(3 * n + m) /\ 2 * i \in 1..(3 * n + m) /\ 2 * n + m + i \in 1..(3 * n + m)
    BY <1>2
  <2> QED BY <1>6, <1>8, <1>11, <1>12, <1>14, <2>1
<1>16. ASSUME NEW i \in 1..m PROVE Whole[2 * n + i] = DropSource(b[i])
  <2>1. 2 * n + i \in 1..(2 * n + m) /\ 2 * n + i \in 1..(3 * n + m)
    BY <1>2
  <2> QED BY <1>7, <1>11, <1>12, <1>14, <2>1
<1>17. \A i \in 1..p : Whole[3 * n + m + i] = CreateNew(w[i])
  BY <1>9, <1>14
<1>18. \A s \in Rebuild : /\ Whole[2 * At(Rebuild, s) - 1] = CreateStaged(s)
                          /\ Whole[2 * At(Rebuild, s)] = InsertCopy(s)
                          /\ Whole[2 * n + m + At(Rebuild, s)] = RenameCopy(s)
  BY <1>3, <1>15
<1>19. \A s \in S : Whole[2 * n + At(S, s)] = DropSource(s)
  BY <1>3, <1>16
<1>20. \A t \in New : Whole[3 * n + m + At(New, t)] = CreateNew(t)
  BY <1>3, <1>17
<1> QED BY <1>2, <1>14, <1>18, <1>19, <1>20, Zenon DEF n, m, p, S, T

\* Where a script is after k statements: the sources that are left, the copies that are
\* there under their temporary names, filled and renamed, and the new tables.
SourcesLeft(k) == {s \in DOMAIN Source : s \in Rebuild \cup Gone => k < 2 * Copies + At(Rebuild \cup Gone, s)}
CopiesMade(k) == {s \in Rebuild : 2 * At(Rebuild, s) - 1 =< k /\ k < 2 * Copies + Drops + At(Rebuild, s)}
CopiesFilled(k) == {s \in Rebuild : 2 * At(Rebuild, s) =< k}
CopiesRenamed(k) == {s \in Rebuild : 2 * Copies + Drops + At(Rebuild, s) =< k}
TablesCreated(k) == {t \in New : 3 * Copies + Drops + At(New, t) =< k}
ShapeAt(tables, k) ==
    Shape(tables, SourcesLeft(k), CopiesMade(k), CopiesFilled(k), CopiesRenamed(k), TablesCreated(k))

\* Which statement comes next.
LEMMA StatementsInOrder ==
    ASSUME Ready, NEW k \in Nat, k < Len(Whole)
    PROVE  \/ \E s \in Rebuild : k + 1 = 2 * At(Rebuild, s) - 1
           \/ \E s \in Rebuild : k + 1 = 2 * At(Rebuild, s)
           \/ \E s \in Rebuild \cup Gone : k + 1 = 2 * Copies + At(Rebuild \cup Gone, s)
           \/ \E s \in Rebuild : k + 1 = 2 * Copies + Drops + At(Rebuild, s)
           \/ \E t \in New : k + 1 = 3 * Copies + Drops + At(New, t)
<1> DEFINE S == Rebuild \cup Gone
           n == Copies
           m == Drops
           p == Creations
<1>1. n \in Nat /\ m \in Nat /\ p \in Nat /\ k < 3 * n + m + p
  BY WholeScript
<1>2. Rebuild \in SUBSET Names /\ S \in SUBSET Names /\ New \in SUBSET Names
  BY NamesAreApart
<1>3. /\ \A i \in 1..n : \E s \in Rebuild : At(Rebuild, s) = i
      /\ \A i \in 1..m : \E s \in S : At(S, s) = i
      /\ \A i \in 1..p : \E t \in New : At(New, t) = i
  BY <1>2, PlacesInOrder DEF Copies, Drops, Creations
<1> HIDE DEF n, m, p, S
<1>4. \/ \E i \in 1..n : k + 1 = 2 * i - 1 \/ k + 1 = 2 * i
      \/ \E i \in 1..m : k + 1 = 2 * n + i
      \/ \E i \in 1..n : k + 1 = 2 * n + m + i
      \/ \E i \in 1..p : k + 1 = 3 * n + m + i
  <2>1. CASE k < 2 * n
    <3> DEFINE i == (k + 2) \div 2
    <3>1. i \in 1..n /\ (k + 1 = 2 * i - 1 \/ k + 1 = 2 * i)
      BY <1>1, <2>1
    <3> QED BY <3>1
  <2>2. CASE 2 * n =< k /\ k < 2 * n + m
    <3> DEFINE i == k + 1 - 2 * n
    <3>1. i \in 1..m /\ k + 1 = 2 * n + i
      BY <1>1, <2>2
    <3> QED BY <3>1
  <2>3. CASE 2 * n + m =< k /\ k < 3 * n + m
    <3> DEFINE i == k + 1 - (2 * n + m)
    <3>1. i \in 1..n /\ k + 1 = 2 * n + m + i
      BY <1>1, <2>3
    <3> QED BY <3>1
  <2>4. CASE 3 * n + m =< k
    <3> DEFINE i == k + 1 - (3 * n + m)
    <3>1. i \in 1..p /\ k + 1 = 3 * n + m + i
      BY <1>1, <2>4
    <3> QED BY <3>1
  <2> QED BY <1>1, <2>1, <2>2, <2>3, <2>4
<1>5. CASE \E i \in 1..n : k + 1 = 2 * i - 1 \/ k + 1 = 2 * i
  <2>1. PICK i \in 1..n : k + 1 = 2 * i - 1 \/ k + 1 = 2 * i
    BY <1>5
  <2>2. PICK s \in Rebuild : At(Rebuild, s) = i
    BY <1>3
  <2> QED BY <2>1, <2>2
<1>6. CASE \E i \in 1..m : k + 1 = 2 * n + i
  <2>1. PICK i \in 1..m : k + 1 = 2 * n + i
    BY <1>6
  <2>2. PICK s \in S : At(S, s) = i
    BY <1>3
  <2>3. \E r \in S : k + 1 = 2 * n + At(S, r)
    BY <2>1, <2>2
  <2> QED BY <2>3, Zenon DEF n, S
<1>7. CASE \E i \in 1..n : k + 1 = 2 * n + m + i
  <2>1. PICK i \in 1..n : k + 1 = 2 * n + m + i
    BY <1>7
  <2>2. PICK s \in Rebuild : At(Rebuild, s) = i
    BY <1>3
  <2>3. \E r \in Rebuild : k + 1 = 2 * n + m + At(Rebuild, r)
    BY <2>1, <2>2
  <2> QED BY <2>3, Zenon DEF n, m
<1>8. CASE \E i \in 1..p : k + 1 = 3 * n + m + i
  <2>1. PICK i \in 1..p : k + 1 = 3 * n + m + i
    BY <1>8
  <2>2. PICK t \in New : At(New, t) = i
    BY <1>3
  <2>3. \E u \in New : k + 1 = 3 * n + m + At(New, u)
    BY <2>1, <2>2
  <2> QED BY <2>3, Zenon DEF n, m
<1> QED BY <1>4, <1>5, <1>6, <1>7, <1>8

\* What the next statement finds and leaves: it is executed, and the database is where
\* the script is.
LEMMA NextStatement ==
    ASSUME Ready, Fits, NEW k \in Nat, k < Len(Whole), ShapeAt(db, k)
    PROVE  Accepts(Whole[k + 1]) /\ ShapeAt(Effect(Whole[k + 1]), k + 1)
<1> DEFINE S == Rebuild \cup Gone
           n == Copies
           m == Drops
           D == SourcesLeft(k)
           M == CopiesMade(k)
           I == CopiesFilled(k)
           R == CopiesRenamed(k)
           W == TablesCreated(k)
<1>1. n \in Nat /\ m \in Nat
  BY WholeScript
<1>2. Rebuild \in SUBSET Names /\ S \in SUBSET Names /\ New \in SUBSET Names
  BY NamesAreApart
<1>3. /\ \A s \in Rebuild : At(Rebuild, s) \in 1..n
      /\ \A s \in S : At(S, s) \in 1..m
      /\ \A t \in New : At(New, t) \in Nat \ {0}
      /\ \A s, r \in Rebuild : At(Rebuild, s) = At(Rebuild, r) => s = r
      /\ \A s, r \in S : At(S, s) = At(S, r) => s = r
      /\ \A s, r \in New : At(New, s) = At(New, r) => s = r
  <2>1. /\ \A s \in Rebuild : At(Rebuild, s) \in 1..n /\ Sorted(Rebuild)[At(Rebuild, s)] = s
        /\ \A s \in S : At(S, s) \in 1..m /\ Sorted(S)[At(S, s)] = s
        /\ \A t \in New : At(New, t) \in 1..Creations /\ Sorted(New)[At(New, t)] = t
        /\ Creations \in Nat
    BY <1>2, PlacesInOrder DEF Copies, Drops, Creations
  <2> HIDE DEF S, n, m
  <2> QED BY <2>1
<1>4. Shape(db, D, M, I, R, W)
  BY DEF ShapeAt
<1>5. /\ D \subseteq DOMAIN Source /\ M \subseteq Rebuild /\ R \subseteq Rebuild /\ W \subseteq New
      /\ Rebuild \subseteq DOMAIN Source /\ S \subseteq DOMAIN Source /\ Stays = DOMAIN Source \ S
  BY NamesAreApart DEF SourcesLeft, CopiesMade, CopiesRenamed, TablesCreated, Stays
<1> DEFINE D2 == SourcesLeft(k + 1)
           M2 == CopiesMade(k + 1)
           I2 == CopiesFilled(k + 1)
           R2 == CopiesRenamed(k + 1)
           W2 == TablesCreated(k + 1)
<1>6. /\ D = {s \in DOMAIN Source : s \in S => k < 2 * n + At(S, s)}
      /\ D2 = {s \in DOMAIN Source : s \in S => k + 1 < 2 * n + At(S, s)}
      /\ M = {s \in Rebuild : 2 * At(Rebuild, s) - 1 =< k /\ k < 2 * n + m + At(Rebuild, s)}
      /\ M2 = {s \in Rebuild : 2 * At(Rebuild, s) - 1 =< k + 1 /\ k + 1 < 2 * n + m + At(Rebuild, s)}
      /\ I = {s \in Rebuild : 2 * At(Rebuild, s) =< k}
      /\ I2 = {s \in Rebuild : 2 * At(Rebuild, s) =< k + 1}
      /\ R = {s \in Rebuild : 2 * n + m + At(Rebuild, s) =< k}
      /\ R2 = {s \in Rebuild : 2 * n + m + At(Rebuild, s) =< k + 1}
      /\ W = {t \in New : 3 * n + m + At(New, t) =< k}
      /\ W2 = {t \in New : 3 * n + m + At(New, t) =< k + 1}
  BY Zenon DEF SourcesLeft, CopiesMade, CopiesFilled, CopiesRenamed, TablesCreated
<1> SUFFICES Accepts(Whole[k + 1]) /\ Shape(Effect(Whole[k + 1]), D2, M2, I2, R2, W2)
  BY DEF ShapeAt
<1> HIDE DEF S, n, m, D, M, I, R, W, D2, M2, I2, R2, W2
<1>7. ASSUME NEW s \in Rebuild, k + 1 = 2 * At(Rebuild, s) - 1
      PROVE  Accepts(Whole[k + 1]) /\ Shape(Effect(Whole[k + 1]), D2, M2, I2, R2, W2)
  <2>1. Whole[k + 1] = CreateStaged(s)
    BY <1>7, WholeScript
  <2>2. s \notin M /\ s \notin I
    BY <1>3, <1>6, <1>7
  <2>3. k + 1 =< 2 * n
    BY <1>1, <1>3, <1>7
  <2>4. M2 = M \cup {s}
    BY <1>1, <1>3, <1>6, <1>7, <2>3
  <2>5. D2 = D /\ R2 = R /\ W2 = W
    BY <1>1, <1>3, <1>6, <2>3
  <2>6. I2 = I
    BY <1>1, <1>3, <1>6, <1>7
  <2>7. Accepts(CreateStaged(s)) /\ Shape(Effect(CreateStaged(s)), D, M \cup {s}, I, R, W)
    BY <1>4, <1>5, <2>2, CreateStagedStep
  <2> QED BY <2>1, <2>4, <2>5, <2>6, <2>7
<1>8. ASSUME NEW s \in Rebuild, k + 1 = 2 * At(Rebuild, s)
      PROVE  Accepts(Whole[k + 1]) /\ Shape(Effect(Whole[k + 1]), D2, M2, I2, R2, W2)
  <2>1. Whole[k + 1] = InsertCopy(s)
    BY <1>8, WholeScript
  <2>2. k + 1 =< 2 * n
    BY <1>1, <1>3, <1>8
  <2>3. s \in M /\ s \notin I
    BY <1>1, <1>3, <1>6, <1>8
  <2>4. D = DOMAIN Source /\ R = {} /\ W = {}
    <3>1. \A u \in S : k < 2 * n + At(S, u)
      BY <1>1, <1>3, <2>2
    <3>2. D = DOMAIN Source
      BY <1>6, <3>1
    <3>3. R = {} /\ W = {}
      BY <1>1, <1>3, <1>6, <2>2
    <3> QED BY <3>2, <3>3
  <2>5. D2 = D /\ R2 = R /\ W2 = W
    BY <1>1, <1>3, <1>6, <2>2
  <2>6. M2 = M
    BY <1>1, <1>3, <1>6, <1>8, <2>2
  <2>7. I2 = I \cup {s}
    BY <1>1, <1>3, <1>6, <1>8
  <2>8. Accepts(InsertCopy(s)) /\ Shape(Effect(InsertCopy(s)), D, M, I \cup {s}, R, W)
    BY <1>4, <1>5, <2>3, <2>4, InsertCopyStep
  <2> QED BY <2>1, <2>5, <2>6, <2>7, <2>8
<1>9. ASSUME NEW s \in S, k + 1 = 2 * n + At(S, s)
      PROVE  Accepts(Whole[k + 1]) /\ Shape(Effect(Whole[k + 1]), D2, M2, I2, R2, W2)
  <2>1. Whole[k + 1] = DropSource(s)
    BY <1>9, WholeScript DEF S, n
  <2>2. 2 * n < k + 1 /\ k + 1 =< 2 * n + m
    BY <1>1, <1>3, <1>9
  <2>3. s \in D
    BY <1>1, <1>3, <1>5, <1>6, <1>9
  <2>4. R = {} /\ W = {}
    BY <1>1, <1>3, <1>6, <2>2
  <2>5. R2 = R /\ W2 = W /\ M2 = M /\ I2 = I
    BY <1>1, <1>3, <1>6, <2>2
  <2>6. D2 = D \ {s}
    BY <1>1, <1>3, <1>6, <1>9
  <2>7. Accepts(DropSource(s)) /\ Shape(Effect(DropSource(s)), D \ {s}, M, I, R, W)
    BY <1>4, <1>5, <2>3, <2>4, DropSourceStep
  <2> QED BY <2>1, <2>5, <2>6, <2>7
<1>10. ASSUME NEW s \in Rebuild, k + 1 = 2 * n + m + At(Rebuild, s)
      PROVE  Accepts(Whole[k + 1]) /\ Shape(Effect(Whole[k + 1]), D2, M2, I2, R2, W2)
  <2>1. Whole[k + 1] = RenameCopy(s)
    BY <1>10, WholeScript DEF n, m
  <2>2. 2 * n + m < k + 1 /\ k + 1 =< 3 * n + m
    BY <1>1, <1>3, <1>10
  <2>3. s \in M /\ s \in I /\ s \notin R
    BY <1>1, <1>3, <1>6, <1>10
  <2>4. D \subseteq Stays /\ W = {}
    BY <1>1, <1>3, <1>5, <1>6, <2>2
  <2>5. D2 = D /\ I2 = I /\ W2 = W
    BY <1>1, <1>3, <1>6, <2>2
  <2>6. M2 = M \ {s}
    BY <1>1, <1>3, <1>6, <1>10, <2>2
  <2>7. R2 = R \cup {s}
    BY <1>1, <1>3, <1>6, <1>10
  <2>8. Accepts(RenameCopy(s)) /\ Shape(Effect(RenameCopy(s)), D, M \ {s}, I, R \cup {s}, W)
    BY <1>4, <1>5, <2>3, <2>4, RenameCopyStep
  <2> QED BY <2>1, <2>5, <2>6, <2>7, <2>8
<1>11. ASSUME NEW t \in New, k + 1 = 3 * n + m + At(New, t)
      PROVE  Accepts(Whole[k + 1]) /\ Shape(Effect(Whole[k + 1]), D2, M2, I2, R2, W2)
  <2>1. Whole[k + 1] = CreateNew(t)
    BY <1>11, WholeScript DEF n, m
  <2>2. 3 * n + m < k + 1
    BY <1>1, <1>3, <1>11
  <2>3. t \notin W
    BY <1>1, <1>3, <1>6, <1>11
  <2>4. D \subseteq Stays /\ M = {}
    BY <1>1, <1>3, <1>5, <1>6, <2>2
  <2>5. D2 = D /\ I2 = I /\ M2 = M /\ R2 = R
    BY <1>1, <1>3, <1>6, <2>2
  <2>6. W2 = W \cup {t}
    BY <1>1, <1>3, <1>6, <1>11
  <2>7. Accepts(CreateNew(t)) /\ Shape(Effect(CreateNew(t)), D, M, I, R, W \cup {t})
    BY <1>4, <1>5, <2>3, <2>4, CreateNewStep
  <2> QED BY <2>1, <2>5, <2>6, <2>7
<1> QED BY <1>7, <1>8, <1>9, <1>10, <1>11, StatementsInOrder DEF S, n, m

\* Before the first statement the database is the one the script is started on.
LEMMA ShapeAtStart ==
    ASSUME Ready, Fits
    PROVE  ShapeAt(base, 0)
<1> DEFINE S == Rebuild \cup Gone
<1>1. Rebuild \in SUBSET Names /\ S \in SUBSET Names /\ New \in SUBSET Names /\ Copies \in Nat /\ Drops \in Nat
  BY NamesAreApart, WholeScript
<1>2. /\ \A s \in Rebuild : At(Rebuild, s) \in 1..Copies
      /\ \A s \in S : At(S, s) \in 1..Drops
      /\ \A t \in New : At(New, t) \in 1..Creations
  BY <1>1, PlacesInOrder DEF Copies, Drops, Creations
<1>3. SourcesLeft(0) = DOMAIN Source
  <2>1. SourcesLeft(0) = {s \in DOMAIN Source : s \in S => 0 < 2 * Copies + At(S, s)}
    BY Zenon DEF SourcesLeft
  <2> HIDE DEF S
  <2>2. \A s \in S : 0 < 2 * Copies + At(S, s)
    BY <1>1, <1>2
  <2> QED BY <2>1, <2>2
<1>4. CopiesMade(0) = {}
  BY <1>1, <1>2 DEF CopiesMade
<1>5. CopiesRenamed(0) = {}
  BY <1>1, <1>2 DEF CopiesRenamed
<1>6. TablesCreated(0) = {}
  BY <1>1, <1>2 DEF TablesCreated
<1>7. /\ DOMAIN base = DOMAIN Source \cup {StagedTable(s) : s \in {}} \cup {To(s) : s \in {}} \cup {}
      /\ base = [u \in DOMAIN base |-> base[u]]
  BY DEF Fits
<1> QED BY <1>3, <1>4, <1>5, <1>6, <1>7, Zenon DEF ShapeAt, Shape

\* After the last one, every table of the target is there: rebuilt, new or as it was.
LEMMA ShapeAtEnd ==
    ASSUME Ready, NEW tables, ShapeAt(tables, Len(Whole))
    PROVE  Shape(tables, Stays, {}, Rebuild, Rebuild, New)
<1> DEFINE S == Rebuild \cup Gone
           k == Len(Whole)
<1>1. /\ Rebuild \in SUBSET Names /\ S \in SUBSET Names /\ New \in SUBSET Names
      /\ Copies \in Nat /\ Drops \in Nat /\ Creations \in Nat /\ k = 3 * Copies + Drops + Creations
  BY NamesAreApart, WholeScript
<1>2. /\ \A s \in Rebuild : At(Rebuild, s) \in 1..Copies
      /\ \A s \in S : At(S, s) \in 1..Drops
      /\ \A t \in New : At(New, t) \in 1..Creations
  BY <1>1, PlacesInOrder DEF Copies, Drops, Creations
<1> HIDE DEF k
<1>3. SourcesLeft(k) = Stays
  <2>1. /\ SourcesLeft(k) = {s \in DOMAIN Source : s \in S => k < 2 * Copies + At(S, s)}
        /\ Stays = DOMAIN Source \ S
    BY Zenon DEF SourcesLeft, Stays
  <2> HIDE DEF S
  <2>2. \A s \in S : ~(k < 2 * Copies + At(S, s))
    BY <1>1, <1>2
  <2> QED BY <2>1, <2>2
<1>4. CopiesMade(k) = {}
  BY <1>1, <1>2 DEF CopiesMade
<1>5. CopiesFilled(k) = Rebuild
  BY <1>1, <1>2 DEF CopiesFilled
<1>6. CopiesRenamed(k) = Rebuild
  BY <1>1, <1>2 DEF CopiesRenamed
<1>7. TablesCreated(k) = New
  BY <1>1, <1>2 DEF TablesCreated
<1> QED BY <1>3, <1>4, <1>5, <1>6, <1>7, Zenon DEF ShapeAt, k

-----------------------------------------------------------------------------
(* The database at its end.                                                *)

\* The definition of one table of the database.
Defined(h) ==
    [h EXCEPT !.columns = [c \in DOMAIN @ |-> [type |-> @[c].type, null |-> @[c].null, auto |-> @[c].auto]]]

\* A table of the database with the definition of a snapshot's and the given values.
Holds(table, values, h) ==
    /\ DOMAIN h.columns = DOMAIN table.columns
    /\ \A c \in DOMAIN table.columns :
        /\ h.columns[c].value = values[c]
        /\ h.columns[c].type = table.columns[c].type
        /\ h.columns[c].null = table.columns[c].null
        /\ h.columns[c].auto = table.columns[c].auto
    /\ h = Holding(table, [c \in DOMAIN table.columns |-> h.columns[c].value])
    /\ Defined(h) = table

\* It is what Holding() makes.
LEMMA HoldingKeepsDefinition ==
    ASSUME NEW t, NEW table, IsTable(t, table), NEW values
    PROVE  Holds(table, values, Holding(table, values))
<1> DEFINE h == Holding(table, values)
<1> DEFINE columns == [c \in DOMAIN table.columns |->
                        [type |-> table.columns[c].type, null |-> table.columns[c].null,
                         auto |-> table.columns[c].auto, value |-> values[c]]]
<1>1. h = [columns |-> columns, primary |-> table.primary, keys |-> table.keys,
           primaryName |-> table.primaryName, indexes |-> table.indexes]
  BY DEF Holding
<1>2. /\ DOMAIN columns = DOMAIN table.columns
      /\ \A c \in DOMAIN table.columns :
            /\ columns[c].value = values[c] /\ columns[c].type = table.columns[c].type
            /\ columns[c].null = table.columns[c].null /\ columns[c].auto = table.columns[c].auto
  OBVIOUS
<1>3. columns = [c \in DOMAIN table.columns |->
                    [type |-> table.columns[c].type, null |-> table.columns[c].null,
                     auto |-> table.columns[c].auto, value |-> [d \in DOMAIN table.columns |-> columns[d].value][c]]]
  OBVIOUS
<1> HIDE DEF columns, h
<1>4. h.columns = columns
  BY <1>1
<1>5. h = Holding(table, [c \in DOMAIN table.columns |-> columns[c].value])
  BY <1>1, <1>3, Zenon DEF Holding, h
<1>6. Defined(h) = table
  <2> DEFINE plain == [c \in DOMAIN columns |-> [type |-> columns[c].type, null |-> columns[c].null,
                                                 auto |-> columns[c].auto]]
  <2>1. table.columns \in [DOMAIN table.columns -> ColumnDefinition]
        /\ table = [columns |-> table.columns, primary |-> table.primary, keys |-> table.keys,
                    primaryName |-> table.primaryName, indexes |-> table.indexes]
    BY DEF IsTable
  <2>2. \A c \in DOMAIN table.columns :
            table.columns[c] = [type |-> table.columns[c].type, null |-> table.columns[c].null,
                                auto |-> table.columns[c].auto]
    BY <2>1 DEF ColumnDefinition
  <2>3. plain = [c \in DOMAIN table.columns |-> table.columns[c]]
    <3>1. \A c \in DOMAIN table.columns :
            [type |-> columns[c].type, null |-> columns[c].null, auto |-> columns[c].auto] = table.columns[c]
      BY <1>2, <2>2
    <3> QED BY <1>2, <3>1
  <2>4. plain = table.columns
    BY <2>1, <2>3
  <2>5. Defined(h) = [h EXCEPT !.columns = plain]
    BY <1>4 DEF Defined
  <2> HIDE DEF plain
  <2>6. [h EXCEPT !.columns = plain] =
            [columns |-> plain, primary |-> table.primary, keys |-> table.keys,
             primaryName |-> table.primaryName, indexes |-> table.indexes]
    BY <1>1
  <2> QED BY <2>1, <2>4, <2>5, <2>6
<1>7. h = Holding(table, [c \in DOMAIN table.columns |-> h.columns[c].value])
  BY <1>4, <1>5
<1>8. Holds(table, values, h)
  BY <1>2, <1>4, <1>6, <1>7 DEF Holds
<1> QED BY <1>8 DEF h

\* The database at the end of a script.
Arrived == Shape(db, Stays, {}, Rebuild, Rebuild, New)

\* Its tables are those of the target: rebuilt ones hold what is declared, the others
\* what they held, new ones nothing.
LEMMA ArrivedTables ==
    ASSUME Ready, Fits, Arrived
    PROVE  /\ DOMAIN db = DOMAIN Target /\ db = [u \in DOMAIN db |-> db[u]]
           /\ \A s \in Rebuild : db[To(s)] = Copy(s)
           /\ \A s \in Stays : db[s] = base[s] /\ base[s] = Holding(Target[s], Held(s))
           /\ \A t \in New : db[t] = Blank(t)
           /\ \A t \in DOMAIN Target : \E values : db[t] = Holding(Target[t], values)
<1>1. /\ DOMAIN db = Stays \cup {StagedTable(s) : s \in {}} \cup {To(s) : s \in Rebuild} \cup New
      /\ db = [u \in DOMAIN db |-> db[u]]
      /\ \A s \in Stays : db[s] = base[s]
      /\ \A s \in Rebuild : db[To(s)] = Copy(s)
      /\ \A t \in New : db[t] = Blank(t)
  BY Zenon DEF Arrived, Shape
<1>2. /\ New \subseteq DOMAIN Target
      /\ \A s \in Rebuild : To(s) \in DOMAIN Target
      /\ \A t \in DOMAIN Target : t \in Stays \/ t \in New \/ \E s \in Rebuild : To(s) = t
  BY NamesAreApart
<1>3. ASSUME NEW s \in Stays PROVE s \in DOMAIN Target /\ base[s] = Holding(Target[s], Held(s))
  <2>1. s \in DOMAIN Source /\ s \in DOMAIN Target /\ Source[s] = Target[s]
    BY UnchangedKeepsName, UnchangedIsSame
  <2> QED BY <2>1 DEF Fits
<1>4. DOMAIN db = DOMAIN Target
  BY <1>1, <1>2, <1>3
<1>5. ASSUME NEW t \in DOMAIN Target PROVE \E values : db[t] = Holding(Target[t], values)
  <2>1. CASE t \in Stays
    BY <1>1, <1>3, <2>1
  <2>2. CASE t \in New
    BY <1>1, <2>2 DEF Blank
  <2>3. ASSUME NEW s \in Rebuild, To(s) = t PROVE \E values : db[t] = Holding(Target[t], values)
    BY <1>1, <2>3 DEF Copy
  <2> QED BY <1>2, <2>1, <2>2, <2>3
<1> QED BY <1>1, <1>3, <1>4, <1>5

\* Where a table of the target comes from.
LEMMA SourceOfTable ==
    ASSUME Ready, NEW t \in DOMAIN Target, NEW s, s = matchingSource(Source, t, Decisions), s # 0
    PROVE  /\ s \in DOMAIN Source /\ To(s) = t
           /\ t \in changedTables(Source, Target, Decisions) => s \in Rebuild
           /\ t \notin changedTables(Source, Target, Decisions) => s \in Stays /\ s = t
<1>1. s \in DOMAIN Source /\ To(s) = t
  BY DEF matchingSource, To
<1>2. s \notin Gone
  BY <1>1 DEF Gone
<1>3. t \in changedTables(Source, Target, Decisions) => s \in Rebuild
  BY <1>1, <1>2 DEF Rebuild
<1>4. t \notin changedTables(Source, Target, Decisions) => s \in Stays
  BY <1>1, <1>2 DEF Stays, Rebuild
<1> QED BY <1>1, <1>3, <1>4, UnchangedKeepsName

\* The schema is the target and its columns hold what is declared.
LEMMA ArrivedAsDeclared ==
    ASSUME Ready, Fits, Arrived
    PROVE  MigratedAsDeclared
<1>1. Definition(db) = Target
  <2>1. DOMAIN db = DOMAIN Target /\ \A t \in DOMAIN Target : \E values : db[t] = Holding(Target[t], values)
    BY ArrivedTables
  <2>2. Definition(db) = [t \in DOMAIN db |-> Defined(db[t])]
    BY Zenon DEF Definition, Defined
  <2>3. ASSUME NEW t \in DOMAIN Target PROVE Defined(db[t]) = Target[t]
    <3>1. IsTable(t, Target[t])
      BY DEF Ready, IsSnapshot
    <3>2. PICK values : db[t] = Holding(Target[t], values)
      BY <2>1
    <3>3. Holds(Target[t], values, db[t])
      BY <3>1, <3>2, HoldingKeepsDefinition
    <3> QED BY <3>3 DEF Holds
  <2>4. Target = [t \in DOMAIN Target |-> Target[t]]
    BY DEF Ready, IsSnapshot
  <2> QED BY <2>1, <2>2, <2>3, <2>4, Zenon
<1>2. ASSUME NEW t \in DOMAIN Target, NEW s, s = matchingSource(Source, t, Decisions), s # 0
      PROVE  IF t \in changedTables(Source, Target, Decisions)
             THEN \A c \in DOMAIN Target[t].columns : db[t].columns[c].value = Declared(t, c)
             ELSE db[t] = base[s]
  <2>1. CASE t \in changedTables(Source, Target, Decisions)
    <3>1. s \in Rebuild /\ To(s) = t
      BY <1>2, <2>1, SourceOfTable
    <3>2. db[t] = Holding(Target[t], [c \in DOMAIN Target[t].columns |-> Declared(t, c)])
      BY <3>1, ArrivedTables DEF Copy
    <3>3. IsTable(t, Target[t])
      BY DEF Ready, IsSnapshot
    <3> DEFINE values == [c \in DOMAIN Target[t].columns |-> Declared(t, c)]
    <3>4. \A c \in DOMAIN Target[t].columns : values[c] = Declared(t, c)
      OBVIOUS
    <3> HIDE DEF values
    <3>5. Holds(Target[t], values, db[t])
      BY <3>2, <3>3, HoldingKeepsDefinition DEF values
    <3> QED BY <2>1, <3>4, <3>5 DEF Holds
  <2>2. CASE t \notin changedTables(Source, Target, Decisions)
    <3>1. s \in Stays /\ s = t
      BY <1>2, <2>2, SourceOfTable
    <3>2. db[s] = base[s]
      BY <3>1, ArrivedTables
    <3> QED BY <2>2, <3>1, <3>2
  <2> QED BY <2>1, <2>2
<1> QED BY <1>1, <1>2, Zenon DEF MigratedAsDeclared

\* A table that was created has no counterpart on the way back.
LEMMA NewTablesEnd ==
    ASSUME NEW before, NEW after, NEW d, validateRenames(before, after, d),
           validateRenames(after, before, inverseDecisions(d)), 0 \notin DOMAIN before,
           NEW t \in DOMAIN after, matchingSource(before, t, d) = 0
    PROVE  targetTable(t, inverseDecisions(d)) \notin DOMAIN before
<1> DEFINE e == inverseDecisions(d)
<1>0. e.tables = {[from |-> r.to, to |-> r.from] : r \in d.tables}
  BY DEF inverseDecisions
<1>1. /\ \A r \in d.tables : \E x \in e.tables : x.from = r.to /\ x.to = r.from
      /\ \A x \in e.tables : \E r \in d.tables : x.from = r.to /\ x.to = r.from
  <2> HIDE DEF e
  <2>1. ASSUME NEW r \in d.tables PROVE \E x \in e.tables : x.from = r.to /\ x.to = r.from
    <3>1. [from |-> r.to, to |-> r.from] \in e.tables
      BY <1>0
    <3> QED BY <3>1
  <2>2. ASSUME NEW x \in e.tables PROVE \E r \in d.tables : x.from = r.to /\ x.to = r.from
    BY <1>0
  <2> QED BY <2>1, <2>2
<1>2. /\ \A r, q \in d.tables : r # q => r.from # q.from /\ r.to # q.to
      /\ \A r \in d.tables : r.from \in DOMAIN before
      /\ \A x \in e.tables : x.to \in DOMAIN after => \E q \in e.tables : q.from = x.to
  <2>0. \A r \in d.tables : r.from \in DOMAIN before /\ \A q \in d.tables \ {r} : q.from # r.from /\ q.to # r.to
    BY Zenon DEF validateRenames
  <2>1. /\ \A r, q \in d.tables : r # q => r.from # q.from /\ r.to # q.to
        /\ \A r \in d.tables : r.from \in DOMAIN before
    BY <2>0
  <2> HIDE DEF e
  <2>2. validateRenames(after, before, e)
    BY DEF e
  <2>3. \A x \in e.tables : x.to \in DOMAIN after => \E q \in e.tables : q.from = x.to
    BY <2>2, Zenon DEF validateRenames
  <2> QED BY <2>1, <2>3
<1> HIDE DEF e
<1>3. \A s \in DOMAIN before : sourceTable(t, d) = s => targetTable(s, d) # t
  BY DEF matchingSource
<1>4. ASSUME NEW r \in d.tables, r.to = t PROVE FALSE
  <2>1. sourceTable(t, d) = r.from
    BY <1>2, <1>4, TableLookup
  <2>2. targetTable(r.from, d) = r.to
    BY <1>2, TableLookup
  <2> QED BY <1>2, <1>3, <1>4, <2>1, <2>2
<1>5. sourceTable(t, d) = t
  BY <1>4, TableLookup
<1>6. targetTable(t, e) = t
  BY <1>1, <1>4, TableLookup
<1>7. ASSUME t \in DOMAIN before PROVE FALSE
  <2>1. targetTable(t, d) # t
    BY <1>3, <1>5, <1>7
  <2>2. PICK r \in d.tables : r.from = t
    BY <2>1, TableLookup
  <2>3. PICK x \in e.tables : x.to = t
    BY <1>1, <2>2
  <2>4. PICK q \in e.tables : q.from = t
    BY <1>2, <2>3
  <2> QED BY <1>1, <1>4, <2>4
<1> QED BY <1>6, <1>7 DEF e

\* The database at the end of the way up is one the way down can be started on.
LEMMA ArrivedFitsWayDown ==
    ASSUME Ready, Fits, Arrived, validateRenames(Target, Source, inverseDecisions(Decisions))
    PROVE  /\ DOMAIN db = DOMAIN Target
           /\ db = [u \in DOMAIN db |-> db[u]]
           /\ \A u \in DOMAIN Target :
                db[u] = Holding(Target[u], [c \in DOMAIN Target[u].columns |-> db[u].columns[c].value])
           /\ \A u \in DOMAIN Target : \A c \in DOMAIN Target[u].columns : db[u].columns[c].value \in ColumnValue
           /\ \A u \in DOMAIN Target : targetTable(u, inverseDecisions(Decisions)) \in DOMAIN Source =>
                \A c \in DOMAIN Target[u].columns : db[u].columns[c].value.nulls => Target[u].columns[c].null
<1>1. DOMAIN db = DOMAIN Target /\ db = [u \in DOMAIN db |-> db[u]]
  BY ArrivedTables
<1>2. ASSUME NEW u \in DOMAIN Target
      PROVE  /\ db[u] = Holding(Target[u], [c \in DOMAIN Target[u].columns |-> db[u].columns[c].value])
             /\ \A c \in DOMAIN Target[u].columns : db[u].columns[c].value \in ColumnValue
             /\ targetTable(u, inverseDecisions(Decisions)) \in DOMAIN Source =>
                  \A c \in DOMAIN Target[u].columns : db[u].columns[c].value.nulls => Target[u].columns[c].null
  <2>1. IsTable(u, Target[u])
    BY DEF Ready, IsSnapshot
  <2>2. u \in Stays \/ u \in New \/ \E s \in Rebuild : To(s) = u
    BY NamesAreApart
  <2>3. CASE u \in Stays
    <3>1. /\ u \in DOMAIN Source /\ Source[u] = Target[u] /\ To(u) \in DOMAIN Target
      BY <2>3, UnchangedKeepsName, UnchangedIsSame
    <3>2. db[u] = base[u] /\ base[u] = Holding(Target[u], Held(u))
      BY <2>3, ArrivedTables
    <3>3. Holds(Target[u], Held(u), db[u])
      BY <2>1, <3>2, HoldingKeepsDefinition
    <3>4. \A c \in DOMAIN Source[u].columns :
            /\ base[u].columns[c].value \in ColumnValue
            /\ base[u].columns[c].value.nulls => Source[u].columns[c].null
      BY <3>1 DEF Fits
    <3> QED BY <3>1, <3>2, <3>3, <3>4 DEF Holds
  <2>4. CASE u \in New
    <3> DEFINE values == [c \in DOMAIN Target[u].columns |-> Nulls]
    <3>1. \A c \in DOMAIN Target[u].columns : values[c] \in ColumnValue
      BY DEF Nulls, ColumnValue
    <3> HIDE DEF values
    <3>2. db[u] = Holding(Target[u], values)
      BY <2>4, ArrivedTables DEF Blank, values
    <3>3. Holds(Target[u], values, db[u])
      BY <2>1, <3>2, HoldingKeepsDefinition
    <3>4. targetTable(u, inverseDecisions(Decisions)) \notin DOMAIN Source
      <4>1. validateRenames(Source, Target, Decisions) /\ 0 \notin DOMAIN Source
        BY NamesAreNumbers DEF Ready, resolved, IsSnapshot
      <4>2. matchingSource(Source, u, Decisions) = 0
        BY <2>4 DEF New
      <4> QED BY <4>1, <4>2, NewTablesEnd
    <3> QED BY <3>1, <3>3, <3>4 DEF Holds
  <2>5. ASSUME NEW s \in Rebuild, To(s) = u
        PROVE  /\ db[u] = Holding(Target[u], [c \in DOMAIN Target[u].columns |-> db[u].columns[c].value])
               /\ \A c \in DOMAIN Target[u].columns :
                    /\ db[u].columns[c].value \in ColumnValue
                    /\ db[u].columns[c].value.nulls => Target[u].columns[c].null
    <3> DEFINE values == [c \in DOMAIN Target[u].columns |-> Declared(u, c)]
    <3>1. ASSUME NEW c \in DOMAIN Target[u].columns
          PROVE  values[c] \in ColumnValue /\ (values[c].nulls => Target[u].columns[c].null)
      <4>1. Declared(u, c) \in ColumnValue /\ (Declared(u, c).nulls => Target[u].columns[c].null)
        BY <2>5, CopiesAreDeclared
      <4> QED BY <4>1
    <3> HIDE DEF values
    <3>2. db[u] = Holding(Target[u], values)
      BY <2>5, ArrivedTables DEF Copy, values
    <3>3. Holds(Target[u], values, db[u])
      BY <2>1, <3>2, HoldingKeepsDefinition
    <3> QED BY <3>1, <3>3 DEF Holds
  <2> QED BY <2>2, <2>3, <2>4, <2>5
<1> QED BY <1>1, <1>2, Zenon

\* A table without a change keeps the names of its columns.
LEMMA UnchangedKeepsColumns ==
    ASSUME Ready, NEW s \in Stays, NEW o \in DOMAIN Source[s].columns
    PROVE  targetColumn(s, o, Decisions) = o
<1> DEFINE source == Source[s]
           target == Target[s]
           d == Decisions
           to(c) == targetColumn(s, c, d)
           kept == {c \in DOMAIN source.columns : to(c) \in DOMAIN target.columns}
<1>1. compareTables(s, source, s, target, d) = {}
  BY UnchangedKeepsName
<1> HIDE DEF source, target, d
<1>2. /\ {Change("drop-column", s, c, TRUE, FALSE) : c \in DOMAIN source.columns \ kept} = {}
      /\ {Change("rename-column", s, c, FALSE, FALSE) : c \in {c \in kept : to(c) # c}} = {}
  BY <1>1, Zenon DEF compareTables
<1>3. o \in kept
  BY <1>2 DEF source
<1>4. to(o) = o
  BY <1>2, <1>3
<1> QED BY <1>4 DEF d

\* Terms that begin with others.
Continues(old, new) == old \in Seq(Nat \X Nat) /\ \E more \in Seq(Nat \X Nat) : new = old \o more

\* A column that is not converted begins, at the end of a script, with what the column
\* it comes from held.
LEMMA ArrivedKeeps ==
    ASSUME Ready, Fits, Arrived, NEW s \in DOMAIN Source, NEW t, t = To(s), t \in DOMAIN Target,
           NEW o \in DOMAIN Source[s].columns, NEW c, c = targetColumn(t, o, Decisions),
           c \in DOMAIN Target[t].columns, ~Converts(t, c, Decisions)
    PROVE  /\ c \in DOMAIN db[t].columns
           /\ db[t].columns[c].type = Target[t].columns[c].type
           /\ Continues(base[s].columns[o].value.terms, db[t].columns[c].value.terms)
<1> DEFINE old == base[s].columns[o].value
           backfill == Decisions.backfills[<<t, c>>]
<1>1. IsTable(t, Target[t]) /\ IsTable(s, Source[s])
  BY DEF Ready, IsSnapshot
<1>2. old \in ColumnValue
  BY DEF Fits
<1>3. old.terms \in Seq(Nat \X Nat) /\ <<>> \in Seq(Nat \X Nat) /\ old.terms = old.terms \o <<>>
  <2>1. old.terms \in Seq(Nat \X Nat)
    BY <1>2 DEF ColumnValue
  <2> HIDE DEF old
  <2> QED BY <2>1, ConcatEmptySeq
<1>4. matchingSource(Source, t, Decisions) = s /\ matchingSourceColumn(Source[s], t, c, Decisions) = o
  BY RenamesAreOneToOne DEF Ready, resolved, OneToOne, To
<1>5. CASE t \notin changedTables(Source, Target, Decisions)
  <2>1. s \in Stays
    BY <1>5 DEF Stays, Rebuild, Gone
  <2>2. t = s /\ c = o
    BY <2>1, UnchangedKeepsName, UnchangedKeepsColumns
  <2>3. db[s] = base[s] /\ base[s] = Holding(Target[s], Held(s))
    BY <2>1, ArrivedTables
  <2>4. Holds(Target[t], Held(s), db[t])
    BY <1>1, <2>2, <2>3, HoldingKeepsDefinition
  <2>5. c \in DOMAIN db[t].columns /\ db[t].columns[c].type = Target[t].columns[c].type
    BY <2>4 DEF Holds
  <2>6. db[t].columns[c].value = old
    BY <2>2, <2>3
  <2>7. Continues(old.terms, old.terms)
    <3> HIDE DEF old
    <3> QED BY <1>3 DEF Continues
  <2> QED BY <2>5, <2>6, <2>7
<1>6. CASE t \in changedTables(Source, Target, Decisions)
  <2>1. s \in Rebuild
    BY <1>6 DEF Rebuild, Gone
  <2> DEFINE values == [k \in DOMAIN Target[t].columns |-> Declared(t, k)]
  <2>2. values[c] = Declared(t, c)
    OBVIOUS
  <2> HIDE DEF values
  <2>3. db[t] = Holding(Target[t], values)
    BY <2>1, ArrivedTables DEF Copy, values
  <2>4. Holds(Target[t], values, db[t])
    BY <1>1, <2>3, HoldingKeepsDefinition
  <2>5. /\ c \in DOMAIN db[t].columns /\ db[t].columns[c].type = Target[t].columns[c].type
        /\ db[t].columns[c].value = Declared(t, c)
    BY <2>2, <2>4 DEF Holds
  <2>6. o # 0
    BY <1>1, NamesAreNumbers DEF IsTable
  <2>7. Declared(t, c) = IF Tightens(Source[s], t, Target[t], c, Decisions)
                         THEN Coalesce(<<old, Evaluate(base, s, backfill)>>) ELSE old
    BY <1>4, <2>6, Zenon DEF Declared
  <2>8. CASE ~Tightens(Source[s], t, Target[t], c, Decisions)
    <3>1. Continues(old.terms, old.terms)
      <4> HIDE DEF old
      <4> QED BY <1>3 DEF Continues
    <3> QED BY <2>5, <2>7, <2>8, <3>1
  <2>9. CASE Tightens(Source[s], t, Target[t], c, Decisions)
    <3>1. Fills(t, c, Decisions)
      BY <2>9 DEF Tightens
    <3>2. Reads(backfill)
      BY <2>1, <3>1, TransformationsRead
    <3> DEFINE filling == Evaluate(base, s, backfill)
    <3>3. filling \in ColumnValue
      BY <3>2, EvaluateYields
    <3>4. filling.terms \in Seq(Nat \X Nat)
      BY <3>3 DEF ColumnValue
    <3>5. Declared(t, c) = Coalesce(<<old, filling>>)
      BY <2>7, <2>9
    <3> HIDE DEF old, filling
    <3>6. Coalesce(<<old, filling>>) = [terms |-> old.terms \o filling.terms, nulls |-> old.nulls /\ filling.nulls]
      BY <1>2, <3>3, CoalesceFew
    <3> DEFINE terms == old.terms \o filling.terms
               nulls == old.nulls /\ filling.nulls
    <3>7. Declared(t, c) = [terms |-> terms, nulls |-> nulls]
      BY <3>5, <3>6, Zenon
    <3> HIDE DEF nulls, terms
    <3>8. Declared(t, c).terms = terms
      BY <3>7
    <3>9. Continues(old.terms, terms)
      BY <1>3, <3>4 DEF Continues, terms
    <3> QED BY <2>5, <3>8, <3>9 DEF old
  <2> QED BY <2>8, <2>9
<1> QED BY <1>5, <1>6

\* Without an approval, every column goes somewhere.
LEMMA ArrivedWithoutLoss ==
    ASSUME Ready, Fits, Arrived
    PROVE  NothingLostSilently
<1> SUFFICES ASSUME ~Decisions.approved, NEW s \in DOMAIN base, NEW o \in DOMAIN base[s].columns
             PROVE  LET old == base[s].columns[o]
                        t == targetTable(s, Decisions)
                    IN  \/ t \in DOMAIN db /\ \E c \in DOMAIN db[t].columns :
                            /\ IsPrefix(old.value.terms, db[t].columns[c].value.terms)
                            /\ safeTypeChange(old, db[t].columns[c])
                        \/ Converts(t, targetColumn(t, o, Decisions), Decisions)
  BY Zenon DEF NothingLostSilently
<1> DEFINE t == To(s)
           c == targetColumn(t, o, Decisions)
           old == base[s].columns[o]
<1>1. s \in DOMAIN Source /\ IsTable(s, Source[s]) /\ base[s] = Holding(Source[s], Held(s))
  BY DEF Ready, IsSnapshot, Fits
<1>2. Holds(Source[s], Held(s), base[s])
  BY <1>1, HoldingKeepsDefinition
<1>3. o \in DOMAIN Source[s].columns /\ old.type = Source[s].columns[o].type
  BY <1>2 DEF Holds
<1>4. /\ t \in DOMAIN Target /\ c \in DOMAIN Target[t].columns
      /\ safeTypeChange(Source[s].columns[o], Target[t].columns[c])
  BY <1>1, <1>3, UnapprovedIsKept DEF Kept, Ready, To
<1>5. CASE Converts(t, c, Decisions)
  BY <1>5 DEF To
<1>6. CASE ~Converts(t, c, Decisions)
  <2>1. /\ c \in DOMAIN db[t].columns /\ db[t].columns[c].type = Target[t].columns[c].type
        /\ Continues(old.value.terms, db[t].columns[c].value.terms)
    <3>1. t = To(s) /\ c = targetColumn(t, o, Decisions)
      OBVIOUS
    <3> HIDE DEF t, c
    <3> QED BY <1>1, <1>3, <1>4, <1>6, <3>1, ArrivedKeeps
  <2>2. t \in DOMAIN db
    BY <1>4, ArrivedTables
  <2>3. safeTypeChange(old, db[t].columns[c])
    BY <1>3, <1>4, <2>1 DEF safeTypeChange
  <2>4. IsPrefix(old.value.terms, db[t].columns[c].value.terms)
    <3>1. PICK more \in Seq(Nat \X Nat) : db[t].columns[c].value.terms = old.value.terms \o more
      BY <2>1 DEF Continues
    <3>2. old.value.terms \in Seq(Nat \X Nat)
      BY <2>1 DEF Continues
    <3> HIDE DEF old, t, c
    <3> QED BY <3>1, <3>2, PrefixOfConcat
  <2> QED BY <2>1, <2>2, <2>3, <2>4 DEF To
<1> QED BY <1>5, <1>6

-----------------------------------------------------------------------------
(* The scripts that are executed on SQLite.                                *)

\* What a step within a script leaves alone.
LEMMA ScriptFrame ==
    ASSUME input' = input, direction' = direction, base' = base
    PROVE  /\ Source' = Source /\ Target' = Target /\ Decisions' = Decisions
           /\ Rebuild' = Rebuild /\ Gone' = Gone /\ New' = New /\ Stays' = Stays
           /\ Copies' = Copies /\ Drops' = Drops /\ Creations' = Creations /\ Whole' = Whole
           /\ \A s : To(s)' = To(s) /\ Copy(s)' = Copy(s) /\ Blank(s)' = Blank(s)
           /\ \A k : /\ SourcesLeft(k)' = SourcesLeft(k) /\ CopiesMade(k)' = CopiesMade(k)
                     /\ CopiesFilled(k)' = CopiesFilled(k) /\ CopiesRenamed(k)' = CopiesRenamed(k)
                     /\ TablesCreated(k)' = TablesCreated(k)
           /\ Ready' = Ready /\ Fits' = Fits /\ Statements' = Statements
<1>1. Source' = Source /\ Target' = Target /\ Decisions' = Decisions
  BY DEF Source, Target, Decisions
<1>2. \A s : To(s)' = To(s)
  BY <1>1 DEF To
<1>3. Gone' = Gone
  BY <1>1, <1>2 DEF Gone
<1>4. Rebuild' = Rebuild
  BY <1>1, <1>2, <1>3 DEF Rebuild
<1>5. Stays' = Stays
  BY <1>1, <1>3, <1>4 DEF Stays
<1>6. New' = New
  BY <1>1 DEF New
<1>7. Copies' = Copies /\ Drops' = Drops /\ Creations' = Creations /\ Whole' = Whole
  BY <1>1, <1>3, <1>4, <1>6 DEF Copies, Drops, Creations, Whole
<1>8. \A t, c : Declared(t, c)' = Declared(t, c)
  BY <1>1 DEF Declared
<1>9. \A s : Copy(s)' = Copy(s) /\ Blank(s)' = Blank(s)
  BY <1>1, <1>2, <1>8 DEF Copy, Blank
<1>10. \A k : /\ SourcesLeft(k)' = SourcesLeft(k) /\ CopiesMade(k)' = CopiesMade(k)
              /\ CopiesFilled(k)' = CopiesFilled(k) /\ CopiesRenamed(k)' = CopiesRenamed(k)
              /\ TablesCreated(k)' = TablesCreated(k)
  BY <1>1, <1>3, <1>4, <1>6, <1>7 DEF SourcesLeft, CopiesMade, CopiesFilled, CopiesRenamed, TablesCreated
<1>11. Ready' = Ready
  BY <1>1 DEF Ready
<1>12. Fits' = Fits
  BY <1>1, <1>2 DEF Fits, Held
<1>13. \A s : /\ CreateStaged(s)' = CreateStaged(s) /\ InsertCopy(s)' = InsertCopy(s)
              /\ RenameCopy(s)' = RenameCopy(s) /\ CreateNew(s)' = CreateNew(s)
  BY <1>1, <1>2 DEF CreateStaged, InsertCopy, RenameCopy, CreateNew
<1>14. Statements' = Statements
  BY <1>3, <1>4, <1>6, <1>13 DEF Statements, DropSource
<1> QED BY <1>1, <1>2, <1>3, <1>4, <1>5, <1>6, <1>7, <1>9, <1>10, <1>11, <1>12, <1>14

\* The shape of the database after a step is that of the value it is given.
LEMMA ShapeCarries ==
    ASSUME input' = input, direction' = direction, base' = base, NEW k, ShapeAt(db', k)
    PROVE  ShapeAt(db, k)'
BY ScriptFrame DEF ShapeAt, Shape

\* capture() keeps the tables and the columns expressions read.
LEMMA CaptureKeepsExpressions ==
    ASSUME NEW backend, NEW schema, NEW d, ExpressionsRead(schema, d)
    PROVE  ExpressionsRead(capture(backend, schema), d)
<1> DEFINE captured == capture(backend, schema)
<1>1. /\ DOMAIN captured = DOMAIN schema
      /\ \A t \in DOMAIN schema : captured[t].columns = schema[t].columns
  BY DEF capture, physicalTable
<1> HIDE DEF captured
<1>2. \A t : matchingSource(captured, t, d) = matchingSource(schema, t, d)
  BY <1>1 DEF matchingSource
<1>3. ExpressionsRead(captured, d)
  BY <1>1, <1>2 DEF ExpressionsRead
<1> QED BY <1>3 DEF captured

\* The first database: every column holds itself.
LEMMA InstalledHolds ==
    ASSUME NEW schema, IsSnapshot(schema), NEW tables, tables = Installed(schema)
    PROVE  /\ DOMAIN tables = DOMAIN schema /\ tables = [u \in DOMAIN tables |-> tables[u]]
           /\ \A u \in DOMAIN schema :
                Holds(schema[u], [c \in DOMAIN schema[u].columns |->
                                    [terms |-> <<<<u, c>>>>, nulls |-> schema[u].columns[c].null]], tables[u])
<1>1. DOMAIN tables = DOMAIN schema /\ tables = [u \in DOMAIN tables |-> tables[u]]
  BY DEF Installed
<1>2. ASSUME NEW u \in DOMAIN schema
      PROVE  Holds(schema[u], [c \in DOMAIN schema[u].columns |->
                                [terms |-> <<<<u, c>>>>, nulls |-> schema[u].columns[c].null]], tables[u])
  <2> DEFINE table == schema[u]
             value(c) == [terms |-> <<<<u, c>>>>, nulls |-> schema[u].columns[c].null]
             values == [c \in DOMAIN table.columns |-> value(c)]
  <2>1. IsTable(u, table)
    BY DEF IsSnapshot
  <2>2. tables[u] = [table EXCEPT !.columns = [c \in DOMAIN @ |->
                        [type |-> @[c].type, null |-> @[c].null, auto |-> @[c].auto, value |-> value(c)]]]
    BY DEF Installed, Filled
  <2> DEFINE columns == [c \in DOMAIN table.columns |->
                            [type |-> table.columns[c].type, null |-> table.columns[c].null,
                             auto |-> table.columns[c].auto, value |-> value(c)]]
  <2>3. columns = [c \in DOMAIN table.columns |->
                    [type |-> table.columns[c].type, null |-> table.columns[c].null,
                     auto |-> table.columns[c].auto, value |-> values[c]]]
    OBVIOUS
  <2>4. tables[u] = [table EXCEPT !.columns = columns]
    BY <2>2
  <2>5. table = [columns |-> table.columns, primary |-> table.primary, keys |-> table.keys,
                 primaryName |-> table.primaryName, indexes |-> table.indexes]
    BY <2>1 DEF IsTable
  <2> HIDE DEF columns, table
  <2>6. tables[u] = [columns |-> columns, primary |-> table.primary, keys |-> table.keys,
                     primaryName |-> table.primaryName, indexes |-> table.indexes]
    BY <2>4, <2>5
  <2> HIDE DEF values
  <2>7. tables[u] = Holding(table, values)
    BY <2>3, <2>6, Zenon DEF Holding
  <2>8. Holds(table, values, tables[u])
    BY <2>1, <2>7, HoldingKeepsDefinition
  <2> QED BY <2>8 DEF table, values
<1> QED BY <1>1, <1>2

\* A script can be started on it.
LEMMA InstalledFits ==
    ASSUME IsSnapshot(Source), base = Installed(Source)
    PROVE  /\ Fits
           /\ \A s \in DOMAIN Source : \A o \in DOMAIN Source[s].columns :
                base[s].columns[o].value.terms = <<<<s, o>>>>
<1>1. DOMAIN base = DOMAIN Source /\ base = [u \in DOMAIN base |-> base[u]]
  BY InstalledHolds
<1>2. ASSUME NEW u \in DOMAIN Source
      PROVE  /\ base[u] = Holding(Source[u], Held(u))
             /\ \A c \in DOMAIN Source[u].columns :
                    /\ base[u].columns[c].value \in ColumnValue
                    /\ base[u].columns[c].value.nulls => Source[u].columns[c].null
                    /\ base[u].columns[c].value.terms = <<<<u, c>>>>
  <2> DEFINE values == [c \in DOMAIN Source[u].columns |->
                            [terms |-> <<<<u, c>>>>, nulls |-> Source[u].columns[c].null]]
  <2>1. \A c \in DOMAIN Source[u].columns :
            values[c].terms = <<<<u, c>>>> /\ values[c].nulls = Source[u].columns[c].null
    OBVIOUS
  <2>2. u \in Nat /\ \A c \in DOMAIN Source[u].columns : c \in Nat /\ Source[u].columns[c].null \in BOOLEAN
    BY NamesAreNumbers DEF IsSnapshot, IsTable, ColumnDefinition
  <2>3. \A c \in DOMAIN Source[u].columns : values[c] \in ColumnValue
    BY <2>2 DEF ColumnValue
  <2>4. Holds(Source[u], values, base[u])
    BY InstalledHolds
  <2> HIDE DEF values
  <2>5. base[u] = Holding(Source[u], Held(u))
    BY <2>4, Zenon DEF Holds, Held
  <2>6. \A c \in DOMAIN Source[u].columns : base[u].columns[c].value = values[c]
    BY <2>4, Zenon DEF Holds
  <2>7. \A c \in DOMAIN Source[u].columns : values[c].nulls => Source[u].columns[c].null
    BY <2>1
  <2> QED BY <2>1, <2>3, <2>5, <2>6, <2>7, Zenon
<1> QED BY <1>1, <1>2, Zenon DEF Fits

\* A script of which k statements have been executed.
OnTheWay(k) ==
    /\ k \in Nat /\ k =< Len(Whole)
    /\ script \in Seq(Statements) /\ Len(script) = Len(Whole) - k
    /\ \A i \in 1..Len(script) : script[i] = Whole[k + i]
    /\ ShapeAt(db, k)

\* The way down is started where the columns still begin with what they held at first.
Carried ==
    \A s \in DOMAIN Target : \A o \in DOMAIN Target[s].columns :
        LET t == targetTable(s, input.decisions)
            c == targetColumn(t, o, input.decisions)
        IN  /\ t \in DOMAIN Source
            /\ \/ c \notin DOMAIN Source[t].columns \/ Converts(t, c, input.decisions)
               \/ IsPrefix(<<<<s, o>>>>, base[t].columns[c].value.terms)

\* What a developer gives.
Given ==
    /\ WellFormed(input.before) /\ WellFormed(input.after)
    /\ ExpressionsRead(input.before, input.decisions)
    /\ ExpressionsRead(input.after, inverseDecisions(input.decisions))

\* The inductive invariant of a script that is executed on SQLite.
Followed ==
    /\ direction = "up" => base = Installed(Source)
    /\ phase \in {"model", "refused", "running", "done"}
    /\ phase = "model" => direction = "up" /\ db = base
    /\ phase \in Executed => Ready /\ Fits
    /\ phase \in Executed /\ direction = "up" /\ reverseReady(Source, Target, Decisions) =>
            validateTransformations(Target, Source, inverseDecisions(Decisions))
    /\ phase = "running" => (script = Whole /\ db = base) \/ \E k \in Nat : OnTheWay(k)
    /\ phase = "done" => Arrived
    /\ direction = "down" => Carried

\* What a statement of the script needs is there, and the script goes on.
LEMMA FirstStatement ==
    ASSUME Ready, Fits, script = Whole, db = base
    PROVE  OnTheWay(0)
<1>1. Whole \in Seq(Statements) /\ Len(Whole) \in Nat
  BY WholeScript
<1>2. ShapeAt(db, 0)
  BY ShapeAtStart
<1> QED BY <1>1, <1>2 DEF OnTheWay

\* The next statement is accepted.
LEMMA NextIsAccepted ==
    ASSUME Ready, Fits, NEW k \in Nat, OnTheWay(k), script # <<>>
    PROVE  /\ k < Len(Whole) /\ Len(script) \in Nat /\ Len(script) # 0
           /\ Head(script) = Whole[k + 1] /\ Accepts(Head(script)) /\ ShapeAt(Effect(Head(script)), k + 1)
<1>1. script \in Seq(Statements) /\ Len(script) = Len(Whole) - k /\ Len(Whole) \in Nat
  BY WholeScript DEF OnTheWay
<1>2. Len(script) \in Nat /\ Len(script) # 0
  BY <1>1, EmptySeq, LenProperties
<1>3. Head(script) = script[1]
  BY <1>1, <1>2
<1>4. k < Len(Whole) /\ 1 \in 1..Len(script)
  BY <1>1, <1>2
<1>5. Head(script) = Whole[k + 1]
  BY <1>3, <1>4 DEF OnTheWay
<1>6. ShapeAt(db, k)
  BY DEF OnTheWay
<1>7. Accepts(Whole[k + 1]) /\ ShapeAt(Effect(Whole[k + 1]), k + 1)
  BY <1>4, <1>6, NextStatement
<1> QED BY <1>2, <1>4, <1>5, <1>7

\* One statement is executed.
LEMMA ExecuteAdvances ==
    ASSUME Ready, Fits, NEW k \in Nat, OnTheWay(k), Execute
    PROVE  OnTheWay(k + 1)'
<1>1. /\ script # <<>> /\ script' = Tail(script) /\ db' = Effect(Head(script))
      /\ input' = input /\ direction' = direction /\ base' = base
  BY DEF Execute
<1>2. k < Len(Whole) /\ ShapeAt(db', k + 1)
  BY <1>1, NextIsAccepted
<1>3. ShapeAt(db, k + 1)'
  BY <1>1, <1>2, ShapeCarries
<1>4. Whole' = Whole /\ Statements' = Statements
  BY <1>1, ScriptFrame
<1>5. /\ script \in Seq(Statements) /\ Len(script) = Len(Whole) - k /\ Len(Whole) \in Nat
      /\ \A i \in 1..Len(script) : script[i] = Whole[k + i]
  BY WholeScript DEF OnTheWay
<1>6. /\ Tail(script) \in Seq(Statements) /\ Len(Tail(script)) = Len(script) - 1
      /\ \A i \in 1..(Len(script) - 1) : Tail(script)[i] = script[i + 1]
  BY <1>1, <1>5, EmptySeq, LenProperties
<1>7. /\ k + 1 \in Nat /\ k + 1 =< Len(Whole)
      /\ Tail(script) \in Seq(Statements) /\ Len(Tail(script)) = Len(Whole) - (k + 1)
  BY <1>2, <1>5, <1>6
<1>8. ASSUME NEW i \in 1..Len(Tail(script)) PROVE Tail(script)[i] = Whole[(k + 1) + i]
  <2>1. i \in 1..(Len(script) - 1) /\ i + 1 \in 1..Len(script) /\ (k + 1) + i = k + (i + 1)
    BY <1>5, <1>6
  <2> QED BY <1>5, <1>6, <2>1
<1> QED BY <1>1, <1>3, <1>4, <1>7, <1>8 DEF OnTheWay

\* What generate() makes can be executed.
LEMMA GeneratedIsReady ==
    ASSUME Given, input.backend = "sqlite", direction = "up", base = Installed(Source),
           generate(input.backend, Source, Target, Decisions)
    PROVE  /\ Ready /\ Fits
           /\ reverseReady(Source, Target, Decisions) =>
                validateTransformations(Target, Source, inverseDecisions(Decisions))
<1>1. /\ Source = capture("sqlite", input.before) /\ Target = capture("sqlite", input.after)
      /\ Decisions = input.decisions
  BY DEF Source, Target, Decisions
<1>2. /\ validateSnapshot(Source) /\ validateSnapshot(Target) /\ resolved(Source, Target, Decisions)
      /\ validateTransformations(Source, Target, Decisions)
      /\ reverseReady(Source, Target, Decisions) =>
            validateTransformations(Target, Source, inverseDecisions(Decisions))
  BY DEF generate, Generates
<1>3. IsSnapshot(Source) /\ IsSnapshot(Target)
  BY <1>1, <1>2, CaptureMakesSnapshot DEF Given
<1>4. ExpressionsRead(Source, Decisions)
  BY <1>1, CaptureKeepsExpressions DEF Given
<1>5. Ready
  BY <1>2, <1>3, <1>4 DEF Ready
<1>6. Fits
  BY <1>3, InstalledFits
<1> QED BY <1>2, <1>5, <1>6

\* On the way up, every column that is neither dropped nor converted still begins with
\* what it held.
LEMMA WayUpCarries ==
    ASSUME Ready, Fits, Arrived, base = Installed(Source), reverseReady(Source, Target, Decisions),
           NEW s \in DOMAIN Source, NEW o \in DOMAIN Source[s].columns,
           NEW t, t = targetTable(s, Decisions), NEW c, c = targetColumn(t, o, Decisions)
    PROVE  /\ t \in DOMAIN Target
           /\ \/ c \notin DOMAIN Target[t].columns \/ Converts(t, c, Decisions)
              \/ IsPrefix(<<<<s, o>>>>, db[t].columns[c].value.terms)
<1>1. t \in DOMAIN Target
  <2>1. \A x \in compare(Source, Target, Decisions) : x.kind # "drop-table"
    BY DEF reverseReady
  <2>2. Change("drop-table", s, 0, TRUE, FALSE).kind = "drop-table"
    BY DEF Change
  <2> QED BY <2>1, <2>2, CompareIsComplete
<1>2. base[s].columns[o].value.terms = <<<<s, o>>>>
  BY InstalledFits DEF Ready
<1>3. ASSUME c \in DOMAIN Target[t].columns, ~Converts(t, c, Decisions)
      PROVE  IsPrefix(<<<<s, o>>>>, db[t].columns[c].value.terms)
  <2>1. t = To(s)
    BY DEF To
  <2>2. Continues(base[s].columns[o].value.terms, db[t].columns[c].value.terms)
    BY <1>1, <1>3, <2>1, ArrivedKeeps
  <2>3. Continues(<<<<s, o>>>>, db[t].columns[c].value.terms)
    BY <1>2, <2>2
  <2>4. PICK more \in Seq(Nat \X Nat) : db[t].columns[c].value.terms = <<<<s, o>>>> \o more
    BY <2>3 DEF Continues
  <2>5. <<<<s, o>>>> \in Seq(Nat \X Nat)
    BY <2>3 DEF Continues
  <2> QED BY <2>4, <2>5, PrefixOfConcat
<1> QED BY <1>1, <1>3

\* Up and down gives every column its values back.
LEMMA ArrivedBack ==
    ASSUME Ready, Fits, Arrived, Carried, Undone(Target, input.decisions),
           Decisions = inverseDecisions(input.decisions)
    PROVE  RoundTrip
<1> SUFFICES ASSUME NEW s \in DOMAIN Target, NEW o \in DOMAIN Target[s].columns,
                    NEW t, t = targetTable(s, input.decisions),
                    NEW c, c = targetColumn(t, o, input.decisions),
                    c \in DOMAIN Source[t].columns, ~Converts(t, c, input.decisions), ~Converts(s, o, Decisions)
             PROVE  IsPrefix(<<<<s, o>>>>, db[s].columns[o].value.terms)
  BY Zenon DEF RoundTrip
<1>1. t \in DOMAIN Source /\ IsPrefix(<<<<s, o>>>>, base[t].columns[c].value.terms)
  BY DEF Carried
<1>2. To(t) = s /\ targetColumn(s, c, Decisions) = o
  BY DEF Undone, To
<1>3. Continues(base[t].columns[c].value.terms, db[s].columns[o].value.terms)
  BY <1>1, <1>2, ArrivedKeeps
<1> DEFINE old == base[t].columns[c].value.terms
<1>4. PICK more \in Seq(Nat \X Nat) : db[s].columns[o].value.terms = old \o more
  BY <1>3 DEF Continues
<1>5. old \in Seq(Nat \X Nat)
  BY <1>3 DEF Continues
<1>6. <<s, o>> \in Nat \X Nat
  BY NamesAreNumbers DEF Ready, IsSnapshot, IsTable
<1> HIDE DEF old
<1>7. IsPrefix(<<<<s, o>>>>, old)
  BY <1>1 DEF old
<1> QED BY <1>4, <1>5, <1>6, <1>7, PrefixOfConcat

\* The way down is ready when the way up has arrived.
LEMMA UndoIsReady ==
    ASSUME Given, Followed, input.backend = "sqlite", Undo
    PROVE  Followed'
<1>1. /\ phase = "done" /\ direction = "up" /\ reverseReady(Source, Target, Decisions)
      /\ direction' = "down" /\ phase' = "running" /\ input' = input /\ base' = db /\ db' = db
      /\ script' = sqliteSql(Target, Source, inverseDecisions(Decisions))
  BY DEF Undo, Sql
<1>2. /\ Source' = Target /\ Target' = Source /\ Decisions' = inverseDecisions(Decisions)
      /\ Decisions = input.decisions
  BY <1>1 DEF Source, Target, Decisions
<1>3. /\ base = Installed(Source) /\ Ready /\ Fits /\ Arrived
      /\ validateTransformations(Target, Source, inverseDecisions(Decisions))
  BY <1>1 DEF Followed, Executed
<1>4. resolved(Target, Source, inverseDecisions(Decisions))
  BY <1>1 DEF reverseReady
<1>5. ExpressionsRead(Target, inverseDecisions(Decisions))
  <2>1. Target = capture("sqlite", input.after)
    BY <1>1 DEF Target
  <2> QED BY <1>2, <2>1, CaptureKeepsExpressions DEF Given
<1>6. Ready'
  BY <1>1, <1>2, <1>3, <1>4, <1>5 DEF Ready
<1>7. Fits'
  <2>1. /\ DOMAIN db = DOMAIN Target
        /\ db = [u \in DOMAIN db |-> db[u]]
        /\ \A u \in DOMAIN Target :
             db[u] = Holding(Target[u], [c \in DOMAIN Target[u].columns |-> db[u].columns[c].value])
        /\ \A u \in DOMAIN Target : \A c \in DOMAIN Target[u].columns : db[u].columns[c].value \in ColumnValue
        /\ \A u \in DOMAIN Target : targetTable(u, inverseDecisions(Decisions)) \in DOMAIN Source =>
             \A c \in DOMAIN Target[u].columns : db[u].columns[c].value.nulls => Target[u].columns[c].null
    BY <1>3, <1>4, ArrivedFitsWayDown DEF resolved
  <2> QED BY <1>1, <1>2, <2>1, Zenon DEF Fits, Held, To
<1>8. script' = Whole' /\ db' = base'
  BY <1>1, <1>2 DEF Whole
<1>9. Carried'
  <2>1. \A s \in DOMAIN Source : \A o \in DOMAIN Source[s].columns :
            LET t == targetTable(s, Decisions)
                c == targetColumn(t, o, Decisions)
            IN  /\ t \in DOMAIN Target
                /\ \/ c \notin DOMAIN Target[t].columns \/ Converts(t, c, Decisions)
                   \/ IsPrefix(<<<<s, o>>>>, db[t].columns[c].value.terms)
    BY <1>1, <1>3, WayUpCarries, Zenon
  <2>2. input'.decisions = Decisions
    BY <1>1, <1>2
  <2> QED BY <1>1, <1>2, <2>1, <2>2, Zenon DEF Carried
<1> QED BY <1>1, <1>6, <1>7, <1>8, <1>9 DEF Followed

\* The pair of snapshots and the decisions are those of the constants.
THEOREM InputsAreGiven == Spec => []Given
<1>1. Init => Given
  <2> SUFFICES ASSUME Init PROVE Given
    OBVIOUS
  <2>1. PICK m \in Models : \E d \in DecisionsFor(m) :
            input.before = m.before /\ input.after = m.after /\ input.decisions = d
    BY DEF Init
  <2>2. PICK d \in DecisionsFor(m) : input.before = m.before /\ input.after = m.after /\ input.decisions = d
    BY <2>1
  <2> QED BY <2>2, ModelsAssumption, DecisionsAssumption DEF Given
<1>2. Given /\ [Next]_vars => Given'
  BY DEF Given, Next, Generate, Execute, Reject, Finish, Undo, vars
<1> QED BY <1>1, <1>2, PTL DEF Spec

\* The invariant of a script on SQLite: generate() makes a script whose statements are
\* all accepted, one after the other, up and down.
THEOREM ScriptsAreFollowed == Spec => [](input.backend = "sqlite" => Followed)
<1> DEFINE OnSqlite == input.backend = "sqlite" => Followed
<1>1. Init => OnSqlite
  BY DEF Init, Followed, Executed, Source
<1>2. Given /\ OnSqlite /\ [Next]_vars => OnSqlite'
  <2> SUFFICES ASSUME Given, Followed, [Next]_vars, input.backend = "sqlite" PROVE Followed'
    <3>1. [Next]_vars => input' = input
      BY DEF Next, Generate, Execute, Reject, Finish, Undo, vars
    <3> QED BY <3>1
  <2>1. ASSUME input' = input, direction' = direction, base' = base
        PROVE  /\ Source' = Source /\ Target' = Target /\ Decisions' = Decisions
               /\ Ready' = Ready /\ Fits' = Fits /\ Whole' = Whole /\ Carried' = Carried
    <3>1. /\ Source' = Source /\ Target' = Target /\ Decisions' = Decisions
          /\ Ready' = Ready /\ Fits' = Fits /\ Whole' = Whole
      BY <2>1, ScriptFrame
    <3>2. Carried' = Carried
      BY <2>1, <3>1 DEF Carried
    <3> QED BY <3>1, <3>2
  <2>2. CASE Generate
    <3>1. /\ phase = "model" /\ direction = "up" /\ db = base /\ base = Installed(Source)
          /\ input' = input /\ direction' = direction /\ base' = base /\ db' = db
      BY <2>2 DEF Generate, Followed
    <3>2. CASE generate(input.backend, Source, Target, Decisions)
      <4>1. phase' = "running" /\ script' = Whole
        BY <2>2, <3>2 DEF Generate, Sql, Whole
      <4>2. /\ Ready /\ Fits
            /\ reverseReady(Source, Target, Decisions) =>
                validateTransformations(Target, Source, inverseDecisions(Decisions))
        BY <3>1, <3>2, GeneratedIsReady
      <4> QED BY <2>1, <3>1, <4>1, <4>2 DEF Followed
    <3>3. CASE ~generate(input.backend, Source, Target, Decisions)
      <4>1. phase' = "refused"
        BY <2>2, <3>3 DEF Generate
      <4> QED BY <2>1, <3>1, <4>1 DEF Followed, Executed
    <3> QED BY <3>2, <3>3
  <2>3. CASE Execute
    <3>1. /\ phase = "running" /\ phase' = phase /\ input' = input /\ direction' = direction /\ base' = base
          /\ Ready /\ Fits
      BY <2>3 DEF Execute, Followed, Executed
    <3>2. PICK k \in Nat : OnTheWay(k)
      BY <3>1, FirstStatement DEF Followed
    <3>3. OnTheWay(k + 1)' /\ k + 1 \in Nat
      BY <2>3, <3>1, <3>2, ExecuteAdvances
    <3>4. \E j \in Nat : OnTheWay(j)'
      BY <3>3
    <3> QED BY <2>1, <3>1, <3>4 DEF Followed
  <2>4. CASE Reject
    <3>1. phase = "running" /\ script # <<>> /\ ~Accepts(Head(script)) /\ Ready /\ Fits
      BY <2>4 DEF Reject, Followed, Executed
    <3>2. PICK k \in Nat : OnTheWay(k)
      BY <3>1, FirstStatement DEF Followed
    <3> QED BY <3>1, <3>2, NextIsAccepted
  <2>5. CASE Finish
    <3>1. /\ phase = "running" /\ phase' = "done" /\ script = <<>> /\ db' = db
          /\ input' = input /\ direction' = direction /\ base' = base /\ Ready /\ Fits
      BY <2>5 DEF Finish, Followed, Executed
    <3>2. PICK k \in Nat : OnTheWay(k)
      BY <3>1, FirstStatement DEF Followed
    <3>3. k = Len(Whole)
      BY <3>1, <3>2, WholeScript DEF OnTheWay
    <3>4. Arrived
      BY <3>1, <3>2, <3>3, ShapeAtEnd DEF OnTheWay, Arrived
    <3>5. Arrived'
      BY <3>1, <3>4, ScriptFrame DEF Arrived, Shape
    <3> QED BY <2>1, <3>1, <3>5 DEF Followed, Executed
  <2>6. CASE Undo
    BY <2>6, UndoIsReady
  <2>7. CASE UNCHANGED vars
    <3>1. /\ phase' = phase /\ script' = script /\ db' = db
          /\ input' = input /\ direction' = direction /\ base' = base
      BY <2>7 DEF vars
    <3>2. Arrived' = Arrived
      BY <3>1, ScriptFrame DEF Arrived, Shape
    <3>3. ASSUME NEW k \in Nat, OnTheWay(k) PROVE OnTheWay(k)'
      <4>1. ShapeAt(db', k)
        BY <3>1, <3>3 DEF OnTheWay
      <4>2. ShapeAt(db, k)'
        BY <3>1, <4>1, ShapeCarries
      <4>3. Whole' = Whole /\ Statements' = Statements
        BY <3>1, ScriptFrame
      <4> QED BY <3>1, <3>3, <4>2, <4>3 DEF OnTheWay
    <3> QED BY <2>1, <3>1, <3>2, <3>3 DEF Followed
  <2> QED BY <2>2, <2>3, <2>4, <2>5, <2>6, <2>7 DEF Next
<1> QED BY <1>1, <1>2, InputsAreGiven, PTL DEF Spec

\* On SQLite every script generate() returns runs to its end, up and down: no statement
\* is refused (sqliteSql(): copies, then drops, then renames, then new tables).
THEOREM SqliteScriptsExecute == Spec => [](input.backend = "sqlite" => ScriptsExecute)
<1>1. (input.backend = "sqlite" => Followed) => (input.backend = "sqlite" => ScriptsExecute)
  BY DEF Followed, ScriptsExecute
<1> QED BY <1>1, ScriptsAreFollowed, PTL

\* At the end of a script on SQLite the schema is the target's and every column holds
\* what the decisions declare of the database the script was started on.
THEOREM SqliteMigratesAsDeclared == Spec => [](input.backend = "sqlite" => MigratedAsDeclared)
<1>1. (input.backend = "sqlite" => Followed) => (input.backend = "sqlite" => MigratedAsDeclared)
  <2> SUFFICES ASSUME Followed, phase = "done" PROVE MigratedAsDeclared
    BY DEF MigratedAsDeclared
  <2> QED BY ArrivedAsDeclared DEF Followed, Executed
<1> QED BY <1>1, ScriptsAreFollowed, PTL

\* A script on SQLite whose data loss was not approved loses nothing: the values of every
\* column are still there, in a column of a type that holds them, unless converted.
THEOREM SqliteLosesNothingSilently == Spec => [](input.backend = "sqlite" => NothingLostSilently)
<1>1. (input.backend = "sqlite" => Followed) => (input.backend = "sqlite" => NothingLostSilently)
  <2> SUFFICES ASSUME Followed, phase = "done" PROVE NothingLostSilently
    BY DEF NothingLostSilently
  <2> QED BY ArrivedWithoutLoss DEF Followed, Executed
<1> QED BY <1>1, ScriptsAreFollowed, PTL

\* Up and then down on SQLite gives every column its values back, unless it was dropped
\* or converted on the way (inverseDecisions(), reverseReady()).
THEOREM SqliteRoundTrip == Spec => [](input.backend = "sqlite" => RoundTrip)
<1>1. (direction = "down" => Undone(Target, input.decisions)) /\ (input.backend = "sqlite" => Followed)
        => (input.backend = "sqlite" => RoundTrip)
  <2> SUFFICES ASSUME direction = "down" => Undone(Target, input.decisions), Followed,
                      phase = "done", direction = "down"
               PROVE  RoundTrip
    BY DEF RoundTrip
  <2>1. Decisions = inverseDecisions(input.decisions)
    BY DEF Decisions
  <2>2. Ready /\ Fits /\ Arrived /\ Carried
    BY DEF Followed, Executed
  <2> QED BY <2>1, <2>2, ArrivedBack
<1> QED BY <1>1, ScriptsAreFollowed, WayDownUndoesRenames, PTL
=============================================================================
