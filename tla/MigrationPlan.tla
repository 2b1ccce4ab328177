--------------------------- MODULE MigrationPlan ---------------------------
(***************************************************************************)
(* What the migration state protocol decides from a catalog, the history   *)
(* table and the incomplete marker: evaluate(), requireValid() and         *)
(* makePlan() of src/migrations/MigrationState.cpp.                        *)
(*                                                                         *)
(* The history table has version as its primary key and is always read     *)
(* ORDER BY version, and a catalog has strictly ascending versions, so     *)
(* both are functions of the version: None where there is no row or no     *)
(* migration.  A row keeps what the protocol compares: the checksum and    *)
(* the baseline flag.  applied_at is left out: it has a resolution of one  *)
(* second, so a row deleted and inserted again may compare equal, and that *)
(* is the case the model keeps.                                            *)
(***************************************************************************)
EXTENDS Integers, FiniteSetsExt

CONSTANTS
    MaxVersion, \* the greatest Version, an std::int64_t
    Versions,   \* the version numbers that occur in catalogs, positive
    Sums,       \* checksums of a migration's scripts, contexts and snapshots
    None        \* no row, no migration, no marker, no transaction

ASSUME VersionsAssumption == MaxVersion \in Nat /\ Versions \subseteq 1..MaxVersion

Direction == {"Up", "Down"}

\* AppliedMigration: a row of _orm_migrations.
Row == [sum : Sums, kind : {"ordinary", "baseline"}]
History == [Versions -> Row \cup {None}]

\* Migration: a catalog entry; down tells whether it has a down script.
Entry == [sum : Sums, down : BOOLEAN]
CatalogType == [Versions -> Entry \cup {None}]

\* IncompleteMigration: the row of _orm_migrations_incomplete.
Marker == [version : Versions, direction : Direction, sum : Sums]

ASSUME NoneAssumption == None \notin Row /\ None \notin Entry /\ None \notin Marker

NoHistory == [v \in Versions |-> None]

Keys(f) == {v \in Versions : f[v] # None}
Below(f, v) == {w \in Keys(f) : w < v}

CurrentVersion(h) == IF Keys(h) = {} THEN 0 ELSE Max(Keys(h))
Baselined(h) == {v \in Keys(h) : h[v].kind = "baseline"}
BaselineVersion(h) == IF Baselined(h) = {} THEN 0 ELSE Max(Baselined(h))

(***************************************************************************)
(* evaluate(): the rows must be the catalog's first migrations, baseline   *)
(* rows before ordinary ones, with unchanged checksums.  Only the first    *)
(* problem is ever thrown, so a row is judged against the rows below it    *)
(* being in order.                                                         *)
(***************************************************************************)
RowFault(cat, h, v) ==
    CASE \/ cat[v] = None
         \/ Below(h, v) # Below(cat, v)
         \/ h[v].kind = "baseline" /\ \E w \in Below(h, v) : h[w].kind = "ordinary"
           -> "InvalidHistory"
      [] OTHER -> IF h[v].sum = cat[v].sum THEN "Ok" ELSE "ChecksumMismatch"

HistoryFault(cat, h) ==
    LET bad == {v \in Keys(h) : RowFault(cat, h, v) # "Ok"}
    IN  IF bad = {} THEN "Ok" ELSE RowFault(cat, h, Min(bad))

\* An Up marker stands for the first pending migration, a Down marker for the
\* newest applied one, which must lie above the baseline.
MarkerInPlace(cat, h, m) ==
    /\ cat[m.version] # None
    /\ \/ /\ m.direction = "Up"
          /\ Keys(h) = Below(cat, m.version)
       \/ /\ m.direction = "Down"
          /\ Keys(h) = Below(cat, m.version) \cup {m.version}
          /\ m.version > BaselineVersion(h)

MarkerFault(cat, h, m) ==
    CASE m = None -> "Ok"
      [] m # None /\ ~MarkerInPlace(cat, h, m) -> "InvalidHistory"
      [] OTHER -> IF m.sum = cat[m.version].sum THEN "Ok" ELSE "ChecksumMismatch"

Fault(cat, h, m) ==
    IF HistoryFault(cat, h) # "Ok" THEN HistoryFault(cat, h) ELSE MarkerFault(cat, h, m)

\* requireValid(): problems first, then the marker itself.
Invalid(cat, h, m) ==
    CASE Fault(cat, h, m) # "Ok" -> Fault(cat, h, m)
      [] OTHER -> IF m = None THEN "Ok" ELSE "IncompleteMigration"

(***************************************************************************)
(* makePlan(): the versions a run to target selects, and why it refuses.   *)
(* The plan is the set; an upgrade takes its least version first, a        *)
(* downgrade its greatest.                                                 *)
(***************************************************************************)
Selected(cat, h, direction, target) ==
    {v \in Keys(cat) : IF direction = "Up" THEN CurrentVersion(h) < v /\ v <= target
                                           ELSE target < v /\ v <= CurrentVersion(h)}

NextVersion(direction, plan) == IF direction = "Up" THEN Min(plan) ELSE Max(plan)

ValidTarget(cat, h, direction, target) ==
    /\ target = 0 \/ target \in Keys(cat)
    /\ IF direction = "Up" THEN target >= CurrentVersion(h) ELSE target <= CurrentVersion(h)

\* Variant: downgrades do not stop at the baseline.
PlanBelowBaseline(cat, h, m, direction, target) ==
    IF Invalid(cat, h, m) # "Ok" THEN Invalid(cat, h, m)
    ELSE IF ValidTarget(cat, h, direction, target) THEN "Ok" ELSE "InvalidTarget"

PlanRefusal(cat, h, m, direction, target) ==
    IF Invalid(cat, h, m) # "Ok" THEN Invalid(cat, h, m)
    ELSE IF ~ValidTarget(cat, h, direction, target) THEN "InvalidTarget"
    ELSE IF direction = "Down" /\ target < BaselineVersion(h) THEN "BaselineBoundary"
    ELSE IF direction = "Down" /\ \E v \in Selected(cat, h, direction, target) : ~cat[v].down
         THEN "MissingDown"
    ELSE "Ok"
=============================================================================
