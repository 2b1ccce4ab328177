-------------------------- MODULE MigrationLedger --------------------------
(***************************************************************************)
(* What the migration state protocol promises of one database, whatever    *)
(* processes, failures and interleavings are behind it: the steps that the *)
(* committed history, the schema and the marker may take together.         *)
(*                                                                         *)
(*   - An atomic backend applies or reverts the schema and the history in  *)
(*     one step and never has a marker.                                    *)
(*   - Another backend first marks the migration, then works on its schema *)
(*     only, and closes it with the history row and the marker together.   *)
(*   - A baseline fills an empty history without touching the schema.      *)
(***************************************************************************)
EXTENDS MigrationPlan

CONSTANT Atomic    \* MigrationAtomicity::WholeMigration

VARIABLES history, schema, pending

ledger == <<history, schema, pending>>

Init ==
    /\ history = NoHistory
    /\ schema = [v \in Versions |-> "absent"]
    /\ pending = None

Newest(h, v) == v \in Keys(h) /\ \A w \in Keys(h) : w <= v
Above(h, v) == \A w \in Keys(h) : w < v

\* The history gains or loses version v as its last row, never a baseline row.
Append(v) == /\ Above(history, v)
             /\ \E s \in Sums : history' = [history EXCEPT ![v] = [sum |-> s, kind |-> "ordinary"]]
Remove(v) == /\ Newest(history, v)
             /\ history[v].kind = "ordinary"
             /\ history' = [history EXCEPT ![v] = None]

Apply(v) ==
    /\ Atomic
    /\ Append(v)
    /\ schema[v] = "absent"
    /\ schema' = [schema EXCEPT ![v] = "applied"]
    /\ UNCHANGED pending

Revert(v) ==
    /\ Atomic
    /\ Remove(v)
    /\ schema[v] = "applied"
    /\ schema' = [schema EXCEPT ![v] = "absent"]
    /\ UNCHANGED pending

Mark(v, d) ==
    /\ ~Atomic
    /\ pending = None
    /\ IF d = "Up" THEN Above(history, v) ELSE Newest(history, v) /\ history[v].kind = "ordinary"
    /\ \E s \in Sums : pending' = [version |-> v, direction |-> d, sum |-> s]
    /\ UNCHANGED <<history, schema>>

\* A script, or the operator who repairs after it.
Work ==
    /\ pending # None
    /\ \E e \in {"absent", "partial", "applied"} : schema' = [schema EXCEPT ![pending.version] = e]
    /\ UNCHANGED <<history, pending>>

Complete ==
    /\ pending # None
    /\ \/ pending.direction = "Up" /\ schema[pending.version] = "applied" /\ Append(pending.version)
       \/ pending.direction = "Down" /\ schema[pending.version] = "absent" /\ Remove(pending.version)
    /\ pending' = None
    /\ UNCHANGED schema

Withdraw ==
    /\ pending # None
    /\ schema[pending.version] = IF pending.direction = "Up" THEN "absent" ELSE "applied"
    /\ pending' = None
    /\ UNCHANGED <<history, schema>>

Accept ==
    /\ pending = None
    /\ Keys(history) = {}
    /\ history' \in History
    /\ Keys(history') = Baselined(history')
    /\ UNCHANGED <<schema, pending>>

Next ==
    \/ \E v \in Versions : Apply(v) \/ Revert(v)
    \/ \E v \in Versions, d \in Direction : Mark(v, d)
    \/ Work \/ Complete \/ Withdraw \/ Accept

Spec == Init /\ [][Next]_ledger
=============================================================================
