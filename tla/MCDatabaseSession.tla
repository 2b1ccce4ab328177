------------------------- MODULE MCDatabaseSession -------------------------
(***************************************************************************)
(* Instances of DatabaseSession for TLC.                                   *)
(***************************************************************************)
EXTENDS DatabaseSession, TLC

CONSTANTS a, b, t1, t2, l1, l2

\* One link in each of two tables.
OnePerTable == (l1 :> t1) @@ (l2 :> t2)

\* Two links of one table.
SameTable == (l1 :> t1) @@ (l2 :> t1)
=============================================================================
