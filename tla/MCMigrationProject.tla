------------------------- MODULE MCMigrationProject -------------------------
(***************************************************************************)
(* Instances of MigrationProject for TLC.                                  *)
(***************************************************************************)
EXTENDS MigrationProject, TLC

CONSTANTS a, b, s0, s1, x, y

\* a makes and finalizes migrations; b makes them, asks for a draft and deploys.
Roles == (a :> {"init", "makeManual", "finalize"}) @@ (b :> {"make", "catalog", "draftVersion"})
=============================================================================
