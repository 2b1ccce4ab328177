---------------------------- MODULE MCMigration ----------------------------
(***************************************************************************)
(* Instances of MigrationState for TLC.                                    *)
(***************************************************************************)
EXTENDS MigrationState, TLC

CONSTANTS a, b, s1, s2

M(s, d) == [sum |-> s, down |-> d]

\* b was built with another script for version 2.
EditedCatalog == (a :> <<M(s1, TRUE), M(s2, TRUE)>>) @@ (b :> <<M(s1, TRUE), M(s1, TRUE)>>)

\* The same release with a single version.
OneCatalog == [c \in {a, b} |-> <<M(s1, TRUE)>>]

\* b is an older release that stops at version 1, which has no down script.
OldCatalog == (a :> <<M(s1, FALSE), M(s2, TRUE)>>) @@ (b :> <<M(s1, FALSE), None>>)

\* Which operations the processes call.
AllOps == [c \in {a, b} |-> {"up", "down", "baseline", "validate", "resolve"}]
DeployerOps == (a :> {"up", "down", "baseline", "resolve"}) @@ (b :> {"up", "resolve"})
RecoveryOps == [c \in {a, b} |-> {"up", "resolve"}]
=============================================================================
