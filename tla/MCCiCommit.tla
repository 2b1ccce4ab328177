----------------------------- MODULE MCCiCommit -----------------------------
(***************************************************************************)
(* Instances of CiCommit for TLC.                                          *)
(***************************************************************************)
EXTENDS CiCommit, TLC

CONSTANTS wa, wb

\* wb is run again, twice: as another attempt and as another run.  The commit is
\* also that of a pull request, whose jobs carry the same branch and commit.
Attempts == (wa :> {<<1, 1>>}) @@ (wb :> {<<1, 2>>, <<2, 1>>})
PullRequest == (wa :> {}) @@ (wb :> {<<3, 1>>})
=============================================================================
