---------------------------- MODULE MCCiDelivery ----------------------------
(***************************************************************************)
(* Instances of CiDelivery for TLC.                                        *)
(***************************************************************************)
EXTENDS CiDelivery, TLC

CONSTANTS n1, n2, c1, c2, t1, t2

\* Two commits of one branch, which may belong to different conversations.
OneEach == (n1 :> c1) @@ (n2 :> c2)

\* A failure that is announced again with other runs, and a success, whose id says all.
FirstAgain == (n1 :> 2) @@ (n2 :> 1)
=============================================================================
