----------------------------- MODULE MCPseudoLock -----------------------------
(* The instance of PseudoLock for TLC.                                     *)
EXTENDS PseudoLock, TLC

CONSTANTS f1, f2, f3, l1, l2

\* f1 and f2 report on the same event, f3 on another.
SharedEvent == f1 :> l1 @@ f2 :> l1 @@ f3 :> l2
==============================================================================
