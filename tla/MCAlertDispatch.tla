--------------------------- MODULE MCAlertDispatch ---------------------------
(***************************************************************************)
(* AlertDispatch for TLC: a rule that asks for the condition, on Telegram  *)
(* too, while score events compete with its own for the one place there is.*)
(***************************************************************************)
EXTENDS AlertDispatch, TLC

CONSTANTS met, user

MCOwner == met :> user
MCTriggers == met :> {"met"}

Symmetry == Permutations(Scheduled)
=============================================================================
