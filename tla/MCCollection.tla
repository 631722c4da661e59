---------------------------- MODULE MCCollection ----------------------------
(***************************************************************************)
(* Collection for TLC: interchangeable workers, and one page that changes. *)
(***************************************************************************)
EXTENDS Collection, TLC

MCVolatile == {<<AnySource, 1>>}

Symmetry == Permutations(Workers)
=============================================================================
