---------------------------- MODULE MCDigestPhase ----------------------------
(***************************************************************************)
(* DigestPhase for TLC.  The readers have bound every chat; the other      *)
(* users have none, so their part is generation only.                      *)
(***************************************************************************)
EXTENDS DigestPhase, TLC

CONSTANTS Readers,     \* the users the messages go to
          Wishes       \* the frequencies the readers may start with

MCInit == /\ Init
          /\ links = Readers \X Slots
          /\ \A u \in Users :
                wants[u] \in IF u \in Readers THEN Wishes ELSE {"daily"}

MCSpec == MCInit /\ [][Next]_vars
MCFairSpec == MCSpec /\ Fairness

Symmetry == Permutations(Workers)
=============================================================================
