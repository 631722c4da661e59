--------------------------- MODULE MCTelegramLink ---------------------------
(***************************************************************************)
(* TelegramLink for TLC: two accounts with a code each.                    *)
(***************************************************************************)
EXTENDS TelegramLink

CONSTANTS c1, c2, u1, u2

MCOwner == [c \in Codes |-> IF c = c1 THEN u1 ELSE u2]
=============================================================================
