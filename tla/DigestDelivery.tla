--------------------------- MODULE DigestDelivery ---------------------------
(***************************************************************************)
(* What digest delivery promises, whatever runs it: one delivery record    *)
(* per user and period, written before anything leaves the machine, at     *)
(* most one message per record, and a record that is settled only once and *)
(* never reopened (the docstring of deliver_digests,                       *)
(* backend/app/services/alerts.py).                                        *)
(***************************************************************************)
EXTENDS Naturals

CONSTANT Keys       \* one key per (user, period): the identity of a delivery

VARIABLES record,   \* alert_deliveries: the status stored under each key
          inbox     \* how many times the chat behind a key got the message

absVars == <<record, inbox>>

DeliveryStatus == {"none", "pending", "sent", "suppressed", "failed"}
Settled == {"sent", "suppressed", "failed"}

AbsTypeOK == /\ record \in [Keys -> DeliveryStatus]
             /\ inbox \in [Keys -> Nat]

AbsInit == /\ record = [k \in Keys |-> "none"]
           /\ inbox = [k \in Keys |-> 0]

\* The record becomes durable.
Record(k) == /\ record[k] = "none"
             /\ record' = [record EXCEPT ![k] = "pending"]
             /\ UNCHANGED inbox

\* The provider puts the message in the user's chat: once, and only under a
\* record that is still open.
Hand(k) == /\ record[k] = "pending"
           /\ inbox[k] = 0
           /\ inbox' = [inbox EXCEPT ![k] = 1]
           /\ UNCHANGED record

\* The outcome is stored. "sent" is only ever said of a message that arrived;
\* the other two make no promise, because a response can be lost.
Settle(k, s) == /\ record[k] = "pending"
                /\ s = "sent" => inbox[k] = 1
                /\ record' = [record EXCEPT ![k] = s]
                /\ UNCHANGED inbox

AbsNext == \E k \in Keys : \/ Record(k)
                           \/ Hand(k)
                           \/ \E s \in Settled : Settle(k, s)

AbsSpec == AbsInit /\ [][AbsNext]_absVars
=============================================================================
