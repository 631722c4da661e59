----------------------------- MODULE TelegramLink -----------------------------
(***************************************************************************)
(* Binding a Telegram chat to an account: start_channel_link and           *)
(* unlink_channel (backend/app/api/v1/me.py), telegram_webhook and         *)
(* _consume_code (backend/app/api/v1/telegram.py), and the delivery loop   *)
(* that reads the chats early and writes to them late (deliver_digests,    *)
(* backend/app/services/alerts.py).                                        *)
(*                                                                         *)
(* A code is issued at most once, so it names its row of                   *)
(* notification_channel_links.  Telegram repeats an update until it gets   *)
(* an answer, and may hand it to two processes at the same time.           *)
(***************************************************************************)
EXTENDS Naturals, FiniteSets

CONSTANTS
    Users,      \* accounts
    Codes,      \* codes that can be issued
    Owner,      \* the account a code is issued to
    Private,    \* direct chats with the bot
    Groups,     \* chats with more members
    Handlers,   \* processes of the API that execute the webhook
    Senders,    \* workers that deliver
    None,       \* no chat: the placeholder of a pending row
    TTL,        \* TELEGRAM_LINK_CODE_TTL_MINUTES
    MaxTime,    \* bound on the clock
    MaxUpdates, \* bound on the commands sent
    MaxCrashes, \* bound on the requests that end without an answer
    MaxSends    \* bound on the deliveries

Chats == Private \cup Groups
ASSUME ChatsAssumption == Private \cap Groups = {} /\ None \notin Chats
ASSUME LimitsAssumption ==
    {TTL, MaxTime, MaxUpdates, MaxCrashes, MaxSends} \subseteq Nat
ASSUME CodesAssumption ==
    Codes # {} /\ Chats # {} /\ Owner \in [Codes -> Users]

\* "/link CODE" as a chat sent it.
Updates == Codes \X Chats
AnyUpdate == CHOOSE u \in Updates : TRUE

\* A row is absent until its code is issued and gone once it is unlinked.
State == {"absent", "pending", "verified", "gone"}
Links == [state : State, expires : Nat, chat : Chats \cup {None}]
Absent == [state |-> "absent", expires |-> 0, chat |-> None]
Replies == {"none", "ok", "bad code", "taken", "not private"}

VARIABLES
    clock,    \* minutes, coarsely
    link,     \* committed notification_channel_links, by code
    pending,  \* updates Telegram has not had an answer for
    sent,     \* updates ever sent
    linked,   \* updates that were answered "Linked."
    bound,    \* <<code, chat>> pairs that were ever committed
    crashes,  \* requests that ended without an answer
    pc,       \* per handler: idle, claim, commit or answer
    update,   \* per handler: the update in hand
    now,      \* per handler: the time it took when it received it
    reply,    \* per handler: what it will answer
    rows,     \* per sender: the <<owner, chat>> pairs it has read
    selects,  \* deliveries started
    inbox     \* <<owner, chat>>: whose message reached which chat

handlerVars == <<pc, update, now, reply>>
senderVars == <<rows, selects, inbox>>
vars == <<clock, link, pending, sent, linked, bound, crashes, pc, update, now,
          reply, rows, selects, inbox>>

TypeOK ==
    /\ clock \in 0..MaxTime
    /\ link \in [Codes -> Links]
    /\ pending \subseteq sent
    /\ sent \subseteq Updates
    /\ linked \subseteq Updates
    /\ bound \subseteq Updates
    /\ crashes \in 0..MaxCrashes
    /\ pc \in [Handlers -> {"idle", "claim", "commit", "answer"}]
    /\ update \in [Handlers -> Updates]
    /\ now \in [Handlers -> 0..MaxTime]
    /\ reply \in [Handlers -> Replies]
    /\ rows \in [Senders -> SUBSET (Users \X (Chats \cup {None}))]
    /\ selects \in 0..MaxSends
    /\ inbox \subseteq Users \X (Chats \cup {None})
    \* what the states of a row say of its columns
    /\ \A c \in Codes : link[c].state = "verified" <=> link[c].chat # None

Init ==
    /\ clock = 0
    /\ link = [c \in Codes |-> Absent]
    /\ pending = {} /\ sent = {} /\ linked = {} /\ bound = {}
    /\ crashes = 0
    /\ pc = [h \in Handlers |-> "idle"]
    /\ update = [h \in Handlers |-> AnyUpdate]
    /\ now = [h \in Handlers |-> 0]
    /\ reply = [h \in Handlers |-> "none"]
    /\ rows = [s \in Senders |-> {}]
    /\ selects = 0 /\ inbox = {}

Tick == /\ clock < MaxTime
        /\ clock' = clock + 1
        /\ UNCHANGED <<link, pending, sent, linked, bound, crashes,
                       handlerVars, senderVars>>

(***************************************************************************)
(* The owner of an account.                                                *)
(***************************************************************************)
Expiry(t) == t + TTL

\* start_channel_link: a pending row under a placeholder.
Issue(c) ==
    /\ link[c].state = "absent"
    /\ link' = [link EXCEPT ![c] = [state |-> "pending",
                                    expires |-> Expiry(clock), chat |-> None]]
    /\ UNCHANGED <<clock, pending, sent, linked, bound, crashes, handlerVars,
                   senderVars>>

\* A handler between its UPDATE and its commit holds the row of the code, and
\* the chat in the unique index.
Staged(h) == pc[h] = "commit"
Locked(c) == \E h \in Handlers : Staged(h) /\ update[h][1] = c
Waits(chat) == \E h \in Handlers : Staged(h) /\ update[h][2] = chat

\* Mutant: a soft delete, which keeps the chat.
UnlinkSoft(c) ==
    /\ link[c].state \in {"pending", "verified"} /\ ~Locked(c)
    /\ link' = [link EXCEPT ![c].state = "gone"]
    /\ UNCHANGED <<clock, pending, sent, linked, bound, crashes, handlerVars,
                   senderVars>>

\* unlink_channel: the row is deleted, whatever its state, and its chat is free.
Unlink(c) ==
    /\ link[c].state \in {"pending", "verified"} /\ ~Locked(c)
    /\ link' = [link EXCEPT ![c].state = "gone", ![c].chat = None]
    /\ UNCHANGED <<clock, pending, sent, linked, bound, crashes, handlerVars,
                   senderVars>>

\* Somebody sends a code into a chat: an issued one, for no other is found.
Send ==
    /\ Cardinality(sent) < MaxUpdates
    /\ \E c \in Codes, chat \in Chats :
        /\ link[c].state # "absent"
        /\ <<c, chat>> \notin sent
        /\ sent' = sent \cup {<<c, chat>>}
        /\ pending' = pending \cup {<<c, chat>>}
    /\ UNCHANGED <<clock, link, linked, bound, crashes, handlerVars,
                   senderVars>>

(***************************************************************************)
(* The webhook.                                                            *)
(***************************************************************************)
\* Mutant: a group is as good as a direct chat.
EligibleAnyone(chat) == TRUE

Eligible(chat) == chat \in Private

\* An update arrives, perhaps not for the first time; the clock is read once.
Receive(h, u) ==
    /\ pc[h] = "idle" /\ u \in pending
    /\ update' = [update EXCEPT ![h] = u]
    /\ now' = [now EXCEPT ![h] = clock]
    /\ IF Eligible(u[2])
       THEN pc' = [pc EXCEPT ![h] = "claim"] /\ UNCHANGED reply
       ELSE /\ pc' = [pc EXCEPT ![h] = "answer"]
            /\ reply' = [reply EXCEPT ![h] = "not private"]
    /\ UNCHANGED <<clock, link, pending, sent, linked, bound, crashes,
                   senderVars>>

\* Mutant: the lookup and the write are two statements.
MatchesStale(h) == link[update[h][1]].state # "gone"

\* The WHERE of the UPDATE, on the committed row.
Matches(h) == LET row == link[update[h][1]]
              IN row.state = "pending" /\ row.expires > now[h]

\* Mutant: no ux_channel_external.
TakenNever(chat) == FALSE

\* ux_channel_external: the chat already has an account.
Taken(chat) == \E c \in Codes : link[c].chat = chat

\* Mutant: the collision is not caught.
RefusalUncaught(h) == "none"

\* What a claim that cannot succeed is answered; its transaction is rolled back.
Refusal(h) == IF Matches(h) THEN "taken" ELSE "bad code"

\* The UPDATE: it waits for the row, and if it changes it for the index entry.
Claim(h) ==
    /\ pc[h] = "claim"
    /\ ~Locked(update[h][1])
    /\ Matches(h) => ~Waits(update[h][2])
    /\ IF Matches(h) /\ ~Taken(update[h][2])
       THEN pc' = [pc EXCEPT ![h] = "commit"] /\ UNCHANGED reply
       ELSE /\ pc' = [pc EXCEPT ![h] = "answer"]
            /\ reply' = [reply EXCEPT ![h] = Refusal(h)]
    /\ UNCHANGED <<clock, link, pending, sent, linked, bound, crashes, update,
                   now, senderVars>>

\* Mutant: the handler answers and the session is closed without a commit.
CommitForgotten(h) ==
    /\ pc[h] = "commit"
    /\ reply' = [reply EXCEPT ![h] = "ok"]
    /\ pc' = [pc EXCEPT ![h] = "answer"]
    /\ UNCHANGED <<clock, link, pending, sent, linked, bound, crashes, update,
                   now, senderVars>>

Commit(h) ==
    /\ pc[h] = "commit"
    /\ link' = [link EXCEPT ![update[h][1]].state = "verified",
                            ![update[h][1]].chat = update[h][2]]
    /\ bound' = bound \cup {update[h]}
    /\ reply' = [reply EXCEPT ![h] = "ok"]
    /\ pc' = [pc EXCEPT ![h] = "answer"]
    /\ UNCHANGED <<clock, pending, sent, linked, crashes, update, now,
                   senderVars>>

Idle(h) == /\ pc' = [pc EXCEPT ![h] = "idle"]
           /\ reply' = [reply EXCEPT ![h] = "none"]
           /\ update' = [update EXCEPT ![h] = AnyUpdate]
           /\ now' = [now EXCEPT ![h] = 0]

\* 200: Telegram forgets the update.
Answer(h) ==
    /\ pc[h] = "answer"
    /\ reply[h] # "none"
    /\ linked' = IF reply[h] = "ok" THEN linked \cup {update[h]} ELSE linked
    /\ pending' = pending \ {update[h]}
    /\ Idle(h)
    /\ UNCHANGED <<clock, link, sent, bound, crashes, senderVars>>

\* The request ends without an answer: a process that dies, a database that is
\* away, a response that is lost.  What is not committed is rolled back.
Crash(h) ==
    /\ pc[h] # "idle" /\ crashes < MaxCrashes
    /\ crashes' = crashes + 1
    /\ Idle(h)
    /\ UNCHANGED <<clock, link, pending, sent, linked, bound, senderVars>>

(***************************************************************************)
(* Delivery.                                                               *)
(***************************************************************************)
\* Mutant: the join forgets verified.
DeliverableAll == {<<Owner[c], link[c].chat>> : c \in
                      {d \in Codes : link[d].state \in {"pending", "verified"}}}

\* The join of deliver_digests, and the select of _channels_for.
Deliverable == {<<Owner[c], link[c].chat>> : c \in
                   {d \in Codes : link[d].state = "verified"}}

Select(s) ==
    /\ rows[s] = {} /\ selects < MaxSends
    /\ Deliverable # {}
    /\ rows' = [rows EXCEPT ![s] = Deliverable]
    /\ selects' = selects + 1
    /\ UNCHANGED <<clock, link, pending, sent, linked, bound, crashes,
                   handlerVars, inbox>>

\* The address is the one that was read, whatever became of the link.
Deliver(s) ==
    /\ \E r \in rows[s] :
        /\ inbox' = inbox \cup {r}
        /\ rows' = [rows EXCEPT ![s] = @ \ {r}]
    /\ UNCHANGED <<clock, link, pending, sent, linked, bound, crashes,
                   handlerVars, selects>>

Step(h) == Claim(h) \/ Commit(h) \/ Answer(h)

Next == \/ Tick \/ Send
        \/ \E c \in Codes : Issue(c) \/ Unlink(c)
        \/ \E h \in Handlers : Step(h) \/ Crash(h)
        \/ \E h \in Handlers, u \in Updates : Receive(h, u)
        \/ \E s \in Senders : Select(s) \/ Deliver(s)

Spec == Init /\ [][Next]_vars

\* A process executes the request it has, and Telegram repeats an update that
\* was not answered.  Nothing makes anybody send, unlink or crash.
Fairness == /\ \A h \in Handlers : WF_vars(Step(h))
            /\ \A u \in Updates : WF_vars(\E h \in Handlers : Receive(h, u))

FairSpec == Spec /\ Fairness

-----------------------------------------------------------------------------
(***************************************************************************)
(* The inductive invariants the proofs rest on.                            *)
(***************************************************************************)
\* A claim that is not committed holds a pending row and a free chat, which no
\* other claim holds.
ClaimInv ==
    /\ \A h \in Handlers :
          pc[h] = "commit" => /\ link[update[h][1]].state = "pending"
                              /\ ~Taken(update[h][2])
    /\ \A g, h \in Handlers :
          g # h /\ pc[g] = "commit" /\ pc[h] = "commit" =>
              update[g][1] # update[h][1] /\ update[g][2] # update[h][2]
    /\ \A c, d \in Codes : c # d /\ link[c].chat = link[d].chat => link[c].chat = None

\* Bindings are made of updates from direct chats, one for a code that has left
\* the pending state, and "Linked" is only said of them.
BoundInv ==
    /\ \A h \in Handlers : pc[h] # "idle" => update[h] \in sent
    /\ \A h \in Handlers :
          pc[h] \in {"claim", "commit"} => update[h][2] \in Private
    /\ \A h \in Handlers :
          reply[h] = "ok" => pc[h] = "answer" /\ update[h] \in bound
    /\ \A x \in bound : /\ x \in sent /\ x[2] \in Private
                         /\ link[x[1]].state \in {"verified", "gone"}
    /\ \A x, y \in bound : x[1] = y[1] => x = y
    /\ \A c \in Codes : link[c].chat # None => <<c, link[c].chat>> \in bound
    /\ linked \subseteq bound

\* Every address in use belongs to a binding of its user, present or past.
Proven(r) == \E c \in Codes : Owner[c] = r[1] /\ <<c, r[2]>> \in bound
HeardInv == /\ \A s \in Senders : \A r \in rows[s] : Proven(r)
            /\ \A r \in inbox : Proven(r)

-----------------------------------------------------------------------------
\* One chat, one account, however many claims race for it: the unique
\* constraint catches what _consume_code's UPDATE cannot see.
OneAccountPerChat ==
    \A c, d \in Codes :
        /\ link[c].state = "verified" /\ link[d].state = "verified"
        /\ link[c].chat = link[d].chat
        => c = d

\* A code binds one chat in its whole life, though it may be sent into several
\* at the same time, be delivered twice, or be unlinked half way.
CodeBindsOnce == \A x, y \in bound : x[1] = y[1] => x = y

\* Telegram is told "Linked" only of a binding that was committed.
OkMeansBound == linked \subseteq bound

\* A user's message only reaches direct chats that have themselves sent a code
\* of that user, also when the chat is unlinked, or bound to somebody else,
\* between the reading of the address and the sending.
HeardOnlyByOwner ==
    \A m \in inbox :
        /\ m[2] \in Private
        /\ \E c \in Codes : Owner[c] = m[1] /\ <<c, m[2]>> \in sent

\* Telegram does not repeat an update for ever: a claim that collides, comes
\* late, comes twice or comes from a group is answered in the end.  Once nobody
\* sends any more the backlog is empty.
BacklogDrains == []<>(pending = {})
=============================================================================
