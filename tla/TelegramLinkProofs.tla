-------------------------- MODULE TelegramLinkProofs --------------------------
(***************************************************************************)
(* Proofs about TelegramLink, for every number of accounts, codes, chats,  *)
(* processes, updates and crashes.                                         *)
(***************************************************************************)
EXTENDS TelegramLink, TLAPS

LEMMA AnyUpdateType == AnyUpdate \in Updates
  <1>1. PICK c \in Codes, chat \in Chats : TRUE
    BY CodesAssumption
  <1>2. <<c, chat>> \in Updates
    BY DEF Updates
  <1> QED
    BY <1>2 DEF AnyUpdate

\* The bounds are naturals, and zero is below each of them.
LEMMA Limits == /\ TTL \in Nat /\ MaxTime \in Nat /\ MaxUpdates \in Nat
                /\ MaxCrashes \in Nat /\ MaxSends \in Nat
                /\ 0 \in 0..MaxTime
  <1>1. MaxTime \in Nat
    BY LimitsAssumption
  <1> QED
    BY <1>1, LimitsAssumption

LEMMA UpdateParts == ASSUME NEW u \in Updates
                     PROVE /\ u[1] \in Codes /\ u[2] \in Chats
                           /\ u = <<u[1], u[2]>> /\ u[2] # None
  BY ChatsAssumption DEF Updates

-----------------------------------------------------------------------------
(***************************************************************************)
(* Types.                                                                  *)
(***************************************************************************)
LEMMA TypeInit == Init => TypeOK
  BY AnyUpdateType, Limits
     DEF Init, TypeOK, Absent, Links, State, Replies

LEMMA TypeIssue ==
  ASSUME TypeOK, NEW c \in Codes, Issue(c) \/ Unlink(c)
  PROVE TypeOK'
  <1> USE DEF TypeOK, handlerVars, senderVars
  <1>1. CASE Issue(c)
    <2>1. clock + TTL \in Nat
      BY Limits
    <2> DEFINE row == [state |-> "pending", expires |-> clock + TTL, chat |-> None]
    <2>2. row \in Links
      BY <2>1 DEF Links, State
    <2>3. link' \in [Codes -> Links]
      BY <1>1, <2>2 DEF Issue, Expiry
    <2>4. \A d \in Codes : link'[d].state = "verified" <=> link'[d].chat # None
      BY <1>1 DEF Issue
    <2> QED
      BY <1>1, <2>3, <2>4 DEF Issue
  <1>2. CASE Unlink(c)
    <2> DEFINE row == [link[c] EXCEPT !.state = "gone", !.chat = None]
    <2>1. row \in Links
      BY DEF Links, State
    <2>2. link' = [link EXCEPT ![c] = row]
      BY <1>2 DEF Unlink
    <2>3. link' \in [Codes -> Links]
      BY <2>1, <2>2
    <2>4. \A d \in Codes : link'[d].state = "verified" <=> link'[d].chat # None
      BY <1>2 DEF Unlink, Links
    <2> QED
      BY <1>2, <2>3, <2>4 DEF Unlink
  <1> QED
    BY <1>1, <1>2

LEMMA TypeHandler ==
  ASSUME TypeOK, NEW h \in Handlers, Step(h) \/ Crash(h)
  PROVE TypeOK'
  <1> USE DEF TypeOK, handlerVars, senderVars
  <1>1. CASE Claim(h)
    BY <1>1 DEF Claim, Refusal, Replies
  <1>2. CASE Commit(h)
    <2>1. update[h][1] \in Codes /\ update[h][2] \in Chats /\ update[h][2] # None
      BY UpdateParts
    <2>2. link' \in [Codes -> Links]
      BY <1>2, <2>1 DEF Commit, Links, State
    <2>3. \A d \in Codes : link'[d].state = "verified" <=> link'[d].chat # None
      BY <1>2, <2>1 DEF Commit, Links
    <2>4. bound' \subseteq Updates /\ pc' \in [Handlers -> {"idle", "claim", "commit", "answer"}]
      BY <1>2 DEF Commit
    <2>5. reply' \in [Handlers -> Replies]
      BY <1>2 DEF Commit, Replies
    <2> QED
      BY <1>2, <2>2, <2>3, <2>4, <2>5 DEF Commit
  <1>3. ASSUME Idle(h)
        PROVE  /\ pc' \in [Handlers -> {"idle", "claim", "commit", "answer"}]
               /\ update' \in [Handlers -> Updates]
               /\ now' \in [Handlers -> 0..MaxTime]
               /\ reply' \in [Handlers -> Replies]
    <2>1. "none" \in Replies
      BY DEF Replies
    <2> QED
      BY <1>3, <2>1, AnyUpdateType, Limits DEF Idle
  <1>4. CASE Answer(h)
    BY <1>3, <1>4 DEF Answer
  <1>5. CASE Crash(h)
    <2>1. crashes' \in 0..MaxCrashes
      BY <1>5, Limits DEF Crash
    <2> QED
      BY <1>3, <1>5, <2>1 DEF Crash
  <1> QED
    BY <1>1, <1>2, <1>4, <1>5 DEF Step

LEMMA TypeReceive ==
  ASSUME TypeOK, NEW h \in Handlers, NEW u \in Updates, Receive(h, u)
  PROVE TypeOK'
  BY DEF TypeOK, Receive, Replies, senderVars

LEMMA TypeSender ==
  ASSUME TypeOK, NEW s \in Senders, Select(s) \/ Deliver(s)
  PROVE TypeOK'
  <1> USE DEF TypeOK, handlerVars
  <1>1. CASE Select(s)
    <2>1. Deliverable \subseteq Users \X (Chats \cup {None})
      BY CodesAssumption DEF Deliverable, Links
    <2>2. selects' \in 0..MaxSends
      BY <1>1, Limits DEF Select
    <2> QED
      BY <1>1, <2>1, <2>2 DEF Select
  <1>2. CASE Deliver(s)
    BY <1>2 DEF Deliver
  <1> QED
    BY <1>1, <1>2

LEMMA TypeWorld ==
  ASSUME TypeOK, Tick \/ Send
  PROVE TypeOK'
  <1>1. CASE Tick
    BY <1>1, Limits DEF TypeOK, Tick, handlerVars, senderVars
  <1>2. CASE Send
    BY <1>2 DEF TypeOK, Send, Updates, handlerVars, senderVars
  <1> QED
    BY <1>1, <1>2

LEMMA TypeStep == TypeOK /\ [Next]_vars => TypeOK'
  <1> SUFFICES ASSUME TypeOK, [Next]_vars PROVE TypeOK'
    OBVIOUS
  <1>1. CASE UNCHANGED vars
    BY <1>1 DEF TypeOK, vars
  <1> QED
    BY <1>1, TypeWorld, TypeIssue, TypeHandler, TypeReceive, TypeSender DEF Next

\* Every variable of the linking keeps its type, and a row has a chat exactly
\* while it is verified: the placeholder is gone and a freed chat is free.
THEOREM LinkTypes == Spec => []TypeOK
  BY TypeInit, TypeStep, PTL DEF Spec

-----------------------------------------------------------------------------
(***************************************************************************)
(* Claims: the row and the chat of an uncommitted claim are its own.       *)
(***************************************************************************)
LEMMA ClaimUsers ==
  ASSUME TypeOK, ClaimInv, NEW c \in Codes, Issue(c) \/ Unlink(c)
  PROVE ClaimInv'
  <1> USE DEF TypeOK, ClaimInv, handlerVars
  <1>1. CASE Issue(c)
    <2>1. \A d \in Codes : link'[d].chat = link[d].chat
      BY <1>1 DEF Issue
    <2>2. \A d \in Codes : link[d].state = "pending" => link'[d].state = "pending"
      BY <1>1 DEF Issue
    <2> QED
      BY <1>1, <2>1, <2>2, UpdateParts DEF Issue, Taken
  <1>2. CASE Unlink(c)
    <2>1. \A d \in Codes : link'[d].chat = IF d = c THEN None ELSE link[d].chat
      BY <1>2 DEF Unlink, Links
    <2>2. \A d \in Codes : d # c => link'[d].state = link[d].state
      BY <1>2 DEF Unlink
    <2>3. \A h \in Handlers : pc[h] = "commit" => update[h][1] # c
      BY <1>2 DEF Unlink, Locked, Staged
    <2> QED
      BY <1>2, <2>1, <2>2, <2>3, UpdateParts DEF Unlink, Taken
  <1> QED
    BY <1>1, <1>2

LEMMA ClaimClaim ==
  ASSUME TypeOK, ClaimInv, NEW h \in Handlers, Claim(h)
  PROVE ClaimInv'
  <1> USE DEF TypeOK, ClaimInv, Claim
  <1>1. CASE pc'[h] = "commit"
    <2>1. Matches(h) /\ ~Taken(update[h][2]) /\ ~Locked(update[h][1])
          /\ ~Waits(update[h][2])
      BY <1>1
    <2>2. \A g \in Handlers \ {h} : pc[g] = "commit" =>
             update[g][1] # update[h][1] /\ update[g][2] # update[h][2]
      BY <2>1 DEF Locked, Waits, Staged
    <2>3. \A g \in Handlers \ {h} : pc'[g] = pc[g]
      OBVIOUS
    <2> QED
      BY <2>1, <2>2, <2>3 DEF Matches, Taken
  <1>2. CASE pc'[h] # "commit"
    BY <1>2 DEF Taken
  <1> QED
    BY <1>1, <1>2

LEMMA ClaimCommit ==
  ASSUME TypeOK, ClaimInv, NEW h \in Handlers, Commit(h)
  PROVE ClaimInv'
  <1> USE DEF TypeOK, ClaimInv, Commit
  <1> DEFINE k == update[h][1]
             p == update[h][2]
  <1>1. k \in Codes /\ p \in Chats /\ p # None
    BY UpdateParts
  <1>2. \A d \in Codes : link'[d].chat = IF d = k THEN p ELSE link[d].chat
    BY <1>1 DEF Links
  <1>3. \A d \in Codes : d # k => link'[d].state = link[d].state
    BY <1>1
  <1>4. \A d \in Codes : link[d].chat # p
    BY DEF Taken
  <1>5. \A g \in Handlers : pc'[g] = "commit" =>
           g # h /\ pc[g] = "commit" /\ update[g][1] # k /\ update[g][2] # p
    OBVIOUS
  <1>6. \A c, d \in Codes : c # d /\ link'[c].chat = link'[d].chat => link'[c].chat = None
    BY <1>2, <1>4
  <1>7. \A g \in Handlers : pc'[g] = "commit" =>
           link'[update[g][1]].state = "pending" /\ ~Taken(update[g][2])'
    BY <1>2, <1>3, <1>5, UpdateParts DEF Taken
  <1>8. \A f, g \in Handlers : f # g /\ pc'[f] = "commit" /\ pc'[g] = "commit" =>
           update'[f][1] # update'[g][1] /\ update'[f][2] # update'[g][2]
    BY <1>5
  <1>9. update' = update
    OBVIOUS
  <1>10. \A g \in Handlers : pc'[g] = "commit" =>
            link'[update'[g][1]].state = "pending" /\ ~Taken(update[g][2])'
    BY <1>7, <1>9
  <1> HIDE DEF TypeOK, Commit
  <1> QED
    BY <1>6, <1>8, <1>9, <1>10

LEMMA ClaimStep == TypeOK /\ ClaimInv /\ [Next]_vars => ClaimInv'
  <1> SUFFICES ASSUME TypeOK, ClaimInv, [Next]_vars PROVE ClaimInv'
    OBVIOUS
  <1> USE DEF TypeOK, ClaimInv, Taken
  <1>1. CASE UNCHANGED vars
    BY <1>1 DEF vars
  <1>2. CASE Tick \/ Send
    BY <1>2 DEF Tick, Send, handlerVars
  <1>3. ASSUME NEW h \in Handlers, NEW u \in Updates, Receive(h, u) PROVE ClaimInv'
    <2>1. \A g \in Handlers : pc'[g] = "commit" =>
             pc[g] = "commit" /\ update'[g] = update[g]
      BY <1>3 DEF Receive
    <2>2. link' = link
      BY <1>3 DEF Receive
    <2> QED
      BY <2>1, <2>2
  <1>4. ASSUME NEW h \in Handlers, Answer(h) \/ Crash(h) PROVE ClaimInv'
    BY <1>4 DEF Answer, Crash, Idle
  <1>5. ASSUME NEW s \in Senders, Select(s) \/ Deliver(s) PROVE ClaimInv'
    BY <1>5 DEF Select, Deliver, handlerVars
  <1> QED
    BY <1>1, <1>2, <1>3, <1>4, <1>5, ClaimUsers, ClaimClaim, ClaimCommit
       DEF Next, Step

THEOREM ClaimInvariant == Spec => []ClaimInv
  <1>1. Init => ClaimInv
    BY DEF Init, ClaimInv, Absent
  <1> QED
    BY <1>1, LinkTypes, ClaimStep, PTL DEF Spec

\* One chat, one account, however many claims race for it.
THEOREM ChatHasOneAccount == Spec => []OneAccountPerChat
  <1>1. TypeOK /\ ClaimInv => OneAccountPerChat
    BY DEF TypeOK, ClaimInv, OneAccountPerChat
  <1> QED
    BY <1>1, LinkTypes, ClaimInvariant, PTL

-----------------------------------------------------------------------------
(***************************************************************************)
(* Bindings: where they come from, and what is said of them.               *)
(***************************************************************************)
LEMMA BoundUsers ==
  ASSUME TypeOK, BoundInv, NEW c \in Codes, Issue(c) \/ Unlink(c)
  PROVE BoundInv'
  <1> USE DEF TypeOK, BoundInv, handlerVars
  <1>1. CASE Issue(c)
    <2>1. \A d \in Codes : link'[d].chat = link[d].chat
      BY <1>1 DEF Issue
    <2>2. \A d \in Codes : link[d].state \in {"verified", "gone"} => link'[d] = link[d]
      BY <1>1 DEF Issue
    <2>3. \A x \in bound : link'[x[1]].state \in {"verified", "gone"}
      BY <2>2, UpdateParts
    <2> QED
      BY <1>1, <2>1, <2>3 DEF Issue
  <1>2. CASE Unlink(c)
    <2>1. \A d \in Codes : link'[d].chat = IF d = c THEN None ELSE link[d].chat
      BY <1>2 DEF Unlink, Links
    <2>2. \A d \in Codes : link[d].state \in {"verified", "gone"} =>
             link'[d].state \in {"verified", "gone"}
      BY <1>2 DEF Unlink, Links
    <2>3. \A x \in bound : link'[x[1]].state \in {"verified", "gone"}
      BY <2>2, UpdateParts
    <2> QED
      BY <1>2, <2>1, <2>3 DEF Unlink
  <1> QED
    BY <1>1, <1>2

LEMMA BoundCommit ==
  ASSUME TypeOK, ClaimInv, BoundInv, NEW h \in Handlers, Commit(h)
  PROVE BoundInv'
  <1> USE DEF TypeOK, BoundInv, Commit
  <1> DEFINE k == update[h][1]
             p == update[h][2]
  <1>1. k \in Codes /\ p \in Chats /\ update[h] = <<k, p>>
    BY UpdateParts
  <1>2. \A x \in bound : x[1] # k /\ x[1] \in Codes
    BY UpdateParts DEF ClaimInv
  <1>3. \A d \in Codes : link'[d].chat = IF d = k THEN p ELSE link[d].chat
    BY <1>1 DEF Links
  <1>4. /\ link'[k].state = "verified"
        /\ \A d \in Codes : d # k => link'[d].state = link[d].state
    BY <1>1 DEF Links
  <1>5. \A x \in bound' : /\ x \in sent /\ x[2] \in Private
                          /\ link'[x[1]].state \in {"verified", "gone"}
    BY <1>1, <1>2, <1>4
  <1>6. \A x, y \in bound' : x[1] = y[1] => x = y
    BY <1>1, <1>2
  <1>7. \A c \in Codes : link'[c].chat # None => <<c, link'[c].chat>> \in bound'
    BY <1>1, <1>3
  <1>8. \A g \in Handlers : reply'[g] = "ok" =>
           pc'[g] = "answer" /\ update'[g] \in bound'
    OBVIOUS
  <1>9. \A g \in Handlers : /\ pc'[g] # "idle" => update'[g] \in sent'
                            /\ pc'[g] \in {"claim", "commit"} => update'[g][2] \in Private
    OBVIOUS
  <1> QED
    BY <1>5, <1>6, <1>7, <1>8, <1>9

LEMMA BoundStep == TypeOK /\ ClaimInv /\ BoundInv /\ [Next]_vars => BoundInv'
  <1> SUFFICES ASSUME TypeOK, ClaimInv, BoundInv, [Next]_vars PROVE BoundInv'
    OBVIOUS
  <1> USE DEF TypeOK, BoundInv
  <1>1. CASE UNCHANGED vars
    BY <1>1 DEF vars
  <1>2. CASE Tick \/ Send
    BY <1>2 DEF Tick, Send, handlerVars
  <1>3. ASSUME NEW h \in Handlers, NEW u \in Updates, Receive(h, u) PROVE BoundInv'
    <2>1. pc[h] = "idle" /\ u \in sent /\ (pc'[h] = "claim" => u[2] \in Private)
      BY <1>3 DEF Receive, Eligible
    <2>2. \A g \in Handlers : reply'[g] = "ok" => g # h /\ reply[g] = "ok"
      BY <1>3, <2>1 DEF Receive
    <2>3. \A g \in Handlers : g # h => pc'[g] = pc[g] /\ update'[g] = update[g]
      BY <1>3 DEF Receive
    <2>4. update'[h] = u /\ pc'[h] # "commit"
      BY <1>3 DEF Receive
    <2>5. UNCHANGED <<link, sent, bound, linked>>
      BY <1>3 DEF Receive
    <2>6. \A g \in Handlers : /\ pc'[g] # "idle" => update'[g] \in sent'
                              /\ pc'[g] \in {"claim", "commit"} => update'[g][2] \in Private
      BY <2>1, <2>3, <2>4, <2>5
    <2>7. \A g \in Handlers : reply'[g] = "ok" => pc'[g] = "answer" /\ update'[g] \in bound'
      BY <2>2, <2>3, <2>5
    <2> QED
      BY <2>5, <2>6, <2>7
  <1>4. ASSUME NEW h \in Handlers, Claim(h) PROVE BoundInv'
    <2>1. \A g \in Handlers : reply'[g] = "ok" => g # h /\ reply[g] = "ok"
      BY <1>4 DEF Claim, Refusal
    <2>2. \A g \in Handlers : /\ g # h => pc'[g] = pc[g]
                              /\ pc'[g] = "commit" => pc[g] \in {"claim", "commit"}
                              /\ pc'[g] = "claim" => pc[g] = "claim"
                              /\ pc'[g] # "idle" => pc[g] # "idle"
      BY <1>4 DEF Claim
    <2>3. UNCHANGED <<link, sent, bound, linked, update>>
      BY <1>4 DEF Claim
    <2> QED
      BY <2>1, <2>2, <2>3
  <1>5. ASSUME NEW h \in Handlers, Answer(h) \/ Crash(h) PROVE BoundInv'
    BY <1>5 DEF Answer, Crash, Idle
  <1>6. ASSUME NEW s \in Senders, Select(s) \/ Deliver(s) PROVE BoundInv'
    BY <1>6 DEF Select, Deliver, handlerVars
  <1> QED
    BY <1>1, <1>2, <1>3, <1>4, <1>5, <1>6, BoundUsers, BoundCommit DEF Next, Step

THEOREM BoundInvariant == Spec => []BoundInv
  <1>1. Init => BoundInv
    BY DEF Init, BoundInv, Absent
  <1> QED
    BY <1>1, LinkTypes, ClaimInvariant, BoundStep, PTL DEF Spec

\* A code binds one chat in its whole life.
THEOREM CodeIsUsedOnce == Spec => []CodeBindsOnce
  <1>1. BoundInv => CodeBindsOnce
    BY DEF BoundInv, CodeBindsOnce
  <1> QED
    BY <1>1, BoundInvariant, PTL

\* Telegram is told "Linked" only of a binding that was committed.
THEOREM OkIsTrue == Spec => []OkMeansBound
  <1>1. BoundInv => OkMeansBound
    BY DEF BoundInv, OkMeansBound
  <1> QED
    BY <1>1, BoundInvariant, PTL

-----------------------------------------------------------------------------
(***************************************************************************)
(* Deliveries: an address that was read stays one its user has proven.     *)
(***************************************************************************)
LEMMA BoundGrows == [Next]_vars => bound \subseteq bound'
  <1> SUFFICES ASSUME [Next]_vars PROVE bound \subseteq bound'
    OBVIOUS
  <1> USE DEF Issue, Unlink, Tick, Send, Receive, Claim, Commit, Answer, Crash,
              Select, Deliver, vars
  <1> QED
    BY DEF Next, Step

LEMMA HeardStep == TypeOK /\ BoundInv /\ HeardInv /\ [Next]_vars => HeardInv'
  <1> SUFFICES ASSUME TypeOK, BoundInv, HeardInv, [Next]_vars PROVE HeardInv'
    OBVIOUS
  <1>1. \A r : Proven(r) => Proven(r)'
    BY BoundGrows DEF Proven
  <1>2. ASSUME NEW s \in Senders, Select(s) PROVE HeardInv'
    <2>1. \A r \in Deliverable : Proven(r)
      BY DEF Deliverable, Proven, BoundInv, TypeOK
    <2>2. \A t \in Senders : rows'[t] = rows[t] \/ rows'[t] = Deliverable
      BY <1>2 DEF Select, TypeOK
    <2> QED
      BY <1>1, <1>2, <2>1, <2>2 DEF HeardInv, Select
  <1>3. ASSUME NEW s \in Senders, Deliver(s) PROVE HeardInv'
    BY <1>1, <1>3 DEF HeardInv, Deliver, TypeOK
  <1>4. CASE UNCHANGED <<rows, inbox>>
    BY <1>1, <1>4 DEF HeardInv
  <1> QED
    BY <1>2, <1>3, <1>4 DEF Next, Step, Issue, Unlink, Tick, Send, Receive,
       Claim, Commit, Answer, Crash, vars, senderVars

THEOREM HeardInvariant == Spec => []HeardInv
  <1>1. Init => HeardInv
    BY DEF Init, HeardInv
  <1> QED
    BY <1>1, LinkTypes, BoundInvariant, HeardStep, PTL DEF Spec

\* A message only reaches a direct chat that has sent a code of its user, also
\* when the link goes away between the reading of the address and the sending.
THEOREM OnlyOwnersHear == Spec => []HeardOnlyByOwner
  <1>1. BoundInv /\ HeardInv => HeardOnlyByOwner
    BY DEF BoundInv, HeardInv, HeardOnlyByOwner, Proven
  <1> QED
    BY <1>1, BoundInvariant, HeardInvariant, PTL
=============================================================================
