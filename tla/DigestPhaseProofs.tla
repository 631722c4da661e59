-------------------------- MODULE DigestPhaseProofs --------------------------
(***************************************************************************)
(* Proofs about DigestPhase, for every number of users, chats, workers,    *)
(* nights, manual runs and retries, and with or without advisory locks.    *)
(***************************************************************************)
EXTENDS DigestPhase, TLAPS

LEMMA AnyUserType == AnyUser \in Users
  BY UsersAssumption DEF AnyUser

\* Every action keeps the variables in their types.
LEMMA TypeInit == Init => TypeOK
  <1> SUFFICES ASSUME Init PROVE TypeOK
    OBVIOUS
  <1>1. 0 \in 0..Nights /\ 0 \in 0..ManualRuns
    BY NightsAssumption, BoundsAssumption
  <1> QED
    BY <1>1, AnyUserType DEF Init, TypeOK, DeliveryStatus, Places, NoPeriod

LEMMA TypeTake ==
  ASSUME TypeOK, NEW w \in Workers,
         NightlyPipeline(w) \/ ManualRun(w) \/ TakeRetry(w)
  PROVE TypeOK'
  <1> USE DEF TypeOK, Take, dbVars, genVars, rowVars, Places
  <1>1. CASE NightlyPipeline(w)
    <2>1. night' \in 0..Nights /\ night' + manual \in Chains /\ Due(night') \subseteq Periods
      BY <1>1, NightsAssumption, BoundsAssumption DEF NightlyPipeline, Chains, Due
    <2>2. Fresh \in Messages
      BY <1>1, <2>1, BoundsAssumption DEF NightlyPipeline, Fresh, Messages
    <2> QED
      BY <1>1, <2>1, <2>2 DEF NightlyPipeline
  <1>2. CASE ManualRun(w)
    <2>1. manual' \in 0..ManualRuns /\ night + manual' \in Chains /\ Due(night) \subseteq Periods
      BY <1>2, NightsAssumption, BoundsAssumption DEF ManualRun, Chains, Due
    <2>2. Fresh \in Messages
      BY <1>2, <2>1, BoundsAssumption DEF ManualRun, Fresh, Messages
    <2> QED
      BY <1>2, <2>1, <2>2 DEF ManualRun
  <1>3. CASE TakeRetry(w)
    BY <1>3 DEF TakeRetry, Messages
  <1> QED
    BY <1>1, <1>2, <1>3

LEMMA TypeGeneration ==
  ASSUME TypeOK, NEW w \in Workers,
         Acquire(w) \/ Skip(w) \/ Generate(w) \/ Commit(w) \/ RollBack(w)
  PROVE TypeOK'
  <1> USE DEF TypeOK, dbVars, tallyVars, jobVars, genVars, rowVars, Places
  <1>1. CASE Acquire(w)
    BY <1>1 DEF Acquire
  <1>2. CASE Skip(w)
    BY <1>2 DEF Skip
  <1>3. CASE Generate(w)
    BY <1>3 DEF Generate
  <1>4. CASE Commit(w)
    BY <1>4 DEF Commit, Released, Keys
  <1>5. CASE RollBack(w)
    BY <1>5 DEF RollBack, Released, Generating, NoPeriod
  <1> QED
    BY <1>1, <1>2, <1>3, <1>4, <1>5

LEMMA TypeDelivery ==
  ASSUME TypeOK, NEW w \in Workers,
         \/ Select(w) \/ NextRow(w) \/ Insert(w) \/ Send(w)
         \/ SettleRecord(w) \/ Delivered(w) \/ Abandon(w)
  PROVE TypeOK'
  <1> USE AnyUserType
          DEF TypeOK, dbVars, tallyVars, jobVars, genVars, rowVars, Places, Keys
  <1>1. CASE Select(w)
    BY <1>1 DEF Select, Deliverable
  <1>2. CASE NextRow(w)
    <2>1. PICK r \in rows[w] : NextRow(w)!2!(r)
      BY <1>2 DEF NextRow
    <2>2. r \in Users \X Slots
      BY <2>1
    <2>3. r[1] \in Users
      BY <2>2
    <2>4. rows' \in [Workers -> SUBSET (Users \X Slots)]
      BY <2>1
    <2>5. target' \in [Workers -> Users] /\ pc' \in [Workers -> Places]
      BY <2>1, <2>3
    <2>6. \A v \in Workers : pc'[v] \notin {"idle", "begin"} => cur[v] \in Periods
      BY <1>2, <2>1 DEF NextRow
    <2>7. \A v \in Workers : pc'[v] # "idle" => job[v] \in Messages
      BY <1>2, <2>1 DEF NextRow
    <2> QED
      BY <1>2, <2>4, <2>5, <2>6, <2>7 DEF NextRow
  <1>3. CASE Insert(w)
    BY <1>3 DEF Insert, DeliveryStatus
  <1>4. CASE Send(w)
    <2>1. PICK o \in Outcomes : Send(w)!2!(o)
      BY <1>4 DEF Send
    <2>0. o[1] \in Nat /\ o[2] \in {"sent", "suppressed", "failed"}
      BY DEF Outcomes
    <2>2. /\ inbox' \in [Keys -> Nat]
          /\ result' \in [Workers -> {"sent", "suppressed", "failed"}]
      <3>1. result' = [result EXCEPT ![w] = o[2]]
        BY <2>1
      <3>2. inbox' = [inbox EXCEPT ![<<target[w], cur[w]>>] = @ + o[1]]
        BY <2>1
      <3>3. \A k \in Keys : inbox[k] \in Nat /\ inbox[k] + o[1] \in Nat
        BY <2>0
      <3> QED
        BY <2>0, <3>1, <3>2, <3>3
    <2>3. pc' = [pc EXCEPT ![w] = "settle"] /\ pc[w] = "send"
      BY <1>4 DEF Send
    <2>4. UNCHANGED <<digests, record, wants, links, lock, queue, night, manual,
                      owed, unresolved, lost, todo, job, failed, piped, cur,
                      staged, broken, rows, target>>
      BY <1>4 DEF Send
    <2> QED
      BY <2>2, <2>3, <2>4
  <1>5. CASE SettleRecord(w)
    BY <1>5 DEF SettleRecord, DeliveryStatus
  <1>6. CASE Delivered(w)
    BY <1>6 DEF Delivered, NoPeriod
  <1>7. CASE Abandon(w)
    BY <1>7 DEF Abandon, ClearRows, NoPeriod
  <1> QED
    BY <1>1, <1>2, <1>3, <1>4, <1>5, <1>6, <1>7

LEMMA TypeEnd ==
  ASSUME TypeOK, NEW w \in Workers,
         Finish(w) \/ Retry(w) \/ GiveUp(w) \/ Killed(w)
  PROVE TypeOK'
  <1> USE AnyUserType DEF TypeOK, dbVars, genVars, rowVars, Places, Leave, Ended
  <1>1. CASE Finish(w)
    BY <1>1 DEF Finish
  <1>2. CASE Retry(w)
    <2>1. job[w] \in Messages
      BY <1>2 DEF Retry
    <2>2. RetryMessage(w) \in Messages
      <3>1. failed[w] \in SUBSET Periods /\ piped[w] \in BOOLEAN
        OBVIOUS
      <3>2. ~piped[w] => job[w].retries + 1 \in 0..DigestMaxRetries
        BY <1>2, <2>1, BoundsAssumption DEF Retry, Exhausted, Messages
      <3>3. 0 \in 0..DigestMaxRetries
        BY BoundsAssumption
      <3> QED
        BY <2>1, <3>1, <3>2, <3>3 DEF RetryMessage, Messages
    <2> QED
      BY <1>2, <2>2 DEF Retry
  <1>3. CASE GiveUp(w)
    BY <1>3 DEF GiveUp
  <1>4. CASE Killed(w)
    <2>1. lost' \subseteq Periods
      BY <1>4 DEF Killed, Generating
    <2>2. lock' \in [Periods -> Workers \cup {None}]
      BY <1>4 DEF Killed, Released
    <2> QED
      BY <1>4, <2>1, <2>2 DEF Killed, ClearRows, NoPeriod
  <1> QED
    BY <1>1, <1>2, <1>3, <1>4

\* The environment: users switch off and unlink.
LEMMA TypeUser ==
  ASSUME TypeOK,
         (\E u \in Users : SwitchOff(u)) \/ (\E r \in links : Unlink(r))
  PROVE TypeOK'
  <1> USE DEF TypeOK, tallyVars, jobVars, genVars, rowVars
  <1>1. ASSUME NEW u \in Users, SwitchOff(u) PROVE TypeOK'
    BY <1>1 DEF SwitchOff
  <1>2. ASSUME NEW r \in links, Unlink(r) PROVE TypeOK'
    BY <1>2 DEF Unlink
  <1> QED
    BY <1>1, <1>2

LEMMA TypeStep == TypeOK /\ [Next]_vars => TypeOK'
  <1> SUFFICES ASSUME TypeOK, [Next]_vars PROVE TypeOK'
    OBVIOUS
  <1>1. CASE UNCHANGED vars
    BY <1>1 DEF vars, TypeOK
  <1>2. CASE Next
    <2>1. ASSUME NEW w \in Workers, Start(w) \/ TakeRetry(w) PROVE TypeOK'
      BY <2>1, TypeTake DEF Start
    <2>2. ASSUME NEW w \in Workers, Work(w) PROVE TypeOK'
      BY <2>2, TypeGeneration, TypeDelivery, TypeEnd DEF Work
    <2>3. ASSUME NEW w \in Workers, Fail(w) PROVE TypeOK'
      BY <2>3, TypeGeneration, TypeDelivery, TypeEnd DEF Fail
    <2> QED
      BY <1>2, <2>1, <2>2, <2>3, TypeUser DEF Next
  <1> QED
    BY <1>1, <1>2

\* Every reachable state is well typed.
THEOREM TypeCorrect == Spec => []TypeOK
  BY TypeInit, TypeStep, PTL DEF Spec

-----------------------------------------------------------------------------
(***************************************************************************)
(* One digest per user and period.  Only Generate and Commit touch what    *)
(* the invariant speaks of; the lock plays no part in it.                  *)
(***************************************************************************)
LEMMA WritingFrame ==
  ASSUME TypeOK, WritingInv, NEW w \in Workers,
         digests' = digests,
         pc'[w] # "commit",
         \A v \in Workers \ {w} : /\ pc'[v] = pc[v] /\ cur'[v] = cur[v]
                                  /\ staged'[v] = staged[v]
  PROVE WritingInv'
  BY DEF WritingInv

LEMMA WritingGenerate ==
  ASSUME TypeOK, WritingInv, NEW w \in Workers, Generate(w)
  PROVE WritingInv'
  <1> DEFINE p == cur[w]
             asked == {u \in Users : wants[u] = p[1]}
  <1>1. PICK failing \in SUBSET asked :
           /\ \A u \in asked \ failing : ~Waits(w, u, p)
           /\ staged' = [staged EXCEPT ![w] =
                           {u \in asked \ failing : ~Refused(u, p)}]
    BY DEF Generate
  <1>2. /\ pc' = [pc EXCEPT ![w] = "commit"] /\ cur' = cur /\ digests' = digests
        /\ pc \in [Workers -> Places] /\ staged \in [Workers -> SUBSET Users]
        /\ p \in Periods
    BY DEF Generate, dbVars, TypeOK
  <1>3. staged'[w] \subseteq asked \ failing
    BY <1>1, <1>2
  <1>4. \A u \in staged'[w] : digests[<<u, p>>] = 0
    <2> SUFFICES ASSUME NEW u \in staged'[w] PROVE digests[<<u, p>>] = 0
      OBVIOUS
    <2>1. ~Refused(u, p) /\ u \in Users
      BY <1>1, <1>2
    <2>2. digests[<<u, p>>] \in Nat
      BY <1>2, <2>1 DEF TypeOK, Keys
    <2> QED
      BY <2>1, <2>2 DEF Refused
  <1>5. \A v \in Workers \ {w} : pc[v] = "commit" /\ cur[v] = p =>
                                    staged[v] \cap staged'[w] = {}
    BY <1>1, <1>3 DEF Waits
  <1>6. \A v \in Workers \ {w} : pc'[v] = pc[v] /\ staged'[v] = staged[v]
    BY <1>1, <1>2
  <1> QED
    BY <1>2, <1>4, <1>5, <1>6 DEF WritingInv

LEMMA WritingCommit ==
  ASSUME TypeOK, WritingInv, NEW w \in Workers, Commit(w)
  PROVE WritingInv'
  <1>1. /\ pc[w] = "commit" /\ pc' = [pc EXCEPT ![w] = "select"] /\ cur' = cur
        /\ staged' = [staged EXCEPT ![w] = {}]
        /\ digests' = [k \in Keys |->
                         IF k[1] \in staged[w] /\ k[2] = cur[w]
                         THEN digests[k] + 1 ELSE digests[k]]
        /\ digests \in [Keys -> Nat]
        /\ pc \in [Workers -> Places] /\ staged \in [Workers -> SUBSET Users]
        /\ cur[w] \in Periods
    BY DEF Commit, TypeOK
  <1>2. \A k \in Keys : digests'[k] <= 1
    <2> SUFFICES ASSUME NEW k \in Keys PROVE digests'[k] <= 1
      OBVIOUS
    <2>1. digests[k] \in Nat /\ digests[k] <= 1
      BY <1>1 DEF WritingInv
    <2>2. CASE k[1] \in staged[w] /\ k[2] = cur[w]
      <3>1. k = <<k[1], cur[w]>>
        BY <2>2 DEF Keys
      <3>2. digests[k] = 0
        BY <1>1, <2>2, <3>1 DEF WritingInv
      <3> QED
        BY <1>1, <2>2, <3>2
    <2>3. CASE ~(k[1] \in staged[w] /\ k[2] = cur[w])
      BY <1>1, <2>1, <2>3
    <2> QED
      BY <2>2, <2>3
  <1>3. ASSUME NEW v \in Workers, pc'[v] = "commit", NEW u \in staged'[v]
        PROVE digests'[<<u, cur'[v]>>] = 0
    <2>1. v # w /\ pc[v] = "commit" /\ u \in staged[v] /\ u \in Users
          /\ cur[v] \in Periods
      BY <1>1, <1>3 DEF TypeOK
    <2>2. digests[<<u, cur[v]>>] = 0
      BY <2>1 DEF WritingInv
    <2>3. ~(u \in staged[w] /\ cur[v] = cur[w])
      BY <1>1, <2>1 DEF WritingInv
    <2>4. <<u, cur[v]>> \in Keys
      BY <2>1 DEF Keys
    <2> QED
      BY <1>1, <2>2, <2>3, <2>4
  <1>4. \A v \in Workers : pc'[v] = "commit" =>
           v # w /\ pc[v] = "commit" /\ staged'[v] = staged[v] /\ cur'[v] = cur[v]
    BY <1>1
  <1> QED
    BY <1>2, <1>3, <1>4 DEF WritingInv

LEMMA WritingStep == TypeOK /\ WritingInv /\ [Next]_vars => WritingInv'
  <1> SUFFICES ASSUME TypeOK, WritingInv, [Next]_vars PROVE WritingInv'
    OBVIOUS
  <1> USE DEF dbVars, tallyVars, jobVars, genVars, rowVars
  <1>1. CASE UNCHANGED vars
    BY <1>1 DEF vars, WritingInv
  <1>2. ASSUME NEW w \in Workers,
               \/ NightlyPipeline(w) \/ ManualRun(w) \/ TakeRetry(w)
               \/ Acquire(w) \/ Skip(w) \/ RollBack(w) \/ Select(w)
               \/ NextRow(w) \/ Insert(w) \/ Send(w) \/ SettleRecord(w)
               \/ Delivered(w) \/ Abandon(w)
               \/ Finish(w) \/ Retry(w) \/ GiveUp(w) \/ Killed(w)
        PROVE WritingInv'
    <2>1. /\ digests' = digests /\ pc'[w] # "commit"
          /\ \A v \in Workers \ {w} : /\ pc'[v] = pc[v] /\ cur'[v] = cur[v]
                                      /\ staged'[v] = staged[v]
      <3> USE DEF TypeOK
      <3>1. CASE NightlyPipeline(w) \/ ManualRun(w) \/ TakeRetry(w)
        BY <3>1 DEF NightlyPipeline, ManualRun, TakeRetry, Take
      <3>2. CASE Acquire(w) \/ Skip(w) \/ RollBack(w)
        BY <3>2 DEF Acquire, Skip, RollBack
      <3>3. CASE Select(w) \/ NextRow(w) \/ Insert(w)
        BY <3>3 DEF Select, NextRow, Insert
      <3>4. CASE Send(w) \/ SettleRecord(w) \/ Delivered(w) \/ Abandon(w)
        BY <3>4 DEF Send, SettleRecord, Delivered, Abandon
      <3>5. CASE Finish(w) \/ Retry(w) \/ GiveUp(w) \/ Killed(w)
        BY <3>5 DEF Finish, Retry, GiveUp, Killed, Ended, Leave
      <3> QED
        BY <1>2, <3>1, <3>2, <3>3, <3>4, <3>5
    <2> QED
      BY <2>1, WritingFrame
  <1>3. ASSUME NEW u \in Users, SwitchOff(u) PROVE WritingInv'
    BY <1>3 DEF SwitchOff, WritingInv
  <1>4. ASSUME NEW r \in links, Unlink(r) PROVE WritingInv'
    BY <1>4 DEF Unlink, WritingInv
  <1> QED
    BY <1>1, <1>2, <1>3, <1>4, WritingGenerate, WritingCommit
       DEF Next, Start, Work, Fail

\* ux_digest_period: however many runs, retries and deaths there are, a
\* user's digest for a period is written at most once.
THEOREM DigestWrittenOnce == Spec => []OneDigestPerPeriod
  <1>1. Init => WritingInv
    BY DEF Init, WritingInv
  <1>2. WritingInv => OneDigestPerPeriod
    BY DEF WritingInv, OneDigestPerPeriod
  <1> QED
    BY <1>1, <1>2, TypeCorrect, WritingStep, PTL DEF Spec

-----------------------------------------------------------------------------
(***************************************************************************)
(* At most one message.  Three actions matter: Insert opens a record, Send *)
(* uses it, SettleRecord closes it.                                        *)
(***************************************************************************)
LEMMA KeyType == ASSUME TypeOK, NEW w \in Workers, pc[w] \in Sending \cup {"insert"}
                 PROVE KeyOf(w) \in Keys
  BY DEF TypeOK, Sending, KeyOf, Keys

\* A step of w that stores nothing and does not take w into a send.
SendingFrameOf(w) ==
    /\ record' = record /\ inbox' = inbox
    /\ pc'[w] \notin Sending
    /\ \A v \in Workers \ {w} :
          /\ pc'[v] = pc[v] /\ cur'[v] = cur[v]
          /\ target'[v] = target[v] /\ result'[v] = result[v]

LEMMA SendingFrame ==
  ASSUME TypeOK, SendingInv, NEW w \in Workers, SendingFrameOf(w)
  PROVE SendingInv'
  <1>1. \A v \in Workers : pc'[v] \in Sending =>
           v # w /\ pc[v] = pc'[v] /\ KeyOf(v)' = KeyOf(v) /\ result'[v] = result[v]
    BY DEF SendingFrameOf, KeyOf
  <1>2. record' = record /\ inbox' = inbox
    BY DEF SendingFrameOf
  <1> QED
    BY <1>1, <1>2 DEF SendingInv, Sending

LEMMA SendingInsert ==
  ASSUME TypeOK, SendingInv, NEW w \in Workers, Insert(w)
  PROVE SendingInv'
  <1> DEFINE k == KeyOf(w)
  <1>1. pc[w] = "insert" /\ k \in Keys
    BY KeyType DEF Insert
  <1>2. CASE record[k] # "none"
    <2>1. SendingFrameOf(w)
      BY <1>2 DEF Insert, KeyOf, SendingFrameOf, Sending, TypeOK, rowVars
    <2> QED
      BY <2>1, SendingFrame
  <1>3. CASE record[k] = "none"
    <2>1. /\ record' = [record EXCEPT ![k] = "pending"]
          /\ pc' = [pc EXCEPT ![w] = "send"]
          /\ inbox' = inbox /\ cur' = cur /\ target' = target /\ result' = result
      BY <1>3 DEF Insert, KeyOf, rowVars
    <2>2. \A v \in Workers : KeyOf(v)' = KeyOf(v)
      BY <2>1 DEF KeyOf
    <2>3. \A v \in Workers \ {w} : pc'[v] = pc[v]
      BY <2>1 DEF TypeOK
    <2>4. \A v \in Workers \ {w} : pc[v] \in Sending => KeyOf(v) # k
      BY <1>3 DEF SendingInv
    <2>5. pc'[w] = "send" /\ record'[k] = "pending" /\ inbox[k] = 0
      BY <1>1, <1>3, <2>1 DEF TypeOK, SendingInv
    <2>6. \A j \in Keys : j # k => record'[j] = record[j]
      BY <2>1 DEF TypeOK
    <2>7. \A v \in Workers : pc'[v] \in Sending => record'[KeyOf(v)'] = "pending"
      <3> SUFFICES ASSUME NEW v \in Workers, pc'[v] \in Sending
                   PROVE record'[KeyOf(v)'] = "pending"
        OBVIOUS
      <3>1. CASE v = w
        BY <3>1, <2>2, <2>5
      <3>2. CASE v # w
        <4>1. pc[v] \in Sending /\ KeyOf(v) \in Keys
          BY <3>2, <2>3, KeyType
        <4> QED
          BY <3>2, <4>1, <2>2, <2>4, <2>6 DEF SendingInv
      <3> QED
        BY <3>1, <3>2
    <2>8. \A u, v \in Workers : u # v /\ pc'[u] \in Sending /\ pc'[v] \in Sending
                                  => KeyOf(u)' # KeyOf(v)'
      BY <2>2, <2>3, <2>4 DEF SendingInv
    <2>9. \A v \in Workers : pc'[v] = "send" => inbox'[KeyOf(v)'] = 0
      BY <2>1, <2>2, <2>3, <2>5 DEF SendingInv
    <2>10. \A v \in Workers : pc'[v] = "settle" /\ result'[v] = "sent"
                                => inbox'[KeyOf(v)'] = 1
      BY <2>1, <2>2, <2>3, <2>5 DEF SendingInv
    <2>11. \A j \in Keys : /\ record'[j] = "none" => inbox'[j] = 0
                           /\ inbox'[j] <= 1
                           /\ record'[j] = "sent" => inbox'[j] = 1
      BY <2>1, <2>5, <2>6 DEF SendingInv
    <2> QED
      BY <2>7, <2>8, <2>9, <2>10, <2>11 DEF SendingInv
  <1> QED
    BY <1>2, <1>3

LEMMA SendingSend ==
  ASSUME TypeOK, SendingInv, NEW w \in Workers, Send(w)
  PROVE SendingInv'
  <1> DEFINE k == KeyOf(w)
  <1>1. pc[w] = "send" /\ k \in Keys
    BY KeyType DEF Send, Sending
  <1>2. PICK o \in Outcomes : Send(w)!2!(o)
    BY DEF Send
  <1>3. o[1] \in {0, 1} /\ (o[2] = "sent" => o[1] = 1)
    BY DEF Outcomes
  <1>4. /\ pc' = [pc EXCEPT ![w] = "settle"]
        /\ record' = record /\ cur' = cur /\ target' = target
    BY DEF Send
  <1>5. inbox' = [inbox EXCEPT ![k] = @ + o[1]]
    BY <1>2 DEF KeyOf
  <1>6. result' = [result EXCEPT ![w] = o[2]]
    BY <1>2
  <1>7. inbox[k] = 0 /\ record[k] = "pending"
    BY <1>1 DEF SendingInv, Sending
  <1>8. /\ inbox'[k] = o[1] /\ result'[w] = o[2]
        /\ \A j \in Keys : j # k => inbox'[j] = inbox[j]
    BY <1>1, <1>3, <1>5, <1>6, <1>7 DEF TypeOK
  <1>9. \A v \in Workers : KeyOf(v)' = KeyOf(v)
    BY <1>4 DEF KeyOf
  <1>10. /\ pc'[w] = "settle"
         /\ \A v \in Workers \ {w} : pc'[v] = pc[v] /\ result'[v] = result[v]
    BY <1>4, <1>6 DEF TypeOK
  <1>11. \A v \in Workers : pc'[v] \in Sending => pc[v] \in Sending
    BY <1>1, <1>10 DEF Sending
  <1>12. \A v \in Workers \ {w} : pc'[v] \in Sending =>
            /\ KeyOf(v) # k /\ KeyOf(v) \in Keys
            /\ inbox'[KeyOf(v)] = inbox[KeyOf(v)]
    BY <1>1, <1>8, <1>11, KeyType DEF SendingInv, Sending
  <1>13. \A v \in Workers : pc'[v] = "send" => inbox'[KeyOf(v)'] = 0
    BY <1>9, <1>10, <1>12 DEF SendingInv, Sending
  <1>14. \A v \in Workers : pc'[v] = "settle" /\ result'[v] = "sent"
                              => inbox'[KeyOf(v)'] = 1
    BY <1>3, <1>8, <1>9, <1>10, <1>12 DEF SendingInv, Sending
  <1>15. \A j \in Keys : /\ record'[j] = "none" => inbox'[j] = 0
                         /\ inbox'[j] <= 1
                         /\ record'[j] = "sent" => inbox'[j] = 1
    BY <1>3, <1>4, <1>7, <1>8 DEF SendingInv
  <1> QED
    BY <1>4, <1>9, <1>11, <1>13, <1>14, <1>15 DEF SendingInv

LEMMA SendingSettle ==
  ASSUME TypeOK, SendingInv, NEW w \in Workers, SettleRecord(w)
  PROVE SendingInv'
  <1> DEFINE k == KeyOf(w)
  <1>1. pc[w] = "settle" /\ k \in Keys
    BY KeyType DEF SettleRecord, Sending
  <1>2. /\ record' = [record EXCEPT ![k] = result[w]]
        /\ inbox' = inbox /\ cur' = cur
        /\ pc' = [pc EXCEPT ![w] = "each"]
        /\ target' = [target EXCEPT ![w] = AnyUser]
        /\ result' = [result EXCEPT ![w] = "sent"]
    BY DEF SettleRecord, KeyOf
  <1>3. /\ record'[k] = result[w] /\ result[w] \in {"sent", "suppressed", "failed"}
        /\ \A j \in Keys : j # k => record'[j] = record[j]
    BY <1>1, <1>2 DEF TypeOK
  <1>4. \A v \in Workers : pc'[v] \in Sending =>
           /\ v # w /\ pc[v] = pc'[v] /\ result'[v] = result[v]
           /\ KeyOf(v)' = KeyOf(v) /\ KeyOf(v) \in Keys /\ KeyOf(v) # k
    <2> SUFFICES ASSUME NEW v \in Workers, pc'[v] \in Sending
                 PROVE /\ v # w /\ pc[v] = pc'[v] /\ result'[v] = result[v]
                       /\ KeyOf(v)' = KeyOf(v) /\ KeyOf(v) \in Keys
                       /\ KeyOf(v) # k
      OBVIOUS
    <2>1. v # w /\ pc[v] = pc'[v]
      BY <1>2 DEF TypeOK, Sending
    <2>2. result'[v] = result[v] /\ target'[v] = target[v]
      BY <1>2, <2>1 DEF TypeOK
    <2>3. KeyOf(v) \in Keys
      BY <2>1, KeyType
    <2> QED
      BY <1>1, <1>2, <2>1, <2>2, <2>3 DEF SendingInv, KeyOf, Sending
  <1>5. \A v \in Workers : pc'[v] \in Sending => record'[KeyOf(v)'] = "pending"
    BY <1>3, <1>4 DEF SendingInv
  <1>6. \A j \in Keys : /\ record'[j] = "none" => inbox'[j] = 0
                        /\ inbox'[j] <= 1
                        /\ record'[j] = "sent" => inbox'[j] = 1
    BY <1>1, <1>2, <1>3 DEF SendingInv
  <1>7. \A u, v \in Workers : u # v /\ pc'[u] \in Sending /\ pc'[v] \in Sending
                                => KeyOf(u)' # KeyOf(v)'
    BY <1>4 DEF SendingInv
  <1>8. \A v \in Workers : /\ pc'[v] = "send" => inbox'[KeyOf(v)'] = 0
                           /\ pc'[v] = "settle" /\ result'[v] = "sent"
                                => inbox'[KeyOf(v)'] = 1
    BY <1>2, <1>4 DEF SendingInv, Sending
  <1> QED
    BY <1>5, <1>6, <1>7, <1>8 DEF SendingInv

LEMMA SendingStep == TypeOK /\ SendingInv /\ [Next]_vars => SendingInv'
  <1> SUFFICES ASSUME TypeOK, SendingInv, [Next]_vars PROVE SendingInv'
    OBVIOUS
  <1> USE DEF dbVars, tallyVars, jobVars, genVars, rowVars
  <1>1. CASE UNCHANGED vars
    BY <1>1 DEF vars, SendingInv, KeyOf
  <1>2. ASSUME NEW w \in Workers,
               \/ NightlyPipeline(w) \/ ManualRun(w) \/ TakeRetry(w)
               \/ Acquire(w) \/ Skip(w) \/ Generate(w) \/ Commit(w)
               \/ RollBack(w) \/ Select(w) \/ NextRow(w) \/ Delivered(w)
               \/ Abandon(w) \/ Finish(w) \/ Retry(w) \/ GiveUp(w) \/ Killed(w)
        PROVE SendingInv'
    <2>1. SendingFrameOf(w)
      <3> USE DEF TypeOK, SendingFrameOf, Sending
      <3>1. CASE NightlyPipeline(w) \/ ManualRun(w) \/ TakeRetry(w)
        BY <3>1 DEF NightlyPipeline, ManualRun, TakeRetry, Take
      <3>2. CASE Acquire(w) \/ Skip(w) \/ RollBack(w)
        BY <3>2 DEF Acquire, Skip, RollBack
      <3>3. CASE Generate(w) \/ Commit(w)
        BY <3>3 DEF Generate, Commit
      <3>4. CASE Select(w) \/ Delivered(w) \/ Abandon(w)
        BY <3>4 DEF Select, Delivered, Abandon, ClearRows
      <3>5. CASE NextRow(w)
        BY <3>5 DEF NextRow
      <3>6. CASE Finish(w) \/ Retry(w) \/ GiveUp(w) \/ Killed(w)
        BY <3>6 DEF Finish, Retry, GiveUp, Killed, Ended, Leave, ClearRows
      <3> QED
        BY <1>2, <3>1, <3>2, <3>3, <3>4, <3>5, <3>6
    <2> QED
      BY <2>1, SendingFrame
  <1>3. ASSUME NEW u \in Users, SwitchOff(u) PROVE SendingInv'
    BY <1>3 DEF SwitchOff, SendingInv, KeyOf
  <1>4. ASSUME NEW r \in links, Unlink(r) PROVE SendingInv'
    BY <1>4 DEF Unlink, SendingInv, KeyOf
  <1> QED
    BY <1>1, <1>2, <1>3, <1>4, SendingInsert, SendingSend, SendingSettle
       DEF Next, Start, Work, Fail

THEOREM SendingInvariant == Spec => []SendingInv
  <1>1. Init => SendingInv
    BY DEF Init, SendingInv, Sending
  <1> QED
    BY <1>1, TypeCorrect, SendingStep, PTL DEF Spec

\* A user gets a period's message at most once, whatever runs overlap, are
\* retried or die between the record and the send.
THEOREM MessageAtMostOnce == Spec => []AtMostOneMessage
  <1>1. SendingInv => AtMostOneMessage
    BY DEF SendingInv, AtMostOneMessage
  <1> QED
    BY <1>1, SendingInvariant, PTL

\* "sent" is never claimed of a message that did not arrive.
THEOREM SentMeansArrived == Spec => []SentArrived
  <1>1. SendingInv => SentArrived
    BY DEF SendingInv, SentArrived
  <1> QED
    BY <1>1, SendingInvariant, PTL

-----------------------------------------------------------------------------
(***************************************************************************)
(* Refinement: a step of the phase records, hands or settles one message,  *)
(* or leaves the records and the chats alone.                              *)
(***************************************************************************)
LEMMA QuietStep ==
  ASSUME [Next]_vars,
         \A w \in Workers : ~Insert(w) /\ ~Send(w) /\ ~SettleRecord(w)
  PROVE record' = record /\ inbox' = inbox
  <1> USE DEF dbVars
  <1>1. CASE UNCHANGED vars
    BY <1>1 DEF vars
  <1>2. ASSUME NEW w \in Workers,
               \/ NightlyPipeline(w) \/ ManualRun(w) \/ TakeRetry(w)
               \/ Acquire(w) \/ Skip(w) \/ Generate(w) \/ Commit(w)
               \/ RollBack(w) \/ Select(w) \/ NextRow(w) \/ Delivered(w)
               \/ Abandon(w) \/ Finish(w) \/ Retry(w) \/ GiveUp(w) \/ Killed(w)
        PROVE record' = record /\ inbox' = inbox
    BY <1>2 DEF NightlyPipeline, ManualRun, TakeRetry, Take, Acquire, Skip,
                Generate, Commit, RollBack, Select, NextRow, Delivered,
                Abandon, Finish, Retry, GiveUp, Killed, Ended
  <1>3. ASSUME NEW u \in Users, SwitchOff(u) PROVE record' = record /\ inbox' = inbox
    BY <1>3 DEF SwitchOff
  <1>4. ASSUME NEW r \in links, Unlink(r) PROVE record' = record /\ inbox' = inbox
    BY <1>4 DEF Unlink
  <1> QED
    BY <1>1, <1>2, <1>3, <1>4 DEF Next, Start, Work, Fail

LEMMA DeliveryStep ==
  TypeOK /\ SendingInv /\ [Next]_vars => [Delivery!AbsNext]_(Delivery!absVars)
  <1> SUFFICES ASSUME TypeOK, SendingInv, [Next]_vars
               PROVE Delivery!AbsNext \/ UNCHANGED <<record, inbox>>
    BY DEF Delivery!absVars
  <1>1. ASSUME NEW w \in Workers, Insert(w)
        PROVE Delivery!AbsNext \/ UNCHANGED <<record, inbox>>
    <2>1. KeyOf(w) \in Keys
      BY <1>1, KeyType DEF Insert
    <2>2. Delivery!Record(KeyOf(w)) \/ UNCHANGED <<record, inbox>>
      BY <1>1 DEF Insert, KeyOf, Delivery!Record
    <2> QED
      BY <2>1, <2>2 DEF Delivery!AbsNext
  <1>2. ASSUME NEW w \in Workers, Send(w)
        PROVE Delivery!AbsNext \/ UNCHANGED <<record, inbox>>
    <2>1. pc[w] = "send" /\ KeyOf(w) \in Keys
      BY <1>2, KeyType DEF Send, Sending
    <2>2. record[KeyOf(w)] = "pending" /\ inbox[KeyOf(w)] = 0
      BY <2>1 DEF SendingInv, Sending
    <2>3. PICK o \in Outcomes : inbox' = [inbox EXCEPT ![KeyOf(w)] = @ + o[1]]
      BY <1>2 DEF Send, KeyOf
    <2>4. record' = record
      BY <1>2 DEF Send
    <2>5. CASE o[1] = 1
      <3>1. inbox' = [inbox EXCEPT ![KeyOf(w)] = 1]
        BY <2>1, <2>2, <2>3, <2>5 DEF TypeOK
      <3>2. Delivery!Hand(KeyOf(w))
        BY <2>2, <2>4, <3>1 DEF Delivery!Hand
      <3> QED
        BY <2>1, <3>2 DEF Delivery!AbsNext
    <2>6. CASE o[1] = 0
      <3>1. inbox' = inbox
        BY <2>1, <2>2, <2>3, <2>6 DEF TypeOK
      <3> QED
        BY <2>4, <3>1
    <2> QED
      BY <2>5, <2>6 DEF Outcomes
  <1>3. ASSUME NEW w \in Workers, SettleRecord(w)
        PROVE Delivery!AbsNext \/ UNCHANGED <<record, inbox>>
    <2>1. pc[w] = "settle" /\ KeyOf(w) \in Keys
      BY <1>3, KeyType DEF SettleRecord, Sending
    <2>2. /\ record[KeyOf(w)] = "pending"
          /\ result[w] = "sent" => inbox[KeyOf(w)] = 1
      BY <2>1 DEF SendingInv, Sending
    <2>3. result[w] \in Delivery!Settled
      BY DEF TypeOK, Delivery!Settled
    <2>4. Delivery!Settle(KeyOf(w), result[w])
      BY <1>3, <2>2 DEF SettleRecord, KeyOf, Delivery!Settle
    <2> QED
      BY <2>1, <2>3, <2>4 DEF Delivery!AbsNext
  <1> QED
    BY <1>1, <1>2, <1>3, QuietStep

\* The digest phase implements DigestDelivery.
THEOREM DeliveryImplemented == Spec => ImplementsDelivery
  <1>1. Init => Delivery!AbsInit
    BY DEF Init, Delivery!AbsInit
  <1> QED
    BY <1>1, DeliveryStep, TypeCorrect, SendingInvariant, PTL
       DEF Spec, ImplementsDelivery, Delivery!AbsSpec

\* A delivery record is written once and settled once.
THEOREM RecordsWrittenOnce == Spec => RecordsAreFinal
  <1>1. TypeOK /\ SendingInv /\ [Next]_vars =>
          [\A k \in Keys : record'[k] # record[k] =>
             \/ record[k] = "none" /\ record'[k] = "pending"
             \/ record[k] = "pending" /\ record'[k] \notin {"none", "pending"}]_vars
    <2> SUFFICES ASSUME TypeOK, SendingInv, [Next]_vars, NEW k \in Keys,
                        record'[k] # record[k]
                 PROVE \/ record[k] = "none" /\ record'[k] = "pending"
                       \/ /\ record[k] = "pending"
                          /\ record'[k] \notin {"none", "pending"}
      OBVIOUS
    <2>1. Delivery!AbsNext
      BY DeliveryStep DEF Delivery!absVars
    <2>2. PICK j \in Keys : \/ Delivery!Record(j)
                            \/ Delivery!Hand(j)
                            \/ \E s \in Delivery!Settled : Delivery!Settle(j, s)
      BY <2>1 DEF Delivery!AbsNext
    <2>3. record \in [Keys -> DeliveryStatus]
      BY DEF TypeOK
    <2> QED
      BY <2>2, <2>3 DEF Delivery!Record, Delivery!Hand, Delivery!Settle,
                        Delivery!Settled
  <1> QED
    BY <1>1, TypeCorrect, SendingInvariant, PTL DEF Spec, RecordsAreFinal

-----------------------------------------------------------------------------
(***************************************************************************)
(* Only committed digests are sent: a digest row, once there, stays.       *)
(***************************************************************************)
LEMMA DigestsStay ==
  ASSUME TypeOK, [Next]_vars
  PROVE \A k \in Keys : digests[k] > 0 => digests'[k] > 0
  <1> USE DEF dbVars
  <1>1. ASSUME NEW w \in Workers, Commit(w)
        PROVE \A k \in Keys : digests[k] > 0 => digests'[k] > 0
    BY <1>1 DEF Commit, TypeOK
  <1>2. ASSUME NEW w \in Workers,
               \/ NightlyPipeline(w) \/ ManualRun(w) \/ TakeRetry(w)
               \/ Acquire(w) \/ Skip(w) \/ Generate(w) \/ RollBack(w)
               \/ Select(w) \/ NextRow(w) \/ Insert(w) \/ Send(w)
               \/ SettleRecord(w) \/ Delivered(w) \/ Abandon(w)
               \/ Finish(w) \/ Retry(w) \/ GiveUp(w) \/ Killed(w)
        PROVE digests' = digests
    BY <1>2 DEF NightlyPipeline, ManualRun, TakeRetry, Take, Acquire, Skip,
                Generate, RollBack, Select, NextRow, Insert, Send,
                SettleRecord, Delivered, Abandon, Finish, Retry, GiveUp,
                Killed, Ended
  <1>3. CASE (\E u \in Users : SwitchOff(u)) \/ (\E r \in links : Unlink(r))
    BY <1>3 DEF SwitchOff, Unlink
  <1>4. CASE UNCHANGED vars
    BY <1>4 DEF vars
  <1> QED
    BY <1>1, <1>2, <1>3, <1>4 DEF Next, Start, Work, Fail

Delivering == {"each", "insert", "send", "settle"}

\* A step of w that leaves the records alone and w outside delivery, or with
\* the rows and the row it had.
WrittenFrameOf(w) ==
    /\ record' = record
    /\ \/ pc'[w] \notin Delivering
       \/ /\ pc[w] \in Delivering
          /\ cur'[w] = cur[w] /\ rows'[w] \subseteq rows[w]
          /\ \/ pc'[w] = "each"
             \/ /\ pc[w] \in {"insert", "send", "settle"}
                /\ target'[w] = target[w]
    /\ \A v \in Workers \ {w} : /\ pc'[v] = pc[v] /\ cur'[v] = cur[v]
                                /\ target'[v] = target[v] /\ rows'[v] = rows[v]

LEMMA WrittenKeys ==
  ASSUME TypeOK, NEW v \in Workers, pc[v] \in Delivering
  PROVE /\ \A r \in rows[v] : <<r[1], cur[v]>> \in Keys
        /\ KeyOf(v) \in Keys
  BY DEF TypeOK, Delivering, Keys, KeyOf

LEMMA WrittenFrame ==
  ASSUME TypeOK, WrittenInv, [Next]_vars, NEW w \in Workers, WrittenFrameOf(w)
  PROVE WrittenInv'
  <1>1. \A k \in Keys : digests[k] > 0 => digests'[k] > 0
    BY DigestsStay
  <1>2. ASSUME NEW v \in Workers, pc'[v] \in Delivering
        PROVE /\ pc[v] \in Delivering /\ cur'[v] = cur[v]
              /\ rows'[v] \subseteq rows[v]
              /\ pc'[v] # "each" =>
                   pc[v] \in {"insert", "send", "settle"} /\ target'[v] = target[v]
    BY <1>2 DEF WrittenFrameOf, Delivering
  <1>3. ASSUME NEW v \in Workers, pc'[v] \in Delivering, NEW r \in rows'[v]
        PROVE digests'[<<r[1], cur'[v]>>] > 0
    BY <1>1, <1>2, <1>3, WrittenKeys DEF WrittenInv, Delivering
  <1>4. ASSUME NEW v \in Workers, pc'[v] \in {"insert", "send", "settle"}
        PROVE digests'[KeyOf(v)'] > 0
    <2>1. /\ pc[v] \in {"insert", "send", "settle"} /\ KeyOf(v)' = KeyOf(v)
          /\ KeyOf(v) \in Keys
      BY <1>2, <1>4, WrittenKeys DEF KeyOf, Delivering
    <2> QED
      BY <1>1, <2>1 DEF WrittenInv
  <1>5. \A k \in Keys : record'[k] # "none" => digests'[k] > 0
    BY <1>1 DEF WrittenInv, WrittenFrameOf
  <1> QED
    BY <1>3, <1>4, <1>5 DEF WrittenInv, Delivering

LEMMA WrittenRecord ==
  ASSUME TypeOK, WrittenInv, [Next]_vars, NEW w \in Workers,
         Insert(w) \/ SettleRecord(w)
  PROVE WrittenInv'
  <1>1. pc[w] \in {"insert", "settle"} /\ KeyOf(w) \in Keys /\ digests' = digests
    BY WrittenKeys DEF Insert, SettleRecord, Delivering
  <1>2. digests[KeyOf(w)] > 0
    BY <1>1 DEF WrittenInv
  <1>3. \A k \in Keys : k # KeyOf(w) => record'[k] = record[k]
    BY DEF Insert, SettleRecord, KeyOf, TypeOK
  <1>4. \A k \in Keys : record'[k] # "none" => digests'[k] > 0
    BY <1>1, <1>2, <1>3 DEF WrittenInv
  <1>5. /\ rows' = rows /\ cur' = cur
        /\ pc'[w] = "each" \/ (pc'[w] = "send" /\ target' = target)
        /\ \A v \in Workers \ {w} : pc'[v] = pc[v] /\ target'[v] = target[v]
    BY DEF Insert, SettleRecord, rowVars, TypeOK
  <1>6. \A v \in Workers : pc'[v] \in {"insert", "send", "settle"} =>
           KeyOf(v)' = KeyOf(v) /\ pc[v] \in {"insert", "send", "settle"}
    BY <1>1, <1>5 DEF KeyOf
  <1>7. \A v \in Workers : pc'[v] \in {"each", "insert", "send", "settle"} =>
           pc[v] \in {"each", "insert", "send", "settle"}
    BY <1>1, <1>5
  <1> QED
    BY <1>1, <1>4, <1>5, <1>6, <1>7 DEF WrittenInv

LEMMA WrittenSelect ==
  ASSUME TypeOK, WrittenInv, NEW w \in Workers, Select(w)
  PROVE WrittenInv'
  <1>1. /\ pc' = [pc EXCEPT ![w] = "each"] /\ cur' = cur /\ target' = target
        /\ record' = record /\ digests' = digests
        /\ rows' = [rows EXCEPT ![w] = Deliverable(cur[w])]
    BY DEF Select, dbVars
  <1>2. \A r \in rows'[w] : digests[<<r[1], cur[w]>>] > 0
    BY <1>1 DEF TypeOK, Deliverable
  <1>3. /\ pc'[w] = "each"
        /\ \A v \in Workers \ {w} : pc'[v] = pc[v] /\ rows'[v] = rows[v]
    BY <1>1 DEF TypeOK
  <1> QED
    BY <1>1, <1>2, <1>3 DEF WrittenInv, KeyOf

LEMMA WrittenNextRow ==
  ASSUME TypeOK, WrittenInv, NEW w \in Workers, NextRow(w)
  PROVE WrittenInv'
  <1>1. PICK r \in rows[w] : NextRow(w)!2!(r)
    BY DEF NextRow
  <1>2. /\ pc[w] = "each" /\ cur' = cur /\ record' = record /\ digests' = digests
        /\ rows' = [rows EXCEPT ![w] = @ \ {r}]
    BY <1>1 DEF NextRow, dbVars
  <1>3. digests[<<r[1], cur[w]>>] > 0
    BY <1>2 DEF WrittenInv
  <1>4. /\ \A v \in Workers : rows'[v] \subseteq rows[v]
        /\ \A v \in Workers \ {w} : pc'[v] = pc[v] /\ target'[v] = target[v]
        /\ \/ pc'[w] = "each"
           \/ pc'[w] = "insert" /\ target'[w] = r[1]
    BY <1>1, <1>2 DEF TypeOK
  <1>5. \A v \in Workers : pc'[v] \in {"insert", "send", "settle"} =>
                              digests[KeyOf(v)'] > 0
    BY <1>2, <1>3, <1>4 DEF WrittenInv, KeyOf
  <1> QED
    BY <1>2, <1>4, <1>5 DEF WrittenInv

LEMMA WrittenStep == TypeOK /\ WrittenInv /\ [Next]_vars => WrittenInv'
  <1> SUFFICES ASSUME TypeOK, WrittenInv, [Next]_vars PROVE WrittenInv'
    OBVIOUS
  <1> USE DEF dbVars, tallyVars, jobVars, genVars, rowVars
  <1>1. CASE UNCHANGED vars
    BY <1>1 DEF vars, WrittenInv, KeyOf
  <1>2. ASSUME NEW w \in Workers,
               \/ NightlyPipeline(w) \/ ManualRun(w) \/ TakeRetry(w)
               \/ Acquire(w) \/ Skip(w) \/ Generate(w) \/ Commit(w)
               \/ RollBack(w) \/ Send(w) \/ Delivered(w) \/ Abandon(w)
               \/ Finish(w) \/ Retry(w) \/ GiveUp(w) \/ Killed(w)
        PROVE WrittenInv'
    <2>1. WrittenFrameOf(w)
      <3> USE DEF TypeOK, WrittenFrameOf, Delivering
      <3>1. CASE NightlyPipeline(w) \/ ManualRun(w) \/ TakeRetry(w)
        BY <3>1 DEF NightlyPipeline, ManualRun, TakeRetry, Take
      <3>2. CASE Acquire(w) \/ Skip(w) \/ RollBack(w)
        BY <3>2 DEF Acquire, Skip, RollBack
      <3>3. CASE Generate(w) \/ Commit(w)
        BY <3>3 DEF Generate, Commit
      <3>4. CASE Send(w) \/ Delivered(w) \/ Abandon(w)
        BY <3>4 DEF Send, Delivered, Abandon, ClearRows
      <3>5. CASE Finish(w) \/ Retry(w) \/ GiveUp(w) \/ Killed(w)
        BY <3>5 DEF Finish, Retry, GiveUp, Killed, Ended, Leave, ClearRows
      <3> QED
        BY <1>2, <3>1, <3>2, <3>3, <3>4, <3>5
    <2> QED
      BY <2>1, WrittenFrame
  <1>3. ASSUME NEW u \in Users, SwitchOff(u) PROVE WrittenInv'
    BY <1>3 DEF SwitchOff, WrittenInv, KeyOf
  <1>4. ASSUME NEW r \in links, Unlink(r) PROVE WrittenInv'
    BY <1>4 DEF Unlink, WrittenInv, KeyOf
  <1> QED
    BY <1>1, <1>2, <1>3, <1>4, WrittenRecord, WrittenSelect, WrittenNextRow
       DEF Next, Start, Work, Fail

THEOREM WrittenInvariant == Spec => []WrittenInv
  <1>1. Init => WrittenInv
    BY DEF Init, WrittenInv
  <1> QED
    BY <1>1, TypeCorrect, WrittenStep, PTL DEF Spec

\* Nothing reaches a user that the database cannot account for.
THEOREM MessageAccounted == Spec => []NoUnrecordedMessage
  <1>1. TypeOK /\ SendingInv /\ WrittenInv /\ OneDigestPerPeriod
          => NoUnrecordedMessage
    <2> SUFFICES ASSUME TypeOK, SendingInv, WrittenInv, OneDigestPerPeriod,
                        NEW k \in Keys, inbox[k] > 0
                 PROVE record[k] # "none" /\ digests[k] = 1
      BY DEF NoUnrecordedMessage
    <2>1. record[k] # "none"
      BY DEF SendingInv, TypeOK
    <2>2. digests[k] \in Nat /\ digests[k] > 0 /\ digests[k] <= 1
      BY <2>1 DEF WrittenInv, OneDigestPerPeriod, TypeOK
    <2> QED
      BY <2>1, <2>2
  <1> QED
    BY <1>1, TypeCorrect, SendingInvariant, WrittenInvariant, DigestWrittenOnce,
       PTL

-----------------------------------------------------------------------------
(***************************************************************************)
(* No period is forgotten: whoever lets go of one has written it, handed   *)
(* it on, or left a trace of it.                                           *)
(***************************************************************************)
WorkerStep(w) == Start(w) \/ TakeRetry(w) \/ Work(w) \/ Fail(w)
UserStep == (\E u \in Users : SwitchOff(u)) \/ (\E r \in links : Unlink(r))

LEMMA OtherWorkers ==
  ASSUME TypeOK, NEW w \in Workers, WorkerStep(w), NEW v \in Workers \ {w}
  PROVE  /\ pc'[v] = pc[v] /\ todo'[v] = todo[v] /\ cur'[v] = cur[v]
         /\ failed'[v] = failed[v] /\ staged'[v] = staged[v] /\ broken'[v] = broken[v]
  <1> USE DEF TypeOK, jobVars, genVars
  <1>1. CASE Start(w) \/ TakeRetry(w)
    BY <1>1 DEF Start, NightlyPipeline, ManualRun, TakeRetry, Take
  <1>2. CASE Acquire(w) \/ Skip(w) \/ Generate(w) \/ Commit(w) \/ RollBack(w)
    BY <1>2 DEF Acquire, Skip, Generate, Commit, RollBack
  <1>3. CASE Select(w) \/ NextRow(w) \/ Insert(w) \/ Send(w) \/ SettleRecord(w)
               \/ Delivered(w) \/ Abandon(w)
    BY <1>3 DEF Select, NextRow, Insert, Send, SettleRecord, Delivered, Abandon
  <1>4. CASE Finish(w) \/ Retry(w) \/ GiveUp(w) \/ Killed(w)
    BY <1>4 DEF Finish, Retry, GiveUp, Killed, Ended, Leave
  <1> QED
    BY <1>1, <1>2, <1>3, <1>4 DEF WorkerStep, Work, Fail

LEMMA WishesKept ==
  ASSUME NEW w \in Workers, WorkerStep(w)
  PROVE  wants' = wants
  BY DEF WorkerStep, Start, NightlyPipeline, ManualRun, TakeRetry, Take, Work, Fail,
         Acquire, Skip, Generate, Commit, RollBack, Select, NextRow, Insert, Send,
         SettleRecord, Delivered, Abandon, Finish, Retry, GiveUp, Killed, Ended, dbVars

LEMMA HolderStep == TypeOK /\ HolderInv /\ [Next]_vars => HolderInv'
  <1> SUFFICES ASSUME TypeOK, HolderInv, [Next]_vars PROVE HolderInv'
    OBVIOUS
  <1> USE NoneAssumption DEF TypeOK, HolderInv
  <1>1. CASE UserStep \/ UNCHANGED vars
    BY <1>1 DEF UserStep, SwitchOff, Unlink, vars
  <1>2. ASSUME NEW w \in Workers, WorkerStep(w)
        PROVE  HolderInv'
    <2>1. \A v \in Workers \ {w} : pc'[v] = pc[v] /\ cur'[v] = cur[v]
      BY <1>2, OtherWorkers
    <2>2. CASE Acquire(w)
      BY <2>1, <2>2 DEF Acquire, Generating
    <2>3. CASE Generate(w)
      BY <2>3 DEF Generate, Generating
    <2>4. CASE Commit(w) \/ RollBack(w) \/ Killed(w)
      <3>1. lock' = Released(w)
        BY <2>4 DEF Commit, RollBack, Killed
      <3> QED
        BY <2>1, <3>1 DEF Released
    <2>5. CASE Start(w) \/ TakeRetry(w) \/ Skip(w) \/ Finish(w) \/ Retry(w) \/ GiveUp(w)
               \/ Select(w) \/ NextRow(w) \/ Insert(w) \/ Send(w) \/ SettleRecord(w)
               \/ Delivered(w) \/ Abandon(w)
      <3>1. lock' = lock /\ pc[w] \notin Generating
        BY <2>5 DEF Start, NightlyPipeline, ManualRun, TakeRetry, Take, Skip, Finish,
                    Retry, GiveUp, Ended, Select, NextRow, Insert, Send, SettleRecord,
                    Delivered, Abandon, Generating
      <3> QED
        BY <2>1, <3>1
    <2> QED
      BY <1>2, <2>2, <2>3, <2>4, <2>5 DEF WorkerStep, Work, Fail
  <1> QED
    BY <1>1, <1>2 DEF Next, WorkerStep, UserStep

LEMMA Frequencies == \A p \in Periods : p[1] \in Frequency /\ p[1] # "off"
  BY DEF Periods, Frequency

\* Wishes are only given up.
LEMMA WishesStay ==
  ASSUME TypeOK, [Next]_vars, NEW u \in Users, NEW p \in Periods, wants'[u] = p[1]
  PROVE  wants[u] = p[1]
  <1>1. CASE UserStep
    BY <1>1, Frequencies DEF UserStep, SwitchOff, Unlink, TypeOK
  <1>2. CASE UNCHANGED vars
    BY <1>2 DEF vars
  <1> QED
    BY <1>1, <1>2, WishesKept DEF Next, WorkerStep, UserStep

LEMMA AskedStep == TypeOK /\ AskedInv /\ [Next]_vars => AskedInv'
  <1> SUFFICES ASSUME TypeOK, AskedInv, [Next]_vars,
                      NEW v \in Workers, pc'[v] = "commit",
                      NEW u \in Users, wants'[u] = cur'[v][1]
               PROVE  u \in staged'[v] \cup broken'[v] \/ digests'[<<u, cur'[v]>>] > 0
    BY DEF AskedInv
  <1>1. CASE pc[v] = "commit" /\ UNCHANGED <<cur[v], staged[v], broken[v]>>
    <2>1. cur[v] \in Periods
      BY <1>1 DEF TypeOK
    <2>2. <<u, cur[v]>> \in Keys /\ wants[u] = cur[v][1]
      BY <1>1, <2>1, WishesStay DEF Keys
    <2> QED
      BY <1>1, <2>2, DigestsStay DEF AskedInv
  <1>2. CASE UserStep \/ UNCHANGED vars
    <2>1. UNCHANGED <<pc, cur, staged, broken>>
      BY <1>2 DEF UserStep, SwitchOff, Unlink, vars, genVars
    <2> QED
      BY <1>1, <2>1
  <1>3. ASSUME NEW w \in Workers, WorkerStep(w)
        PROVE  u \in staged'[v] \cup broken'[v] \/ digests'[<<u, cur'[v]>>] > 0
    <2>1. CASE v # w
      BY <1>1, <1>3, <2>1, OtherWorkers
    <2>2. CASE v = w /\ Generate(w)
      <3>1. digests' = digests /\ wants' = wants /\ cur' = cur
        BY <2>2 DEF Generate, dbVars
      <3>2. cur[v] \in Periods
        BY <2>2 DEF Generate, TypeOK
      <3>3. digests[<<u, cur[v]>>] \in Nat
        BY <3>2 DEF TypeOK, Keys
      <3>4. PICK failing \in SUBSET {x \in Users : wants[x] = cur[w][1]} :
               /\ staged' = [staged EXCEPT ![w] =
                      {x \in {y \in Users : wants[y] = cur[w][1]} \ failing : ~Refused(x, cur[w])}]
               /\ broken' = [broken EXCEPT ![w] = failing]
        BY <2>2 DEF Generate
      <3>5. /\ broken'[w] = failing
            /\ staged'[w] = {x \in {y \in Users : wants[y] = cur[w][1]} \ failing :
                               ~Refused(x, cur[w])}
        BY <3>4 DEF TypeOK
      <3> QED
        BY <2>2, <3>1, <3>3, <3>5 DEF Refused
    <2>3. CASE v = w /\ ~Generate(w)
      <3>1. pc'[w] # "commit"
        BY <1>3, <2>3 DEF WorkerStep, Start, NightlyPipeline, ManualRun, TakeRetry, Take,
               Work, Fail, Acquire, Skip, Commit, RollBack, Select, NextRow, Insert, Send,
               SettleRecord, Delivered, Abandon, Finish, Retry, GiveUp, Killed, Ended,
               Leave, TypeOK
      <3> QED
        BY <2>3, <3>1
    <2> QED
      BY <2>1, <2>2, <2>3
  <1> QED
    BY <1>2, <1>3 DEF Next, WorkerStep, UserStep

LEMMA CompleteStays ==
  ASSUME TypeOK, [Next]_vars, NEW p \in Periods, Complete(p)
  PROVE  Complete(p)'
  BY DigestsStay, WishesStay DEF Complete, Keys

\* The part of InHand that is about one worker.
Has(w, p) == /\ pc[w] # "idle"
             /\ p \in todo[w] \cup failed[w] \/ (pc[w] \in Generating /\ cur[w] = p)
Queued(p) == \E m \in queue : p \in m.periods
Traced(p) == p \in unresolved \cup lost

\* A worker that has a period keeps it, or writes it, passes it on or leaves a
\* trace; a skipped one is in the hands of the holder of its lock.
LEMMA LettingGo ==
  ASSUME TypeOK, HolderInv, AskedInv, NEW w \in Workers, WorkerStep(w),
         NEW p \in Periods, Has(w, p)
  PROVE  Has(w, p)' \/ Complete(p)' \/ Queued(p)' \/ Traced(p)'
            \/ \E v \in Workers \ {w} : Has(v, p)
  <1> USE DEF TypeOK, Has
  <1>1. CASE Start(w) \/ TakeRetry(w)
    BY <1>1 DEF Start, NightlyPipeline, ManualRun, TakeRetry, Take
  <1>2. CASE Acquire(w)
    BY <1>2 DEF Acquire, jobVars, Generating
  <1>3. CASE Skip(w)
    <2>1. PICK q \in todo[w] : ~Free(q) /\ todo' = [todo EXCEPT ![w] = @ \ {q}]
      BY <1>3 DEF Skip
    <2>2. pc[w] = "begin" /\ UNCHANGED <<pc, failed>>
      BY <1>3 DEF Skip
    <2>3. CASE p = q
      <3>1. lock[p] \in Workers /\ pc[lock[p]] \in Generating /\ cur[lock[p]] = p
        BY <2>1, <2>3 DEF Free, HolderInv
      <3> QED
        BY <2>2, <3>1 DEF Generating
    <2>4. CASE p # q
      BY <2>1, <2>2, <2>4 DEF Generating
    <2> QED
      BY <2>3, <2>4
  <1>4. CASE Generate(w)
    BY <1>4 DEF Generate, jobVars, Generating
  <1>5. CASE Commit(w)
    <2>1. pc'[w] = "select" /\ todo' = todo /\ failed[w] \subseteq failed'[w]
      BY <1>5 DEF Commit
    <2>2. CASE p \in todo[w] \cup failed[w]
      BY <2>1, <2>2
    <2>3. CASE cur[w] = p /\ broken[w] # {}
      BY <1>5, <2>1, <2>3 DEF Commit
    <2>4. CASE cur[w] = p /\ broken[w] = {}
      <3>1. ASSUME NEW u \in Users, wants'[u] = p[1]
            PROVE  digests'[<<u, p>>] > 0
        <4>1. wants[u] = p[1] /\ <<u, p>> \in Keys
          BY <1>5, <3>1 DEF Commit, Keys
        <4>2. u \in staged[w] \/ digests[<<u, p>>] > 0
          BY <1>5, <2>4, <4>1 DEF AskedInv, Commit
        <4> QED
          BY <1>5, <2>4, <4>1, <4>2 DEF Commit
      <3> QED
        BY <3>1 DEF Complete
    <2> QED
      BY <2>2, <2>3, <2>4
  <1>6. CASE RollBack(w)
    BY <1>6 DEF RollBack, Generating
  <1>7. CASE \/ Select(w) \/ NextRow(w) \/ Insert(w) \/ Send(w) \/ SettleRecord(w)
            \/ Delivered(w) \/ Abandon(w)
    <2>1. UNCHANGED <<todo, failed>> /\ pc[w] \notin Generating /\ pc'[w] # "idle"
      BY <1>7 DEF Select, NextRow, Insert, Send, SettleRecord, Delivered, Abandon,
                  jobVars, Generating
    <2> QED
      BY <2>1
  <1>8. CASE Finish(w) \/ Retry(w) \/ GiveUp(w)
    <2>1. p \in failed[w]
      BY <1>8 DEF Finish, Retry, GiveUp, Ended, Generating
    <2>2. CASE Finish(w)
      BY <2>1, <2>2 DEF Finish
    <2>3. CASE Retry(w)
      <3>1. RetryMessage(w) \in queue' /\ RetryMessage(w).periods = failed[w]
        <4>1. job[w] \in Messages
          BY <2>3 DEF Retry, Ended
        <4> QED
          BY <2>3, <4>1 DEF Retry, RetryMessage, Messages
      <3> QED
        BY <2>1, <3>1 DEF Queued
    <2>4. CASE GiveUp(w)
      BY <2>1, <2>4 DEF GiveUp, Traced
    <2> QED
      BY <1>8, <2>2, <2>3, <2>4
  <1>9. CASE Killed(w)
    BY <1>9 DEF Killed, Traced
  <1> QED
    BY <1>1, <1>2, <1>3, <1>4, <1>5, <1>6, <1>7, <1>8, <1>9 DEF WorkerStep, Work, Fail

\* What is new is in the hands of the worker that was asked, and a message taken
\* off the queue in those of the one that took it.
LEMMA TakingOver ==
  ASSUME TypeOK, NEW w \in Workers, WorkerStep(w), NEW p \in Periods,
         (p \in owed' /\ p \notin owed) \/ (Queued(p) /\ ~Queued(p)')
  PROVE  Has(w, p)'
  <1> USE DEF TypeOK
  <1>1. CASE Start(w)
    <2>1. queue' = queue /\ owed' \subseteq owed \cup todo'[w] /\ pc'[w] = "begin"
      BY <1>1 DEF Start, NightlyPipeline, ManualRun, Take
    <2> QED
      BY <2>1 DEF Has, Queued
  <1>2. CASE TakeRetry(w)
    <2>1. PICK m \in queue : queue' = queue \ {m} /\ Take(w, m.periods, m, FALSE)
      BY <1>2 DEF TakeRetry
    <2>2. owed' = owed /\ pc'[w] = "begin" /\ todo'[w] = m.periods
      BY <1>2, <2>1 DEF TakeRetry, Take
    <2> QED
      BY <2>1, <2>2 DEF Has, Queued
  <1>3. CASE Work(w) \/ Fail(w)
    <2>1. owed' = owed /\ queue \subseteq queue'
      BY <1>3 DEF Work, Fail, Acquire, Skip, Generate, Commit, RollBack, Select, NextRow,
                  Insert, Send, SettleRecord, Delivered, Abandon, Finish, Retry, GiveUp,
                  Killed, Ended, tallyVars
    <2> QED
      BY <2>1 DEF Queued
  <1> QED
    BY <1>1, <1>2, <1>3 DEF WorkerStep

LEMMA TracesStay ==
  ASSUME [Next]_vars, NEW p, Traced(p)
  PROVE  Traced(p)'
  <1>1. CASE UserStep \/ UNCHANGED vars
    BY <1>1 DEF UserStep, SwitchOff, Unlink, vars, tallyVars, Traced
  <1>2. ASSUME NEW w \in Workers, WorkerStep(w)
        PROVE  Traced(p)'
    BY <1>2 DEF WorkerStep, Start, NightlyPipeline, ManualRun, TakeRetry, Take, Work, Fail,
       Acquire, Skip, Generate, Commit, RollBack, Select, NextRow, Insert, Send,
       SettleRecord, Delivered, Abandon, Finish, Retry, GiveUp, Killed, Ended, tallyVars,
       Traced
  <1> QED
    BY <1>1, <1>2 DEF Next, WorkerStep, UserStep

Held(p) == Complete(p) \/ Queued(p) \/ (\E w \in Workers : Has(w, p)) \/ Traced(p)
HeldInv == \A p \in owed : Held(p)

LEMMA HeldStep ==
  TypeOK /\ HolderInv /\ AskedInv /\ HeldInv /\ [Next]_vars => HeldInv'
  <1> SUFFICES ASSUME TypeOK, HolderInv, AskedInv, HeldInv, [Next]_vars,
                      NEW p \in owed'
               PROVE  Held(p)'
    BY DEF HeldInv, Held, Complete, Queued, Has, Traced
  <1>1. CASE UserStep \/ UNCHANGED vars
    <2>1. p \in owed /\ p \in Periods
      BY <1>1 DEF UserStep, SwitchOff, Unlink, vars, tallyVars, TypeOK
    <2>2. UNCHANGED <<queue, pc, todo, failed, cur>>
      BY <1>1 DEF UserStep, SwitchOff, Unlink, vars, jobVars
    <2> QED
      BY <2>1, <2>2, CompleteStays, TracesStay DEF HeldInv, Held, Queued, Has
  <1>2. ASSUME NEW w \in Workers, WorkerStep(w)
        PROVE  Held(p)'
    <2>1. p \in Periods
      BY TypeStep DEF TypeOK
    <2>2. \A v \in Workers \ {w} : Has(v, p) => Has(v, p)'
      BY <1>2, OtherWorkers DEF Has
    <2>3. CASE p \notin owed
      BY <1>2, <2>1, <2>3, TakingOver DEF Held
    <2>4. CASE p \in owed /\ Complete(p)
      BY <2>1, <2>4, CompleteStays DEF Held
    <2>5. CASE p \in owed /\ Traced(p)
      BY <2>5, TracesStay DEF Held
    <2>6. CASE p \in owed /\ Queued(p)
      BY <1>2, <2>1, <2>6, TakingOver DEF Held
    <2>7. CASE p \in owed /\ Has(w, p)
      BY <1>2, <2>1, <2>2, <2>7, LettingGo DEF Held
    <2>8. CASE p \in owed /\ \E v \in Workers \ {w} : Has(v, p)
      BY <2>2, <2>8 DEF Held
    <2> QED
      BY <2>3, <2>4, <2>5, <2>6, <2>7, <2>8 DEF HeldInv, Held
  <1> QED
    BY <1>1, <1>2 DEF Next, WorkerStep, UserStep

\* No period a night owed is forgotten, over any number of nights, retries, skips
\* and kills: it is written, in somebody's hands, reported, or died with a worker.
THEOREM NoPeriodForgotten == Spec => []NothingForgotten
  <1>1. Init => HolderInv /\ AskedInv /\ HeldInv
    BY DEF Init, HolderInv, AskedInv, HeldInv
  <1>2. HeldInv => NothingForgotten
    BY DEF HeldInv, Held, Queued, Has, Traced, NothingForgotten, InHand
  <1>3. Spec => [](HolderInv /\ AskedInv)
    BY <1>1, HolderStep, AskedStep, TypeCorrect, PTL DEF Spec
  <1> QED
    BY <1>1, <1>2, <1>3, HeldStep, TypeCorrect, PTL DEF Spec
=============================================================================
