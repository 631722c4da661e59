----------------------------- MODULE DigestPhase -----------------------------
(***************************************************************************)
(* The digest phase of the worker: run_digest_phase, task_run_digests and  *)
(* _delegate_digest_retry (backend/app/workers/tasks.py), run_digests and  *)
(* deliver_digests (backend/app/services/alerts.py), over several worker   *)
(* processes that share one database, one broker and Telegram.             *)
(*                                                                         *)
(* A worker takes the periods it owes one after the other.  Each is one    *)
(* transaction under the period's advisory lock (generation), and then,    *)
(* the lock released by the commit, one small transaction per message      *)
(* (delivery).                                                             *)
(***************************************************************************)
EXTENDS Naturals, FiniteSets

CONSTANTS
    Users,            \* users with a profile
    Slots,            \* how many verified Telegram chats a user can bind
    Workers,          \* worker processes
    None,             \* no worker
    Nights,           \* bound: how many nights beat fires
    WeeklyNights,     \* the nights that fall on DIGEST_WEEKLY_DAY
    ManualRuns,       \* bound: ois.run_digests called by hand, without arguments
    DigestMaxRetries, \* DIGEST_MAX_RETRIES
    PostgreSQL        \* FALSE: a dialect without advisory locks

ASSUME NightsAssumption == Nights \in Nat /\ WeeklyNights \subseteq 1..Nights
ASSUME BoundsAssumption == ManualRuns \in Nat /\ DigestMaxRetries \in Nat
ASSUME DialectAssumption == PostgreSQL \in BOOLEAN
ASSUME UsersAssumption == Users # {}
ASSUME NoneAssumption == None \notin Workers

(***************************************************************************)
(* A period is its frequency and the night that owes it: digest_period     *)
(* names the most recently completed day or week, so every run of a night  *)
(* resolves to the same keys, and a retry carries the keys it was given.   *)
(***************************************************************************)
Frequency == {"daily", "weekly"}
Periods == {<<"daily", n>> : n \in 1..Nights}
             \cup {<<"weekly", n>> : n \in WeeklyNights}
Due(n) == {p \in Periods : p[2] = n}

Keys == Users \X Periods
DeliveryStatus == {"none", "pending", "sent", "suppressed", "failed"}
Chains == 1..(Nights + ManualRuns)
Messages == [chain : Chains, periods : SUBSET Periods,
             retries : 0..DigestMaxRetries]

VARIABLES
    digests,    \* committed rows of digests, counted per (user, period)
    record,     \* committed rows of alert_deliveries: their status
    inbox,      \* how many times the message of a key reached the user
    wants,      \* user_profiles.digest_frequency; "off" when inactive
    links,      \* verified notification_channel_links on telegram
    lock,       \* pg_try_advisory_xact_lock("ois.digests:<period>")
    queue,      \* ois.run_digests messages waiting in the broker
    night,      \* nights so far
    manual,     \* manual runs so far
    owed,       \* periods some run was asked to write
    unresolved, \* periods reported as failed for good
    lost,       \* periods in the hands of a worker that was killed
    pc, todo, cur, job,      \* per worker: where it is, periods left, the
                             \* period in hand, the message it executes
    failed,     \* per worker: failed_periods
    piped,      \* per worker: the phase runs inside run_nightly_pipeline
    staged,     \* per worker: users with an uncommitted digest row
    broken,     \* per worker: users whose savepoint failed
    rows,       \* per worker: the (user, chat) rows deliver_digests selected
    target,     \* per worker: the row in hand
    result      \* per worker: what the send came to

dbVars == <<digests, record, inbox, wants, links>>
tallyVars == <<night, manual, owed, unresolved, lost>>
jobVars == <<todo, job, failed, piped>>
genVars == <<staged, broken>>
rowVars == <<rows, target, result>>
vars == <<digests, record, inbox, wants, links, lock, queue, night, manual,
          owed, unresolved, lost, pc, todo, cur, job, failed, piped, staged,
          broken, rows, target, result>>

NoJob == [chain |-> 1, periods |-> {}, retries |-> 0]
NoPeriod == <<"daily", 0>>
AnyUser == CHOOSE u \in Users : TRUE

\* The states of one worker inside the phase.
Places == {"idle", "begin", "generate", "commit", "select", "each", "insert",
           "send", "settle"}
\* The places where the period in hand is not committed yet.
Generating == {"generate", "commit"}

TypeOK ==
    /\ digests \in [Keys -> Nat]
    /\ record \in [Keys -> DeliveryStatus]
    /\ inbox \in [Keys -> Nat]
    /\ wants \in [Users -> Frequency \cup {"off"}]
    /\ links \subseteq Users \X Slots
    /\ lock \in [Periods -> Workers \cup {None}]
    /\ queue \subseteq Messages
    /\ night \in 0..Nights
    /\ manual \in 0..ManualRuns
    /\ owed \subseteq Periods
    /\ unresolved \subseteq Periods
    /\ lost \subseteq Periods
    /\ pc \in [Workers -> Places]
    /\ todo \in [Workers -> SUBSET Periods]
    /\ cur \in [Workers -> Periods \cup {NoPeriod}]
    /\ job \in [Workers -> Messages \cup {NoJob}]
    /\ failed \in [Workers -> SUBSET Periods]
    /\ piped \in [Workers -> BOOLEAN]
    /\ staged \in [Workers -> SUBSET Users]
    /\ broken \in [Workers -> SUBSET Users]
    /\ rows \in [Workers -> SUBSET (Users \X Slots)]
    /\ target \in [Workers -> Users]
    /\ result \in [Workers -> {"sent", "suppressed", "failed"}]
    /\ \A w \in Workers :
          /\ pc[w] \notin {"idle", "begin"} => cur[w] \in Periods
          /\ pc[w] # "idle" => job[w] \in Messages

Init ==
    /\ digests = [k \in Keys |-> 0]
    /\ record = [k \in Keys |-> "none"]
    /\ inbox = [k \in Keys |-> 0]
    /\ wants \in [Users -> Frequency \cup {"off"}]
    /\ links \in SUBSET (Users \X Slots)
    /\ lock = [p \in Periods |-> None]
    /\ queue = {}
    /\ night = 0
    /\ manual = 0
    /\ owed = {}
    /\ unresolved = {}
    /\ lost = {}
    /\ pc = [w \in Workers |-> "idle"]
    /\ todo = [w \in Workers |-> {}]
    /\ cur = [w \in Workers |-> NoPeriod]
    /\ job = [w \in Workers |-> NoJob]
    /\ failed = [w \in Workers |-> {}]
    /\ piped = [w \in Workers |-> FALSE]
    /\ staged = [w \in Workers |-> {}]
    /\ broken = [w \in Workers |-> {}]
    /\ rows = [w \in Workers |-> {}]
    /\ target = [w \in Workers |-> AnyUser]
    /\ result = [w \in Workers |-> "sent"]

(***************************************************************************)
(* Taking work.                                                            *)
(***************************************************************************)
\* run_digest_phase starts: the periods are resolved and nothing is done yet.
Take(w, periods, message, inPipeline) ==
    /\ pc[w] = "idle"
    /\ pc' = [pc EXCEPT ![w] = "begin"]
    /\ todo' = [todo EXCEPT ![w] = periods]
    /\ job' = [job EXCEPT ![w] = message]
    /\ piped' = [piped EXCEPT ![w] = inPipeline]
    /\ UNCHANGED <<dbVars, lock, unresolved, lost, cur, failed, genVars,
                   rowVars>>

\* A first attempt: it carries no periods, it resolves those that are due.
Fresh == [chain |-> night' + manual', periods |-> {}, retries |-> 0]

\* Beat fires and the ordered run reaches its third phase.
NightlyPipeline(w) ==
    /\ night < Nights
    /\ night' = night + 1
    /\ owed' = owed \cup Due(night')
    /\ UNCHANGED <<manual, queue>>
    /\ Take(w, Due(night'), Fresh, TRUE)

\* An operator calls ois.run_digests by hand: the same periods, a second run.
ManualRun(w) ==
    /\ night > 0 /\ manual < ManualRuns
    /\ manual' = manual + 1
    /\ owed' = owed \cup Due(night)
    /\ UNCHANGED <<night, queue>>
    /\ Take(w, Due(night), Fresh, FALSE)

\* The worker takes a retry off the broker, which forgets it at once
\* (acks_late=False): the periods of the message, verbatim.
TakeRetry(w) ==
    \E m \in queue :
        /\ queue' = queue \ {m}
        /\ UNCHANGED <<night, manual, owed>>
        /\ Take(w, m.periods, m, FALSE)

(***************************************************************************)
(* Generation: one transaction per period.                                 *)
(***************************************************************************)
\* try_advisory_xact_lock; without PostgreSQL it says yes to everybody.
Free(p) == ~PostgreSQL \/ lock[p] = None

Acquire(w) ==
    /\ pc[w] = "begin"
    /\ \E p \in todo[w] :
        /\ Free(p)
        /\ todo' = [todo EXCEPT ![w] = @ \ {p}]
        /\ cur' = [cur EXCEPT ![w] = p]
        /\ lock' = IF PostgreSQL THEN [lock EXCEPT ![p] = w] ELSE lock
    /\ pc' = [pc EXCEPT ![w] = "generate"]
    /\ UNCHANGED <<dbVars, queue, tallyVars, job, failed, piped, genVars,
                   rowVars>>

\* Somebody else is writing the period: skipped, and never retried.
Skip(w) ==
    /\ pc[w] = "begin"
    /\ \E p \in todo[w] :
        /\ ~Free(p)
        /\ todo' = [todo EXCEPT ![w] = @ \ {p}]
    /\ UNCHANGED <<dbVars, lock, queue, tallyVars, pc, cur, job, failed,
                   piped, genVars, rowVars>>

\* The transaction ends, and the advisory lock with it.
Released(w) == [p \in Periods |-> IF lock[p] = w THEN None ELSE lock[p]]

\* Mutant: migration 0007 without the unique index.
RefusedNever(u, p) == FALSE

\* ux_digest_period: a committed row refuses the insert, and an uncommitted
\* one of another transaction makes it wait.
Refused(u, p) == digests[<<u, p>>] > 0
Waits(w, u, p) == \E v \in Workers \ {w} :
                      pc[v] = "commit" /\ cur[v] = p /\ u \in staged[v]

\* run_digests: every user who asked for the frequency, each in a savepoint.
\* Those in failing raise, those already written are counted as duplicates.
Generate(w) ==
    /\ pc[w] = "generate"
    /\ LET p == cur[w]
           asked == {u \in Users : wants[u] = p[1]}
       IN \E failing \in SUBSET asked :
            /\ \A u \in asked \ failing : ~Waits(w, u, p)
            /\ staged' = [staged EXCEPT ![w] =
                             {u \in asked \ failing : ~Refused(u, p)}]
            /\ broken' = [broken EXCEPT ![w] = failing]
    /\ pc' = [pc EXCEPT ![w] = "commit"]
    /\ UNCHANGED <<dbVars, lock, queue, tallyVars, jobVars, cur, rowVars>>

Commit(w) ==
    /\ pc[w] = "commit"
    /\ digests' = [k \in Keys |->
                     IF k[1] \in staged[w] /\ k[2] = cur[w]
                     THEN digests[k] + 1 ELSE digests[k]]
    /\ failed' = [failed EXCEPT ![w] =
                     IF broken[w] = {} THEN @ ELSE @ \cup {cur[w]}]
    /\ staged' = [staged EXCEPT ![w] = {}]
    /\ broken' = [broken EXCEPT ![w] = {}]
    /\ lock' = Released(w)
    /\ pc' = [pc EXCEPT ![w] = "select"]
    /\ UNCHANGED <<record, inbox, wants, links, queue, tallyVars, todo, job,
                   piped, cur, rowVars>>

\* An exception that is not a unit's: the period is rolled back and failed.
RollBack(w) ==
    /\ pc[w] \in Generating
    /\ failed' = [failed EXCEPT ![w] = @ \cup {cur[w]}]
    /\ staged' = [staged EXCEPT ![w] = {}]
    /\ broken' = [broken EXCEPT ![w] = {}]
    /\ lock' = Released(w)
    /\ pc' = [pc EXCEPT ![w] = "begin"]
    /\ cur' = [cur EXCEPT ![w] = NoPeriod]
    /\ UNCHANGED <<dbVars, queue, tallyVars, todo, job, piped, rowVars>>

(***************************************************************************)
(* Delivery: after the commit, without the lock.                           *)
(***************************************************************************)
\* The rows to send are read once, before the first message.  Only daily
\* digests are delivered, to the verified chats of users who still ask.
Deliverable(p) ==
    {r \in links : /\ p[1] = "daily"
                   /\ digests[<<r[1], p>>] > 0
                   /\ wants[r[1]] = p[1]}

Select(w) ==
    /\ pc[w] = "select"
    /\ rows' = [rows EXCEPT ![w] = Deliverable(cur[w])]
    /\ pc' = [pc EXCEPT ![w] = "each"]
    /\ UNCHANGED <<dbVars, lock, queue, tallyVars, jobVars, cur, genVars,
                   target, result>>

\* The next row: skipped when the user already has a record for the period
\* (whatever its status, and whichever chat it was for).
NextRow(w) ==
    /\ pc[w] = "each"
    /\ \E r \in rows[w] :
        /\ rows' = [rows EXCEPT ![w] = @ \ {r}]
        /\ IF record[<<r[1], cur[w]>>] = "none"
           THEN /\ target' = [target EXCEPT ![w] = r[1]]
                /\ pc' = [pc EXCEPT ![w] = "insert"]
           ELSE UNCHANGED <<target, pc>>
    /\ UNCHANGED <<dbVars, lock, queue, tallyVars, jobVars, cur, genVars,
                   result>>

\* Mutant: the record is upserted instead of inserted.
InsertOverwrites(w) ==
    /\ pc[w] = "insert"
    /\ record' = [record EXCEPT ![<<target[w], cur[w]>>] = "pending"]
    /\ pc' = [pc EXCEPT ![w] = "send"]
    /\ UNCHANGED <<digests, inbox, wants, links, lock, queue, tallyVars,
                   jobVars, cur, genVars, rowVars>>

\* Mutant: the order of the alert engine, send first and record afterwards.
InsertLate(w) ==
    /\ pc[w] = "insert"
    /\ pc' = [pc EXCEPT ![w] = "send"]
    /\ UNCHANGED <<dbVars, lock, queue, tallyVars, jobVars, cur, genVars,
                   rowVars>>

\* The pending record is inserted and committed.  If another run's record came
\* first the unique index refuses it, and the row is left alone.
Insert(w) ==
    /\ pc[w] = "insert"
    /\ LET k == <<target[w], cur[w]>>
       IN IF record[k] = "none"
          THEN /\ record' = [record EXCEPT ![k] = "pending"]
               /\ pc' = [pc EXCEPT ![w] = "send"]
               /\ UNCHANGED target
          ELSE /\ pc' = [pc EXCEPT ![w] = "each"]
               /\ target' = [target EXCEPT ![w] = AnyUser]
               /\ UNCHANGED record
    /\ UNCHANGED <<digests, inbox, wants, links, lock, queue, tallyVars,
                   jobVars, cur, genVars, rows, result>>

\* provider.send: the message arrives or not, and the answer says so or not.
\* A lost response is a message that arrived and is stored as suppressed; a
\* provider that raises is stored as failed.
\* Each outcome is the number of copies that arrived and the stored status.
Outcomes == {<<1, "sent">>, <<0, "suppressed">>, <<1, "suppressed">>,
             <<0, "failed">>, <<1, "failed">>}

Send(w) ==
    /\ pc[w] = "send"
    /\ \E o \in Outcomes :
        /\ inbox' = [inbox EXCEPT ![<<target[w], cur[w]>>] = @ + o[1]]
        /\ result' = [result EXCEPT ![w] = o[2]]
    /\ pc' = [pc EXCEPT ![w] = "settle"]
    /\ UNCHANGED <<digests, record, wants, links, lock, queue, tallyVars,
                   jobVars, cur, genVars, rows, target>>

\* Mutant: every handed message is marked as sent.
SettleAsSent(w) ==
    /\ pc[w] = "settle"
    /\ record' = [record EXCEPT ![<<target[w], cur[w]>>] = "sent"]
    /\ target' = [target EXCEPT ![w] = AnyUser]
    /\ result' = [result EXCEPT ![w] = "sent"]
    /\ pc' = [pc EXCEPT ![w] = "each"]
    /\ UNCHANGED <<digests, inbox, wants, links, lock, queue, tallyVars,
                   jobVars, cur, genVars, rows>>

\* _mark_delivery.
SettleRecord(w) ==
    /\ pc[w] = "settle"
    /\ record' = [record EXCEPT ![<<target[w], cur[w]>>] = result[w]]
    /\ target' = [target EXCEPT ![w] = AnyUser]
    /\ result' = [result EXCEPT ![w] = "sent"]
    /\ pc' = [pc EXCEPT ![w] = "each"]
    /\ UNCHANGED <<digests, inbox, wants, links, lock, queue, tallyVars,
                   jobVars, cur, genVars, rows>>

\* The period's delivery is over.
Delivered(w) ==
    /\ pc[w] = "each"
    /\ rows[w] = {}
    /\ pc' = [pc EXCEPT ![w] = "begin"]
    /\ cur' = [cur EXCEPT ![w] = NoPeriod]
    /\ UNCHANGED <<dbVars, lock, queue, tallyVars, jobVars, genVars, rowVars>>

ClearRows(w) == /\ rows' = [rows EXCEPT ![w] = {}]
                /\ target' = [target EXCEPT ![w] = AnyUser]
                /\ result' = [result EXCEPT ![w] = "sent"]

\* A database error while a record is written or settled.  Its rollback
\* expires the rows still to be read, so the loop ends with it: the remaining
\* users get nothing, and the phase goes on with its next period.
Abandon(w) ==
    /\ pc[w] \in {"select", "insert", "settle"}
    /\ ClearRows(w)
    /\ pc' = [pc EXCEPT ![w] = "begin"]
    /\ cur' = [cur EXCEPT ![w] = NoPeriod]
    /\ UNCHANGED <<dbVars, lock, queue, tallyVars, jobVars, genVars>>

(***************************************************************************)
(* The end of the phase: retries, and workers that die.                    *)
(***************************************************************************)
\* Mutant: the retry resolves its periods again, on its own clock.
RetryRecomputed(w) ==
    [job[w] EXCEPT !.periods = Due(night),
                   !.retries = IF piped[w] THEN 0 ELSE @ + 1]

\* Mutant: the retry count is lost on the way through the broker.
RetryUncounted(w) == [job[w] EXCEPT !.periods = failed[w]]

\* A message for the failed periods and nothing else: the pipeline delegates
\* with a fresh retry count, the task retries itself with one more.
RetryMessage(w) ==
    [job[w] EXCEPT !.periods = failed[w],
                   !.retries = IF piped[w] THEN 0 ELSE @ + 1]

\* max_retries is reached: DigestPhaseError, and the task stays failed.
Exhausted(w) == ~piped[w] /\ job[w].retries >= DigestMaxRetries

Leave(w) == /\ pc' = [pc EXCEPT ![w] = "idle"]
            /\ job' = [job EXCEPT ![w] = NoJob]
            /\ failed' = [failed EXCEPT ![w] = {}]
            /\ piped' = [piped EXCEPT ![w] = FALSE]

Ended(w) == /\ pc[w] = "begin"
            /\ todo[w] = {}
            /\ Leave(w)
            /\ UNCHANGED <<dbVars, lock, night, manual, owed, lost, todo, cur,
                           genVars, rowVars>>

Finish(w) == failed[w] = {} /\ Ended(w) /\ UNCHANGED <<queue, unresolved>>

Retry(w) == /\ failed[w] # {} /\ ~Exhausted(w)
            /\ queue' = queue \cup {RetryMessage(w)}
            /\ Ended(w) /\ UNCHANGED unresolved

\* Out of attempts, or the broker does not take the message: reported.
GiveUp(w) == /\ failed[w] # {}
             /\ unresolved' = unresolved \cup failed[w]
             /\ Ended(w) /\ UNCHANGED queue

\* The process dies, or an error that means "stop the run" is re-raised: the
\* open transaction is rolled back and nothing is redelivered.
Killed(w) ==
    /\ pc[w] # "idle"
    /\ lost' = lost \cup todo[w] \cup failed[w]
                    \cup (IF pc[w] \in Generating THEN {cur[w]} ELSE {})
    /\ staged' = [staged EXCEPT ![w] = {}]
    /\ broken' = [broken EXCEPT ![w] = {}]
    /\ lock' = Released(w)
    /\ todo' = [todo EXCEPT ![w] = {}]
    /\ cur' = [cur EXCEPT ![w] = NoPeriod]
    /\ ClearRows(w)
    /\ Leave(w)
    /\ UNCHANGED <<dbVars, queue, night, manual, owed, unresolved>>

(***************************************************************************)
(* What users do meanwhile (backend/app/api/v1/me.py).                     *)
(***************************************************************************)
SwitchOff(u) == /\ wants[u] # "off"
                /\ wants' = [wants EXCEPT ![u] = "off"]
                /\ UNCHANGED <<digests, record, inbox, links, lock, queue,
                               tallyVars, pc, jobVars, cur, genVars, rowVars>>

Unlink(r) == /\ r \in links
             /\ links' = links \ {r}
             /\ UNCHANGED <<digests, record, inbox, wants, lock, queue,
                            tallyVars, pc, jobVars, cur, genVars, rowVars>>

Start(w) == NightlyPipeline(w) \/ ManualRun(w)

Work(w) == \/ Acquire(w) \/ Skip(w) \/ Generate(w) \/ Commit(w)
           \/ Select(w) \/ NextRow(w) \/ Insert(w) \/ Send(w)
           \/ SettleRecord(w) \/ Delivered(w)
           \/ Finish(w) \/ Retry(w) \/ GiveUp(w)

Fail(w) == RollBack(w) \/ Abandon(w) \/ Killed(w)

Next == \/ \E w \in Workers : Start(w) \/ TakeRetry(w) \/ Work(w) \/ Fail(w)
        \/ \E u \in Users : SwitchOff(u)
        \/ \E r \in links : Unlink(r)

Spec == Init /\ [][Next]_vars

(***************************************************************************)
(* A worker that is alive makes progress, and a waiting message is taken.  *)
(* Nothing makes beat fire, an operator call, or a step fail.              *)
(***************************************************************************)
Fairness == /\ \A w \in Workers : WF_vars(Work(w))
            /\ WF_vars(\E w \in Workers : TakeRetry(w))

FairSpec == Spec /\ Fairness

-----------------------------------------------------------------------------
(***************************************************************************)
(* The inductive invariants the proofs rest on.                            *)
(***************************************************************************)
\* Uncommitted rows never clash with a committed one or with each other.
WritingInv ==
    /\ \A k \in Keys : digests[k] <= 1
    /\ \A w \in Workers :
          pc[w] = "commit" => \A u \in staged[w] : digests[<<u, cur[w]>>] = 0
    /\ \A v, w \in Workers :
          v # w /\ pc[v] = "commit" /\ pc[w] = "commit" /\ cur[v] = cur[w] =>
              staged[v] \cap staged[w] = {}

Sending == {"send", "settle"}
KeyOf(w) == <<target[w], cur[w]>>

\* A worker about to send, or to settle, owns a pending record of its own.
SendingInv ==
    /\ \A w \in Workers : pc[w] \in Sending => record[KeyOf(w)] = "pending"
    /\ \A v, w \in Workers :
          v # w /\ pc[v] \in Sending /\ pc[w] \in Sending => KeyOf(v) # KeyOf(w)
    /\ \A w \in Workers : pc[w] = "send" => inbox[KeyOf(w)] = 0
    /\ \A w \in Workers :
          pc[w] = "settle" /\ result[w] = "sent" => inbox[KeyOf(w)] = 1
    /\ \A k \in Keys : record[k] = "none" => inbox[k] = 0
    /\ \A k \in Keys : inbox[k] <= 1
    /\ \A k \in Keys : record[k] = "sent" => inbox[k] = 1

\* Only committed digests are selected, recorded and sent.
WrittenInv ==
    /\ \A w \in Workers :
          pc[w] \in {"each", "insert", "send", "settle"} =>
              \A r \in rows[w] : digests[<<r[1], cur[w]>>] > 0
    /\ \A w \in Workers :
          pc[w] \in {"insert", "send", "settle"} => digests[KeyOf(w)] > 0
    /\ \A k \in Keys : record[k] # "none" => digests[k] > 0

\* A lock is held by the worker that writes the period, until its transaction
\* ends.
HolderInv ==
    \A p \in Periods :
        lock[p] # None => pc[lock[p]] \in Generating /\ cur[lock[p]] = p

\* Before its commit a run has seen to everybody who asks for the period: the row
\* is staged, or on record, or the user's failure is remembered.
AskedInv ==
    \A w \in Workers :
        pc[w] = "commit" =>
            \A u \in Users :
                wants[u] = cur[w][1] =>
                    u \in staged[w] \cup broken[w] \/ digests[<<u, cur[w]>>] > 0

-----------------------------------------------------------------------------
\* A period is written for a user at most once, whatever runs overlap, are
\* retried or die: ux_digest_period and run_digests' counted duplicates.
OneDigestPerPeriod == \A k \in Keys : digests[k] <= 1

\* A user gets a period's message at most once: deliver_digests commits its
\* record before the send and never sends under a record it did not write.
AtMostOneMessage == \A k \in Keys : inbox[k] <= 1

\* Nothing reaches a user that the database cannot account for: a message
\* that arrived has a committed digest and a committed delivery record.
NoUnrecordedMessage ==
    \A k \in Keys : inbox[k] > 0 => record[k] # "none" /\ digests[k] = 1

\* "sent" is never claimed of a message that did not arrive.
SentArrived == \A k \in Keys : record[k] = "sent" => inbox[k] = 1

\* A delivery record is written once and settled once: no run reopens,
\* changes or removes the record another run left, a pending one included.
RecordsAreFinal ==
    [][\A k \in Keys : record'[k] # record[k] =>
          \/ record[k] = "none" /\ record'[k] = "pending"
          \/ record[k] = "pending" /\ record'[k] \notin {"none", "pending"}]_vars

\* The period is written for everybody who still wants it.
Complete(p) == \A u \in Users : wants[u] = p[1] => digests[<<u, p>>] > 0

\* Some worker or some message still answers for the period.
InHand(p) == \/ \E m \in queue : p \in m.periods
             \/ \E w \in Workers :
                   /\ pc[w] # "idle"
                   /\ \/ p \in todo[w] \cup failed[w]
                      \/ pc[w] \in Generating /\ cur[w] = p

\* No owed period is forgotten.  It is written for every user who wants it, or
\* somebody still has it in hand, or its failure was reported, or the worker
\* that had it was killed.  In particular a run that skips a period because
\* another holds its lock, and a retry that carries only the failures, lose
\* nothing.
NothingForgotten ==
    \A p \in owed : Complete(p) \/ InHand(p) \/ p \in unresolved \cup lost

\* Every owed period is settled in the end: retries are bounded.
EveryPeriodResolved ==
    \A p \in Periods : p \in owed ~> (Complete(p) \/ p \in unresolved \cup lost)

\* Claimed by deliver_digests ("Each user is isolated"): a failure on one row
\* leaves no other user's row unread.
EachUserIsolated ==
    [][\A w \in Workers :
          pc[w] \in {"insert", "settle"} /\ pc'[w] = "begin" =>
              \A r \in rows[w] : r[1] = target[w]]_vars

\* The abstract specification, implemented by the digests' records and chats.
\* Workers, transactions, queues and retries are what the mapping forgets.
Delivery == INSTANCE DigestDelivery
              WITH Keys <- Keys, record <- record, inbox <- inbox
ImplementsDelivery == Delivery!AbsSpec
=============================================================================
