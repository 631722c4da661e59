---------------------------- MODULE AlertDispatch ----------------------------
(***************************************************************************)
(* The monitoring phase: check the conditions, record what changed, alert  *)
(* whoever asked.  monitor_all, recent_events                              *)
(* (backend/app/services/monitoring.py) and dispatch                       *)
(* (backend/app/services/alerts.py), run by the worker under an advisory   *)
(* lock (run_monitoring_phase, backend/app/workers/tasks.py) and by an     *)
(* administrator without it (run_monitor, backend/app/api/v1/monitoring.py)*)
(*                                                                         *)
(* One opportunity stands for all: it has one condition, one score and the *)
(* rules that watch it.  A run is one transaction.  It sends while it is   *)
(* open, so a rollback takes back the rows and not the messages.           *)
(***************************************************************************)
EXTENDS Naturals, FiniteSets

CONSTANTS
    Users,         \* owners of rules
    Rules,         \* enabled alert rules
    Owner,         \* the user a rule belongs to
    Triggers,      \* the event kinds a rule's trigger, watchlist and
                   \* conditions let through
    Remote,        \* the rules that also want a verified Telegram link
    Scheduled,     \* monitoring runs by worker processes
    Admins,        \* monitoring runs by administrators
    None,          \* nobody, never
    CooldownHours, \* alert_rules.cooldown_hours
    LookbackHours, \* MONITOR_LOOKBACK_HOURS
    EventLimit,    \* how many events a run presents at most
    StepHours,     \* the clock advances by this much
    MaxHours,      \* bound on the clock
    MaxRuns,       \* bound on the runs started
    MaxChanges     \* bound on the rises of the measure, and on the rescorings

Runs == Scheduled \cup Admins
Kinds == {"score", "met"}

ASSUME RulesAssumption == /\ Owner \in [Rules -> Users]
                          /\ Triggers \in [Rules -> SUBSET Kinds]
                          /\ Remote \subseteq Rules
                          /\ Rules # {}
ASSUME RunsAssumption == Scheduled \cap Admins = {} /\ None \notin Runs \cup Nat
ASSUME HoursAssumption ==
    /\ {CooldownHours, LookbackHours, StepHours, EventLimit} \subseteq Nat
    /\ {MaxHours, MaxRuns, MaxChanges} \subseteq Nat

(***************************************************************************)
(* A fact is something that happened in the world: the n-th rise of the    *)
(* measure over the threshold of the condition, or the n-th rescoring.     *)
(* An event is one stored record of a fact, by one run, under one scoring; *)
(* "locked" remembers whether that run held the lock.                      *)
(***************************************************************************)
Events == [kind : Kinds, fact : 0..MaxChanges, scoring : 0..MaxChanges,
           run : 1..MaxRuns, at : 0..MaxHours, locked : BOOLEAN]

(***************************************************************************)
(* What a delivered event leaves in alert_deliveries.  dedupe_key is the   *)
(* rule and the event's id.  The in-app row is always there and always     *)
(* sent; the Telegram row is there for the rules that want one.            *)
(***************************************************************************)
Rows == [rule : Rules, event : Events, telegram : {"none", "sent", "suppressed"},
         run : 1..MaxRuns, at : 0..MaxHours]
Messages == Rules \X Events \X (1..MaxRuns)

VARIABLES
    clock,      \* hours
    holds,      \* the measurements satisfy the condition
    rises,      \* how often they came to satisfy it
    scorings,   \* how often the opportunity was rescored
    moved,      \* the last two score snapshots differ by the event threshold
    condition,  \* the stored state of the condition is MET
    events,     \* committed opportunity_change_events
    rows,       \* committed alert_deliveries
    lastFired,  \* committed alert_rules.last_fired_at
    inbox,      \* the Telegram messages that reached a user
    undone,     \* those whose rows were rolled back afterwards
    excused,    \* <<rule, event>>: a committed run left the rule without the
                \* event on purpose, or failed on the rule
    undercut,   \* <<rise, scoring>>: a run without the lock wrote an older
                \* verdict over a condition that was met
    lock,       \* pg_try_advisory_xact_lock("ois.monitoring")
    runs,       \* runs started so far
    pc,         \* per run: where it is
    at,         \* per run: its now
    number,     \* per run: which run it is
    loaded,     \* per run: the stored condition as it read it
    seen,       \* per run: the condition as it evaluated it
    based,      \* per run: the scoring whose conditions it read
    derived,    \* per run: its uncommitted events
    window,     \* per run: the events it dispatches
    left,       \* per run: the rules still to evaluate
    rule,       \* per run: the rule in hand
    todo,       \* per run: the events still to deliver for it
    mine,       \* per run: rows inserted under the rule's savepoint
    staged,     \* per run: rows of the rules that are through
    fired,      \* per run: the rules whose last_fired_at it has set
    skips       \* per run: what it adds to excused

worldVars == <<clock, holds, rises, scorings, moved>>
storeVars == <<condition, events, rows, lastFired, excused, undercut>>
sentVars == <<inbox, undone>>
readVars == <<at, number, loaded, seen, based, derived, window>>
ruleVars == <<left, rule, todo, mine, staged, fired, skips>>
vars == <<clock, holds, rises, scorings, moved, condition, events, rows,
          lastFired, inbox, undone, excused, undercut, lock, runs, pc, at,
          number, loaded, seen, based, derived, window, left, rule, todo, mine,
          staged, fired, skips>>

Places == {"idle", "check", "flush", "load", "rules", "deliver"}
\* A run that has flushed its condition checks holds the row of the condition,
\* and with it everything after: such a run is the only one past this point.
HoldsRow(r) == pc[r] \in {"load", "rules", "deliver"}
NoRule == CHOOSE u \in Rules : TRUE

TypeOK ==
    /\ clock \in 0..MaxHours
    /\ holds \in BOOLEAN /\ moved \in BOOLEAN /\ condition \in BOOLEAN
    /\ rises \in 0..MaxChanges /\ scorings \in 0..MaxChanges
    /\ events \subseteq Events
    /\ rows \subseteq Rows
    /\ lastFired \in [Rules -> (0..MaxHours) \cup {None}]
    /\ inbox \subseteq Messages
    /\ undone \subseteq Messages
    /\ excused \subseteq Rules \X Events
    /\ undercut \subseteq (0..MaxChanges) \X (0..MaxChanges)
    /\ lock \in Scheduled \cup {None}
    /\ runs \in 0..MaxRuns
    /\ pc \in [Runs -> Places]
    /\ at \in [Runs -> 0..MaxHours]
    /\ number \in [Runs -> 0..MaxRuns]
    /\ loaded \in [Runs -> BOOLEAN]
    /\ seen \in [Runs -> BOOLEAN]
    /\ based \in [Runs -> 0..MaxChanges]
    /\ derived \in [Runs -> SUBSET Events]
    /\ window \in [Runs -> SUBSET Events]
    /\ left \in [Runs -> SUBSET Rules]
    /\ rule \in [Runs -> Rules]
    /\ todo \in [Runs -> SUBSET Events]
    /\ mine \in [Runs -> SUBSET Rows]
    /\ staged \in [Runs -> SUBSET Rows]
    /\ fired \in [Runs -> SUBSET Rules]
    /\ skips \in [Runs -> SUBSET (Rules \X Events)]
    /\ \A r \in Runs : pc[r] # "idle" => number[r] # 0

Init ==
    /\ clock = 0
    /\ holds = FALSE /\ rises = 0
    /\ scorings = 0 /\ moved = FALSE
    /\ condition = FALSE
    /\ events = {} /\ rows = {}
    /\ lastFired = [u \in Rules |-> None]
    /\ inbox = {} /\ undone = {} /\ excused = {} /\ undercut = {}
    /\ lock = None
    /\ runs = 0
    /\ pc = [r \in Runs |-> "idle"]
    /\ at = [r \in Runs |-> 0]
    /\ number = [r \in Runs |-> 0]
    /\ loaded = [r \in Runs |-> FALSE]
    /\ seen = [r \in Runs |-> FALSE]
    /\ based = [r \in Runs |-> 0]
    /\ derived = [r \in Runs |-> {}]
    /\ window = [r \in Runs |-> {}]
    /\ left = [r \in Runs |-> {}]
    /\ rule = [r \in Runs |-> NoRule]
    /\ todo = [r \in Runs |-> {}]
    /\ mine = [r \in Runs |-> {}]
    /\ staged = [r \in Runs |-> {}]
    /\ fired = [r \in Runs |-> {}]
    /\ skips = [r \in Runs |-> {}]

(***************************************************************************)
(* The world: time, measurements, and an administrator who rescores.       *)
(***************************************************************************)
Tick ==
    /\ clock + StepHours <= MaxHours
    /\ clock' = clock + StepHours
    /\ UNCHANGED <<holds, rises, scorings, moved, storeVars, sentVars, lock,
                   runs, pc, readVars, ruleVars>>

Measure ==
    /\ holds' = ~holds
    /\ rises' = IF holds THEN rises ELSE rises + 1
    /\ rises' <= MaxChanges
    /\ UNCHANGED <<clock, scorings, moved, storeVars, sentVars, lock, runs, pc,
                   readVars, ruleVars>>

\* _upsert writes the next snapshot and replaces the conditions: the new rows
\* start as pending.  Deleting the old ones waits for a run that holds them.
Rescore ==
    /\ scorings < MaxChanges
    /\ \A r \in Runs : ~HoldsRow(r)
    /\ scorings' = scorings + 1
    /\ moved' \in BOOLEAN
    /\ condition' = FALSE
    /\ UNCHANGED <<clock, holds, rises, events, rows, lastFired, excused,
                   undercut, sentVars, lock, runs, pc, readVars, ruleVars>>

(***************************************************************************)
(* A run checks the condition and records what changed.                    *)
(***************************************************************************)
\* Mutant: the worker does not ask for the lock.
BeginUnlocked(r) ==
    /\ pc[r] = "idle" /\ runs < MaxRuns
    /\ lock' = lock
    /\ runs' = runs + 1
    /\ number' = [number EXCEPT ![r] = runs']
    /\ at' = [at EXCEPT ![r] = clock]
    /\ pc' = [pc EXCEPT ![r] = "check"]
    /\ UNCHANGED <<worldVars, storeVars, sentVars, loaded, seen, based, derived,
                   window, ruleVars>>

\* A run's now is fixed first.  A worker takes the lock or reports "skipped",
\* which changes nothing; an administrator takes no lock.
Begin(r) ==
    /\ pc[r] = "idle" /\ runs < MaxRuns
    /\ r \in Scheduled => lock = None
    /\ lock' = IF r \in Scheduled THEN r ELSE lock
    /\ runs' = runs + 1
    /\ number' = [number EXCEPT ![r] = runs']
    /\ at' = [at EXCEPT ![r] = clock]
    /\ pc' = [pc EXCEPT ![r] = "check"]
    /\ UNCHANGED <<worldVars, storeVars, sentVars, loaded, seen, based, derived,
                   window, ruleVars>>

Event(kind, fact, r) ==
    [kind |-> kind, fact |-> fact, scoring |-> scorings, run |-> number[r],
     at |-> at[r], locked |-> r \in Scheduled]

\* check_condition, and detect_changes of a transition to MET.  The stored
\* state is read without locking the row.
Check(r) ==
    /\ pc[r] = "check"
    /\ loaded' = [loaded EXCEPT ![r] = condition]
    /\ seen' = [seen EXCEPT ![r] = holds]
    /\ based' = [based EXCEPT ![r] = scorings]
    /\ derived' = [derived EXCEPT ![r] = IF holds /\ ~condition
                                         THEN {Event("met", rises, r)} ELSE {}]
    /\ pc' = [pc EXCEPT ![r] = "flush"]
    /\ UNCHANGED <<worldVars, storeVars, sentVars, lock, runs, at, number,
                   window, ruleVars>>

\* Mutant: the condition checks are committed before the events are.
FlushCommits(r) ==
    /\ pc[r] = "flush"
    /\ based[r] = scorings
    /\ \A o \in Runs : ~HoldsRow(o)
    /\ condition' = seen[r]
    /\ derived' = [derived EXCEPT ![r] = @ \cup
                      (IF moved THEN {Event("score", scorings, r)} ELSE {})]
    /\ pc' = [pc EXCEPT ![r] = "load"]
    /\ UNCHANGED <<worldVars, events, rows, lastFired, excused, undercut, sentVars,
                   lock, runs, at, number, loaded, seen, based, window, ruleVars>>

\* run_condition_checks' flush writes the checks and every condition row, and
\* waits for another run that has.  Rows a rescoring has replaced meanwhile
\* refuse the checks, and the run fails (Abort).  detect_changes then compares
\* the last two snapshots, whoever has compared them before.
Flush(r) ==
    /\ pc[r] = "flush"
    /\ based[r] = scorings
    /\ \A o \in Runs : ~HoldsRow(o)
    /\ derived' = [derived EXCEPT ![r] = @ \cup
                      (IF moved THEN {Event("score", scorings, r)} ELSE {})]
    /\ pc' = [pc EXCEPT ![r] = "load"]
    /\ UNCHANGED <<worldVars, storeVars, sentVars, lock, runs, at, number, loaded,
                   seen, based, window, ruleVars>>

(***************************************************************************)
(* recent_events and dispatch.                                             *)
(***************************************************************************)
\* The endpoint looks back one minute, which is less than a step of the clock.
Lookback(r) == IF r \in Scheduled THEN LookbackHours ELSE 0
\* Mutant: only the events that were already there are dispatched.
RecentCommitted(r) == {e \in events : e.at + Lookback(r) >= at[r]}

Recent(r) == {e \in events \cup derived[r] : e.at + Lookback(r) >= at[r]}

\* The newest EventLimit of a set of events; ties are cut anyhow.
Newest(E) ==
    {F \in SUBSET E :
        /\ Cardinality(F) = IF Cardinality(E) <= EventLimit
                            THEN Cardinality(E) ELSE EventLimit
        /\ \A f \in F, e \in E \ F : f.at >= e.at}

Matching(u, E) == {e \in E : e.kind \in Triggers[u]}
Told(u, e) == \E x \in rows : x.rule = u /\ x.event = e
Untold(u, E) == {e \in Matching(u, E) : ~Told(u, e)}
\* What a rule goes without when it is not evaluated on the events of E.
Missed(u, E) == {<<u, e>> : e \in Untold(u, E)}
\* What everybody goes without in a run that presents W to the rules in ready.
Neglected(r, W, ready) ==
    {p \in Rules \X Recent(r) : /\ p[2] \in Untold(p[1], Recent(r))
                                /\ p[1] \in ready => p[2] \notin W}

\* The window is read, then the relevance of every owner is prepared: the rules
\* of those it fails for are not evaluated.
Load(r) ==
    /\ pc[r] = "load"
    /\ \E W \in Newest(Recent(r)), unprepared \in SUBSET Users :
        LET ready == {u \in Rules : Owner[u] \notin unprepared}
        IN  /\ window' = [window EXCEPT ![r] = W]
            /\ left' = [left EXCEPT ![r] = IF W = {} THEN {} ELSE ready]
            /\ skips' = [skips EXCEPT ![r] = Neglected(r, W, ready)]
    /\ pc' = [pc EXCEPT ![r] = "rules"]
    /\ UNCHANGED <<worldVars, storeVars, sentVars, lock, runs, at, number, loaded,
                   seen, based, derived, rule, todo, mine, staged, fired>>

\* Mutant: the cooldown is over one step early.
CoolingShort(u, r) == lastFired[u] # None
                         /\ at[r] + StepHours < lastFired[u] + CooldownHours

\* The rule as this run loaded it: nobody changes it while the run holds the
\* row of the condition.
Cooling(u, r) == lastFired[u] # None /\ at[r] < lastFired[u] + CooldownHours

\* The next rule, under a savepoint of its own.  In its cooldown window it is
\* passed over, and nothing is stored about what it was not told.
StartRule(r) ==
    /\ pc[r] = "rules"
    /\ \E u \in left[r] :
        /\ left' = [left EXCEPT ![r] = @ \ {u}]
        /\ IF Cooling(u, r)
           THEN /\ skips' = [skips EXCEPT ![r] =
                                @ \cup Missed(u, window[r])]
                /\ UNCHANGED <<pc, rule, todo>>
           ELSE /\ rule' = [rule EXCEPT ![r] = u]
                /\ todo' = [todo EXCEPT ![r] = Matching(u, window[r])]
                /\ pc' = [pc EXCEPT ![r] = "deliver"]
                /\ UNCHANGED skips
    /\ UNCHANGED <<worldVars, storeVars, sentVars, lock, runs, readVars, mine,
                   staged, fired>>

Row(r, e, telegram) == [rule |-> rule[r], event |-> e, telegram |-> telegram,
                        run |-> number[r], at |-> at[r]]
Message(r, e) == <<rule[r], e, number[r]>>

\* The Telegram row and whether the message arrived: refused or unreachable,
\* sent, or sent with the response lost.
Outcomes == {<<"suppressed", 0>>, <<"sent", 1>>, <<"suppressed", 1>>}

\* Mutant: the unique key does not hold the rows of earlier runs.
DeliverAgain(r) ==
    /\ pc[r] = "deliver"
    /\ \E e \in todo[r] :
        /\ todo' = [todo EXCEPT ![r] = @ \ {e}]
        /\ \E o \in IF rule[r] \in Remote THEN Outcomes ELSE {<<"none", 0>>} :
                /\ mine' = [mine EXCEPT ![r] = @ \cup {Row(r, e, o[1])}]
                /\ inbox' = IF o[2] = 1 THEN inbox \cup {Message(r, e)} ELSE inbox
    /\ UNCHANGED <<worldVars, storeVars, undone, lock, runs, pc, readVars, left,
                   rule, staged, fired, skips>>

\* _deliver: the rows are inserted, unless ux_alert_dedupe refuses them, and
\* the message is sent at once.
Deliver(r) ==
    /\ pc[r] = "deliver"
    /\ \E e \in todo[r] :
        /\ todo' = [todo EXCEPT ![r] = @ \ {e}]
        /\ IF Told(rule[r], e)
           THEN UNCHANGED <<mine, inbox>>
           ELSE \E o \in IF rule[r] \in Remote THEN Outcomes ELSE {<<"none", 0>>} :
                /\ mine' = [mine EXCEPT ![r] = @ \cup {Row(r, e, o[1])}]
                /\ inbox' = IF o[2] = 1 THEN inbox \cup {Message(r, e)} ELSE inbox
    /\ UNCHANGED <<worldVars, storeVars, undone, lock, runs, pc, readVars, left,
                   rule, staged, fired, skips>>

\* The rule is through.  It has fired if something was sent, which the in-app
\* channel always is.
EndRule(r) ==
    /\ pc[r] = "deliver" /\ todo[r] = {}
    /\ staged' = [staged EXCEPT ![r] = @ \cup mine[r]]
    /\ mine' = [mine EXCEPT ![r] = {}]
    /\ fired' = [fired EXCEPT ![r] = IF mine[r] # {} THEN @ \cup {rule[r]} ELSE @]
    /\ pc' = [pc EXCEPT ![r] = "rules"]
    /\ UNCHANGED <<worldVars, storeVars, sentVars, lock, runs, readVars, left,
                   rule, todo, skips>>

\* The messages of these rows that had already arrived.
Arrived(R) == {<<x.rule, x.event, x.run>> : x \in R} \cap inbox

\* Mutant: the rule that failed is marked as fired all the same.
FailRuleFired(r) ==
    /\ pc[r] = "deliver"
    /\ undone' = undone \cup Arrived(mine[r])
    /\ skips' = [skips EXCEPT ![r] = @ \cup Missed(rule[r], window[r])]
    /\ fired' = [fired EXCEPT ![r] = IF mine[r] # {} THEN @ \cup {rule[r]} ELSE @]
    /\ mine' = [mine EXCEPT ![r] = {}]
    /\ todo' = [todo EXCEPT ![r] = {}]
    /\ pc' = [pc EXCEPT ![r] = "rules"]
    /\ UNCHANGED <<worldVars, storeVars, inbox, lock, runs, readVars, left, rule,
                   staged>>

\* The rule raises: its savepoint is rolled back, what it sent stays sent, and
\* the next rules go on.
FailRule(r) ==
    /\ pc[r] = "deliver"
    /\ undone' = undone \cup Arrived(mine[r])
    /\ skips' = [skips EXCEPT ![r] = @ \cup Missed(rule[r], window[r])]
    /\ mine' = [mine EXCEPT ![r] = {}]
    /\ todo' = [todo EXCEPT ![r] = {}]
    /\ pc' = [pc EXCEPT ![r] = "rules"]
    /\ UNCHANGED <<worldVars, storeVars, inbox, lock, runs, readVars, left, rule,
                   staged, fired>>

(***************************************************************************)
(* The transaction ends, and the advisory lock with it.                    *)
(***************************************************************************)
Reset(r) ==
    /\ lock' = IF lock = r THEN None ELSE lock
    /\ pc' = [pc EXCEPT ![r] = "idle"]
    /\ at' = [at EXCEPT ![r] = 0]
    /\ number' = [number EXCEPT ![r] = 0]
    /\ loaded' = [loaded EXCEPT ![r] = FALSE]
    /\ seen' = [seen EXCEPT ![r] = FALSE]
    /\ based' = [based EXCEPT ![r] = 0]
    /\ derived' = [derived EXCEPT ![r] = {}]
    /\ window' = [window EXCEPT ![r] = {}]
    /\ left' = [left EXCEPT ![r] = {}]
    /\ rule' = [rule EXCEPT ![r] = NoRule]
    /\ todo' = [todo EXCEPT ![r] = {}]
    /\ mine' = [mine EXCEPT ![r] = {}]
    /\ staged' = [staged EXCEPT ![r] = {}]
    /\ fired' = [fired EXCEPT ![r] = {}]
    /\ skips' = [skips EXCEPT ![r] = {}]
    /\ UNCHANGED <<worldVars, inbox, runs>>

\* What the run leaves in the row: an attribute that does not change is not
\* written.  The states other than MET are several, and one may replace another.
Verdicts(r) == IF seen[r] # loaded[r] THEN {seen[r]}
               ELSE {condition} \cup (IF seen[r] THEN {} ELSE {FALSE})

Commit(r) ==
    /\ pc[r] = "rules" /\ left[r] = {}
    /\ condition' \in Verdicts(r)
    /\ undercut' = IF condition /\ ~condition' /\ r \notin Scheduled
                   THEN undercut \cup {<<rises, scorings>>} ELSE undercut
    /\ events' = events \cup derived[r]
    /\ rows' = rows \cup staged[r]
    /\ lastFired' = [u \in Rules |-> IF u \in fired[r] THEN at[r] ELSE lastFired[u]]
    /\ excused' = excused \cup skips[r]
    /\ UNCHANGED undone
    /\ Reset(r)

\* An error outside the isolated units, an unrecoverable one, or the death of
\* the process: everything stored is taken back, and nothing is retried.
Abort(r) ==
    /\ pc[r] # "idle"
    /\ undone' = undone \cup Arrived(mine[r] \cup staged[r])
    /\ UNCHANGED storeVars
    /\ Reset(r)

Step(r) == \/ Check(r) \/ Flush(r) \/ Load(r) \/ StartRule(r) \/ Deliver(r)
           \/ EndRule(r) \/ Commit(r)

World == Tick \/ Measure \/ Rescore

Next == \/ World
        \/ \E r \in Runs : Begin(r) \/ Step(r) \/ FailRule(r) \/ Abort(r)

Spec == Init /\ [][Next]_vars

-----------------------------------------------------------------------------
\* One alert sent is one alert recorded: a message of the same rule about the
\* same event reaches a user a second time only if the rows of the first were
\* rolled back, whatever runs overlap or look back over the same events.
NoDuplicateWithoutRollback ==
    \A x, y \in inbox \ undone : x[1] = y[1] /\ x[2] = y[2] => x = y

\* A rule is quiet for its cooldown: two runs that alerted on it are at least
\* that far apart, an administrator's unlocked run included.
CooldownRespected ==
    \A x, y \in rows :
        x.rule = y.rule /\ x.at < y.at => y.at >= x.at + CooldownHours

\* Only an alert that is on record silences a rule: a rule or a run that was
\* rolled back leaves no cooldown behind.
FiredMeansTold ==
    \A u \in Rules :
        lastFired[u] # None => \E x \in rows : x.rule = u /\ x.at = lastFired[u]

\* A stored condition turns to MET together with the event that says so: no
\* crash leaves a condition met that nobody will be told of.
MetIsAnnounced ==
    [][~condition /\ condition' => \E e \in events' \ events : e.kind = "met"]_vars

\* The scheduled runs announce a rise once per scoring, however many workers
\* check it, unless a run without the lock has written the verdict it reached
\* before the rise over theirs.
MetOnce ==
    \A d, e \in events :
        /\ d.kind = "met" /\ e.kind = "met"
        /\ d.locked /\ e.locked
        /\ d.fact = e.fact /\ d.scoring = e.scoring
        => d = e \/ <<d.fact, d.scoring>> \in undercut

\* Every stored event reached every rule that asks for its kind, unless a
\* committed run decided otherwise or failed on the rule.
NoSilentLoss ==
    \A e \in events, u \in Rules :
        e.kind \in Triggers[u] => Told(u, e) \/ <<u, e>> \in excused
=============================================================================
