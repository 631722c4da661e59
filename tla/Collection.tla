------------------------------ MODULE Collection ------------------------------
(***************************************************************************)
(* Collecting the sources: run_source and reap_stale_runs                  *)
(* (backend/app/services/ingestion.py) over Fetcher.get                    *)
(* (backend/app/sources/http.py), as the first phase of the nightly run    *)
(* (_run_all, run_nightly_pipeline), as the task ois.run_source (both in   *)
(* backend/app/workers/tasks.py) and as a request of an administrator      *)
(* (trigger_run, backend/app/api/v1/sources.py).  No lock guards it: what  *)
(* keeps overlapping runs apart is the unique indexes.                     *)
(*                                                                         *)
(* A source is a list of items, each read with PerItem requests (GitHub:   *)
(* a repository is its numbers and its commit activity).  A run of a       *)
(* source is one transaction.                                              *)
(***************************************************************************)
EXTENDS Naturals, FiniteSets

CONSTANTS
    Sources,      \* enabled sources
    Items,        \* items of a source
    PerItem,      \* requests an item takes
    Workers,      \* processes that collect
    FailureLimit, \* consecutive failures that put a source in error
    MaxRecords,   \* MAX_RECORDS_PER_RUN
    MaxRetries,   \* max_retries of ois.run_source
    Volatile,     \* the pages that change
    MaxVersions,  \* bound on how often they do
    MaxRuns,      \* bound on the runs started
    Nights,       \* bound on the nights
    MaxHands,     \* bound on the runs an administrator asks for
    MaxOrders     \* bound on the ois.run_source messages an operator sends

ASSUME CountsAssumption ==
    /\ {Items, PerItem, FailureLimit, MaxRecords, MaxVersions} \subseteq Nat \ {0}
    /\ {MaxRetries, MaxRuns, Nights, MaxHands, MaxOrders} \subseteq Nat
ASSUME SourcesAssumption == Sources # {}

Requests == 1..(Items * PerItem)
ItemOf(q) == (q - 1) \div PerItem
Pages == Sources \X Requests
ASSUME VolatileAssumption == Volatile \subseteq Pages
\* One record a page can yield: the request and what the page said.
Contents == Requests \X (1..MaxVersions)
AnySource == CHOOSE s \in Sources : TRUE

\* raw_records: what a page said, and the run that stored it.
Records == [source : Sources, content : Contents, run : 1..MaxRuns]
\* source_runs: night 0 is a run outside the nightly pipeline.
Status == {"running", "succeeded", "partial", "failed", "stale"}
SourceRuns == [run : 1..MaxRuns, source : Sources, status : Status,
               night : 0..Nights]
Standing == [failures : 0..MaxRuns, health : {"active", "error"}]
Orders == [id : 1..MaxOrders, source : Sources, retries : 0..MaxRetries]
\* On whose behalf a worker collects: the night's number or the order's id.
Jobs == [kind : {"none", "night", "hand", "task"}, id : Nat,
         retries : 0..MaxRetries]
NoJob == [kind |-> "none", id |-> 0, retries |-> 0]

VARIABLES
    published,  \* the version of each page
    raw,        \* committed raw_records, with their observations
    cached,     \* committed http_cache_entries: the version of the ETag, or 0
    standing,   \* sources.consecutive_failures and sources.status
    sourceRuns, \* committed source_runs
    runs,       \* runs started so far
    night,      \* nights so far
    monitored,  \* the nights that went on to monitoring
    hands,      \* runs an administrator asked for
    ordered,    \* messages an operator sent
    orders,     \* ois.run_source messages in the broker
    pc, job,    \* per worker: where it is, and for whom
    todo,       \* per worker: the sources still to collect
    read,       \* per worker: the standings as it loaded them
    src, run,   \* per worker: the source in hand and its run
    status,     \* per worker: the run's status
    out,        \* per worker: what was fetched and, once looked up, is new
    touched,    \* per worker: the pages whose ETag is to be kept
    adding      \* per worker: the cache entries its lookups did not find

storeVars == <<raw, cached, standing, sourceRuns>>
tallyVars == <<night, monitored, hands, ordered, orders>>
jobVars == <<job, todo, read>>
runVars == <<src, run, status, out, touched, adding>>
vars == <<published, raw, cached, standing, sourceRuns, runs, night, monitored,
          hands, ordered, orders, pc, job, todo, read, src, run, status, out,
          touched, adding>>

Places == {"idle", "next", "lookup", "insert", "commit"}
InRun(w) == pc[w] \in {"lookup", "insert", "commit"}
Healthy == [s \in Sources |-> [failures |-> 0, health |-> "active"]]

TypeOK ==
    /\ published \in [Pages -> 1..MaxVersions]
    /\ raw \subseteq Records
    /\ cached \in [Pages -> 0..MaxVersions]
    /\ standing \in [Sources -> Standing]
    /\ sourceRuns \subseteq SourceRuns
    /\ runs \in 0..MaxRuns
    /\ night \in 0..Nights
    /\ monitored \subseteq 1..Nights
    /\ hands \in 0..MaxHands
    /\ ordered \in 0..MaxOrders
    /\ orders \subseteq Orders
    /\ pc \in [Workers -> Places]
    /\ job \in [Workers -> Jobs]
    /\ todo \in [Workers -> SUBSET Sources]
    /\ read \in [Workers -> [Sources -> Standing]]
    /\ src \in [Workers -> Sources]
    /\ run \in [Workers -> 0..MaxRuns]
    /\ status \in [Workers -> Status]
    /\ out \in [Workers -> SUBSET Contents]
    /\ touched \in [Workers -> SUBSET Contents]
    /\ adding \in [Workers -> SUBSET Requests]
    /\ \A w \in Workers : InRun(w) => run[w] # 0

Init ==
    /\ published = [p \in Pages |-> 1]
    /\ raw = {} /\ sourceRuns = {}
    /\ cached = [p \in Pages |-> 0]
    /\ standing = Healthy
    /\ runs = 0 /\ night = 0 /\ hands = 0 /\ ordered = 0
    /\ monitored = {} /\ orders = {}
    /\ pc = [w \in Workers |-> "idle"]
    /\ job = [w \in Workers |-> NoJob]
    /\ todo = [w \in Workers |-> {}]
    /\ read = [w \in Workers |-> Healthy]
    /\ src = [w \in Workers |-> AnySource]
    /\ run = [w \in Workers |-> 0]
    /\ status = [w \in Workers |-> "running"]
    /\ out = [w \in Workers |-> {}]
    /\ touched = [w \in Workers |-> {}]
    /\ adding = [w \in Workers |-> {}]

\* The world: a page says something new.
Publish ==
    /\ \E p \in Volatile :
        /\ published[p] < MaxVersions
        /\ published' = [published EXCEPT ![p] = @ + 1]
    /\ UNCHANGED <<storeVars, runs, tallyVars, pc, jobVars, runVars>>

(***************************************************************************)
(* Taking work.  The source rows are loaded here, once.                    *)
(***************************************************************************)
Take(w, sources, j) ==
    /\ pc[w] = "idle"
    /\ pc' = [pc EXCEPT ![w] = "next"]
    /\ job' = [job EXCEPT ![w] = j]
    /\ todo' = [todo EXCEPT ![w] = sources]
    /\ read' = [read EXCEPT ![w] = standing]
    /\ UNCHANGED <<published, storeVars, runs, monitored, runVars>>

\* Beat fires: run_nightly_pipeline calls _run_all.
Night(w) ==
    /\ night < Nights
    /\ night' = night + 1
    /\ UNCHANGED <<hands, ordered, orders>>
    /\ Take(w, Sources, [kind |-> "night", id |-> night', retries |-> 0])

\* trigger_run: a process of the API, one source.
Hand(w) ==
    /\ hands < MaxHands
    /\ hands' = hands + 1
    /\ UNCHANGED <<night, ordered, orders>>
    /\ \E s \in Sources :
          Take(w, {s}, [kind |-> "hand", id |-> hands', retries |-> 0])

Order ==
    /\ ordered < MaxOrders
    /\ ordered' = ordered + 1
    /\ \E s \in Sources :
          orders' = orders \cup {[id |-> ordered', source |-> s, retries |-> 0]}
    /\ UNCHANGED <<published, storeVars, runs, night, monitored, hands, pc,
                   jobVars, runVars>>

\* acks_late: the broker keeps the message until the task has ended.
TakeOrder(w) ==
    \E m \in orders :
        /\ orders' = orders \ {m}
        /\ UNCHANGED <<night, hands, ordered>>
        /\ Take(w, {m.source},
                [kind |-> "task", id |-> m.id, retries |-> m.retries])

(***************************************************************************)
(* A run of a source: fetch.                                               *)
(***************************************************************************)
\* The requests that are made when the run is stopped at request stop, and
\* those in down fail: a failed request ends its item.
Made(stop, down) ==
    {q \in Requests : q < stop /\ \A d \in down : ItemOf(d) = ItemOf(q) => q <= d}

\* What a server answers in full: pages that are not as cached (otherwise 304).
Changed(s, Q) == {<<q, published[<<s, q>>]>> : q \in
                     {r \in Q : cached[<<s, r>>] # published[<<s, r>>]}}

\* An item is kept when all its requests were answered.
Kept(C, down) == {c \in C : \A d \in down : ItemOf(d) # ItemOf(c[1])}

\* MAX_RECORDS_PER_RUN keeps the first ones.
Truncated(C) == {c \in C : Cardinality({d \in C : d[1] < c[1]}) < MaxRecords}

\* Mutant: a status that source_runs does not know.
VerdictLimited(stop, limited, down, C) == IF limited THEN "limited" ELSE "succeeded"

\* A 429, the local limit or the request ceiling stop the fetch and keep
\* nothing (RateLimitedError); so does any other error that is not the
\* adapter's per item one.  A source none of whose items answered has failed.
Verdict(stop, limited, down, C) ==
    CASE stop \in Requests /\ limited  -> "partial"
      [] stop \in Requests /\ ~limited -> "failed"
      [] stop \notin Requests /\ down = {} ->
            IF C = Truncated(C) THEN "succeeded" ELSE "partial"
      [] stop \notin Requests /\ down # {} ->
            IF C = {} THEN "failed" ELSE "partial"

\* The run row is flushed, the ETags are read, and the adapter fetches.  What
\* was answered in full is touched, whatever becomes of the rest.
Collect(w) ==
    /\ pc[w] = "next" /\ runs < MaxRuns
    /\ \E s \in todo[w], stop \in Requests \cup {Items * PerItem + 1},
          limited \in BOOLEAN, down \in SUBSET Requests :
        /\ down \subseteq Made(stop, down)
        /\ LET answered == Changed(s, Made(stop, down) \ down)
               kept == IF stop \in Requests THEN {} ELSE Kept(answered, down)
           IN  /\ status' = [status EXCEPT ![w] =
                                Verdict(stop, limited, down, kept)]
               /\ out' = [out EXCEPT ![w] = Truncated(kept)]
               /\ touched' = [touched EXCEPT ![w] = answered]
        /\ src' = [src EXCEPT ![w] = s]
        /\ todo' = [todo EXCEPT ![w] = @ \ {s}]
    /\ runs' = runs + 1
    /\ run' = [run EXCEPT ![w] = runs']
    /\ pc' = [pc EXCEPT ![w] = "lookup"]
    /\ UNCHANGED <<published, storeVars, tallyVars, job, read, adding>>

(***************************************************************************)
(* Store.  A lookup does not see what other transactions have not          *)
(* committed; an insert waits for them.                                    *)
(***************************************************************************)
StoredContents(s) == {x.content : x \in {y \in raw : y.source = s}}

\* _store_raw's SELECT: content that is there is a duplicate.
Lookup(w) ==
    /\ pc[w] = "lookup"
    /\ out' = [out EXCEPT ![w] = @ \ StoredContents(src[w])]
    /\ pc' = [pc EXCEPT ![w] = "insert"]
    /\ UNCHANGED <<published, storeVars, runs, tallyVars, jobVars, src, run,
                   status, touched, adding>>

\* Mutant: raw_records without the unique index on source and content.
RejectedNever(w) == FALSE

\* The unique index refuses content another run has committed meanwhile.
Rejected(w) == out[w] \cap StoredContents(src[w]) # {}

\* Another run of the source has inserted the same content, uncommitted.
Blocked(w) == \E v \in Workers \ {w} : /\ pc[v] = "commit" /\ src[v] = src[w]
                                       /\ out[v] \cap out[w] # {}

\* Mutant: each record is committed as soon as it is inserted.
InsertCommits(w) ==
    /\ pc[w] = "insert"
    /\ ~Blocked(w) /\ ~Rejected(w)
    /\ raw' = raw \cup {[source |-> src[w], content |-> c, run |-> run[w]] :
                           c \in out[w]}
    /\ adding' = [adding EXCEPT ![w] =
                     {c[1] : c \in {d \in touched[w] : cached[<<src[w], d[1]>>] = 0}}]
    /\ pc' = [pc EXCEPT ![w] = "commit"]
    /\ UNCHANGED <<published, cached, standing, sourceRuns, runs, tallyVars,
                   jobVars, src, run, status, out, touched>>

\* _store_raw's INSERT, with signal and observation, and _save_conditional's
\* lookups.
Insert(w) ==
    /\ pc[w] = "insert"
    /\ ~Blocked(w) /\ ~Rejected(w)
    /\ adding' = [adding EXCEPT ![w] =
                     {c[1] : c \in {d \in touched[w] : cached[<<src[w], d[1]>>] = 0}}]
    /\ pc' = [pc EXCEPT ![w] = "commit"]
    /\ UNCHANGED <<published, storeVars, runs, tallyVars, jobVars, src, run,
                   status, out, touched>>

\* The unique index on http_cache_entries refuses an entry that another run
\* has added meanwhile.
Clashes(w) == \E q \in adding[w] : cached[<<src[w], q>>] # 0

\* Mutant: the limit is tested before the failure is counted.
AfterEager(st, loaded, good) ==
    IF good
    THEN [failures |-> IF loaded.failures = 0 THEN st.failures ELSE 0,
          health |-> IF loaded.health = "error" THEN "active" ELSE st.health]
    ELSE [failures |-> loaded.failures + 1,
          health |-> IF loaded.failures + 2 >= FailureLimit THEN "error"
                     ELSE st.health]

\* The standing of a source after a run, from the stored one and the one the
\* run had loaded: an attribute that does not change is not written.
After(st, loaded, good) ==
    IF good
    THEN [failures |-> IF loaded.failures = 0 THEN st.failures ELSE 0,
          health |-> IF loaded.health = "error" THEN "active" ELSE st.health]
    ELSE [failures |-> loaded.failures + 1,
          health |-> IF /\ loaded.failures + 1 >= FailureLimit
                        /\ loaded.health # "error"
                     THEN "error" ELSE st.health]

ClearRun(w) == /\ src' = [src EXCEPT ![w] = AnySource]
               /\ run' = [run EXCEPT ![w] = 0]
               /\ status' = [status EXCEPT ![w] = "running"]
               /\ out' = [out EXCEPT ![w] = {}]
               /\ touched' = [touched EXCEPT ![w] = {}]
               /\ adding' = [adding EXCEPT ![w] = {}]

RunRow(w) == [run |-> run[w], source |-> src[w], status |-> status[w],
              night |-> IF job[w].kind = "night" THEN job[w].id ELSE 0]

\* The cache entries, the source and the run are flushed and committed, the
\* records with them.
Commit(w) ==
    /\ pc[w] = "commit" /\ ~Clashes(w)
    /\ raw' = raw \cup {[source |-> src[w], content |-> c, run |-> run[w]] :
                           c \in out[w]}
    /\ cached' = [p \in Pages |->
                    IF p[1] = src[w] /\ \E c \in touched[w] : c[1] = p[2]
                    THEN (CHOOSE c \in touched[w] : c[1] = p[2])[2]
                    ELSE cached[p]]
    /\ standing' = [standing EXCEPT ![src[w]] =
                       After(@, read[w][src[w]], status[w] # "failed")]
    /\ sourceRuns' = sourceRuns \cup {RunRow(w)}
    /\ pc' = [pc EXCEPT ![w] = "next"]
    /\ ClearRun(w)
    /\ UNCHANGED <<published, runs, tallyVars, jobVars>>

(***************************************************************************)
(* The end of the work.                                                    *)
(***************************************************************************)
Leave(w) == /\ pc' = [pc EXCEPT ![w] = "idle"]
            /\ job' = [job EXCEPT ![w] = NoJob]
            /\ todo' = [todo EXCEPT ![w] = {}]
            /\ read' = [read EXCEPT ![w] = Healthy]
            /\ UNCHANGED <<published, runs, night, hands, ordered>>

\* A night goes on to monitoring once _run_all has returned.
Finish(w) ==
    /\ pc[w] = "next" /\ todo[w] = {}
    /\ monitored' = IF job[w].kind = "night" THEN monitored \cup {job[w].id}
                    ELSE monitored
    /\ Leave(w)
    /\ UNCHANGED <<storeVars, orders, runVars>>

Message(w, retries) ==
    {[id |-> job[w].id, source |-> src[w], retries |-> retries]}

Exhausted(w) == job[w].retries >= MaxRetries

\* Mutant: the exception is taken for the source's own and the loop goes on.
BreakSwallowed(w) ==
    /\ \/ pc[w] = "insert" /\ ~Blocked(w) /\ Rejected(w)
       \/ pc[w] = "commit" /\ Clashes(w)
    /\ pc' = [pc EXCEPT ![w] = "next"]
    /\ ClearRun(w)
    /\ UNCHANGED <<published, storeVars, runs, tallyVars, jobVars>>

\* A flush is refused: the transaction is lost and the session unusable until
\* somebody rolls it back, which nobody does.  The task is retried, the request
\* answers 500, and the night ends here, in _run_all's next commit.  Any other
\* exception while records are stored would leave the session usable and the run
\* "running"; no item an adapter builds raises one.
Break(w) ==
    /\ \/ pc[w] = "insert" /\ ~Blocked(w) /\ Rejected(w)
       \/ pc[w] = "commit" /\ Clashes(w)
    /\ orders' = IF job[w].kind = "task" /\ ~Exhausted(w)
                 THEN orders \cup Message(w, job[w].retries + 1) ELSE orders
    /\ Leave(w) /\ ClearRun(w)
    /\ UNCHANGED <<storeVars, monitored>>

\* The process dies in a run: its transaction is rolled back.  The broker
\* redelivers a task that was not acknowledged; the pipeline is acknowledged
\* early and the request is gone.
Killed(w) ==
    /\ InRun(w)
    /\ orders' = IF job[w].kind = "task"
                 THEN orders \cup Message(w, job[w].retries) ELSE orders
    /\ Leave(w) /\ ClearRun(w)
    /\ UNCHANGED <<storeVars, monitored>>

\* reap_stale_runs: what is still "running" is stale.  It can be called at any
\* time: how old a run is does not matter here.
Reap ==
    /\ sourceRuns' = {IF x.status = "running" THEN [x EXCEPT !.status = "stale"]
                      ELSE x : x \in sourceRuns}
    /\ UNCHANGED <<published, raw, cached, standing, runs, tallyVars, pc,
                   jobVars, runVars>>

Start(w) == Night(w) \/ Hand(w) \/ TakeOrder(w)
Step(w) == Collect(w) \/ Lookup(w) \/ Insert(w) \/ Commit(w) \/ Finish(w)
Fail(w) == Break(w) \/ Killed(w)

Next == \/ Publish \/ Order \/ Reap
        \/ \E w \in Workers : Start(w) \/ Step(w) \/ Fail(w)

Spec == Init /\ [][Next]_vars

-----------------------------------------------------------------------------
\* The same content of a source is stored once, whatever runs overlap: the
\* lookup is not enough and the unique index decides.
StoredOnce ==
    \A x, y \in raw : x.source = y.source /\ x.content = y.content => x = y

\* No record without its run: what is stored was stored by a run on record that
\* did not fail.  A run that is refused or killed half way leaves nothing.
RecordsHaveRuns ==
    \A x \in raw : \E r \in sourceRuns :
        r.run = x.run /\ r.source = x.source /\ r.status \in {"succeeded", "partial"}

\* Monitoring starts only after every enabled source has been collected: each
\* has a run of that night on record, though it may have failed.
NightComplete ==
    \A n \in monitored, s \in Sources :
        \E r \in sourceRuns : r.night = n /\ r.source = s

\* A source is only put in error by as many failed runs, all of them on record.
ErrorDeserved ==
    \A s \in Sources :
        standing[s].health = "error" =>
            Cardinality({r \in sourceRuns : r.source = s /\ r.status = "failed"})
                >= FailureLimit

-----------------------------------------------------------------------------
\* Claimed by _run_all ("A failing source must not stop the others"): a refused
\* flush does not end a night that still has sources to collect.
SourcesIsolated ==
    [][\A w \in Workers :
          Break(w) => job[w].kind # "night" \/ todo[w] = {}]_vars
=============================================================================
