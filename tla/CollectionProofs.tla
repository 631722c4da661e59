--------------------------- MODULE CollectionProofs ---------------------------
(***************************************************************************)
(* Proofs about Collection, for every number of sources, items, requests,  *)
(* workers, versions, runs, nights and orders.                             *)
(***************************************************************************)
EXTENDS Collection, FiniteSetTheorems, TLAPS

\* What a worker says of the work it has in hand.
JobInv ==
    \A w \in Workers :
        /\ job[w].kind = "night" => job[w].id \in 1..Nights
        /\ job[w].kind = "task"  => job[w].id \in 1..MaxOrders

\* Nobody counts more failures than runs were started, and a run in hand is not
\* among those its worker has counted.
CeilingInv ==
    /\ \A s \in Sources : standing[s].failures <= runs
    /\ \A w \in Workers, s \in Sources :
          /\ read[w][s].failures <= runs
          /\ InRun(w) => read[w][s].failures < runs

\* What is about to be committed is nowhere yet: not in the table, and in no
\* other transaction that has got as far.
UniqueInv ==
    \A w \in Workers :
        pc[w] = "commit" =>
            /\ out[w] \cap StoredContents(src[w]) = {}
            /\ \A v \in Workers \ {w} : pc[v] = "commit" /\ src[v] = src[w] =>
                                            out[v] \cap out[w] = {}

\* A run that has something to store has not failed.
KeepingInv ==
    \A w \in Workers :
        InRun(w) /\ out[w] # {} => status[w] \in {"succeeded", "partial"}

\* A night has a run on record for every source it has left behind.
ProgressInv ==
    \A w \in Workers :
        pc[w] # "idle" /\ job[w].kind = "night" =>
            \A s \in Sources : \/ s \in todo[w]
                               \/ InRun(w) /\ src[w] = s
                               \/ \E r \in sourceRuns : r.night = job[w].id /\ r.source = s

\* A run's number is its own.
NumberInv ==
    /\ \A r \in sourceRuns : r.run <= runs
    /\ \A w \in Workers :
          InRun(w) =>
             /\ run[w] <= runs
             /\ \A r \in sourceRuns : r.run # run[w]
             /\ \A v \in Workers \ {w} : InRun(v) => run[v] # run[w]

\* A failure that is counted, in the table or in a worker's copy of it, is a
\* failed run on record.
Failed(s) == {r \in sourceRuns : r.source = s /\ r.status = "failed"}
CountInv ==
    \A s \in Sources :
        /\ IsFiniteSet(Failed(s))
        /\ standing[s].failures <= Cardinality(Failed(s))
        /\ \A w \in Workers : read[w][s].failures <= Cardinality(Failed(s))

-----------------------------------------------------------------------------
(***************************************************************************)
(* Types.                                                                  *)
(***************************************************************************)
LEMMA Counts == /\ {Items, PerItem, FailureLimit, MaxRecords, MaxVersions} \subseteq Nat \ {0}
                /\ MaxRetries \in Nat /\ MaxRuns \in Nat /\ Nights \in Nat
                /\ MaxHands \in Nat /\ MaxOrders \in Nat
  BY CountsAssumption

LEMMA Standings ==
  /\ AnySource \in Sources
  /\ Healthy \in [Sources -> Standing]
  /\ NoJob \in Jobs
  <1>1. AnySource \in Sources
    BY SourcesAssumption DEF AnySource
  <1>2. [failures |-> 0, health |-> "active"] \in Standing
    BY Counts DEF Standing
  <1>3. NoJob \in Jobs
    BY Counts DEF NoJob, Jobs
  <1> QED
    BY <1>1, <1>2, <1>3 DEF Healthy

\* A page that is asked for has a version, and what it says is a content.
LEMMA ChangedType ==
  ASSUME TypeOK, NEW s \in Sources, NEW Q \in SUBSET Requests
  PROVE  Changed(s, Q) \subseteq Contents
  <1>1. \A q \in Requests : published[<<s, q>>] \in 1..MaxVersions
    BY DEF TypeOK, Pages
  <1> SUFFICES ASSUME NEW c \in Changed(s, Q) PROVE c \in Contents
    OBVIOUS
  <1>2. PICK q \in Q : c = <<q, published[<<s, q>>]>>
    BY DEF Changed
  <1> QED
    BY <1>1, <1>2 DEF Contents

LEMMA VerdictType ==
  ASSUME NEW stop, NEW limited \in BOOLEAN, NEW down, NEW C
  PROVE  Verdict(stop, limited, down, C) \in {"succeeded", "partial", "failed"}
  BY DEF Verdict

\* Whoever puts a run down leaves an empty one.
LEMMA ClearRunType ==
  ASSUME TypeOK, NEW w \in Workers, ClearRun(w)
  PROVE  /\ src' \in [Workers -> Sources]
         /\ run' \in [Workers -> 0..MaxRuns]
         /\ status' \in [Workers -> Status]
         /\ out' \in [Workers -> SUBSET Contents]
         /\ touched' \in [Workers -> SUBSET Contents]
         /\ adding' \in [Workers -> SUBSET Requests]
         /\ \A v \in Workers \ {w} : run'[v] = run[v]
  BY Standings, Counts DEF TypeOK, ClearRun, Status

LEMMA LeaveType ==
  ASSUME TypeOK, NEW w \in Workers, Leave(w)
  PROVE  /\ pc' \in [Workers -> Places]
         /\ job' \in [Workers -> Jobs]
         /\ todo' \in [Workers -> SUBSET Sources]
         /\ read' \in [Workers -> [Sources -> Standing]]
         /\ \A v \in Workers : pc'[v] = IF v = w THEN "idle" ELSE pc[v]
  BY Standings DEF TypeOK, Leave, Places

LEMMA TypeInit == Init => TypeOK
  <1>1. Init => published \in [Pages -> 1..MaxVersions] /\ cached \in [Pages -> 0..MaxVersions]
    BY Counts DEF Init
  <1> QED
    BY <1>1, Counts, Standings DEF Init, TypeOK, Places, Status, InRun

LEMMA TypeTake ==
  ASSUME TypeOK, JobInv, NEW w \in Workers, NEW sources \in SUBSET Sources,
         NEW j \in Jobs, Take(w, sources, j),
         j.kind = "night" => j.id \in 1..Nights,
         j.kind = "task" => j.id \in 1..MaxOrders,
         night' \in 0..Nights, hands' \in 0..MaxHands, ordered' \in 0..MaxOrders,
         orders' \subseteq Orders
  PROVE  TypeOK' /\ JobInv'
  <1>1. \A v \in Workers : job'[v] = IF v = w THEN j ELSE job[v]
    BY DEF TypeOK, Take
  <1>2. JobInv'
    BY <1>1 DEF JobInv
  <1>3. job' \in [Workers -> Jobs] /\ todo' \in [Workers -> SUBSET Sources]
    BY DEF TypeOK, Take
  <1>4. pc' \in [Workers -> Places] /\ read' \in [Workers -> [Sources -> Standing]]
    BY DEF TypeOK, Take, Places
  <1>5. \A v \in Workers : InRun(v)' => run'[v] # 0
    BY DEF TypeOK, Take, InRun, runVars
  <1> QED
    BY <1>2, <1>3, <1>4, <1>5 DEF TypeOK, Take, storeVars, runVars

\* The start of a night, of a request or of a task.
LEMMA TypeStart ==
  ASSUME TypeOK, JobInv, NEW w \in Workers, Start(w)
  PROVE  TypeOK' /\ JobInv'
  <1> USE DEF TypeOK
  <1>1. CASE Night(w)
    <2>1. night' \in 1..Nights /\ night' \in 0..Nights
      BY <1>1, Counts DEF Night
    <2>2. [kind |-> "night", id |-> night', retries |-> 0] \in Jobs
      BY <2>1, Counts DEF Jobs
    <2> QED
      BY <1>1, <2>1, <2>2, TypeTake DEF Night
  <1>2. CASE Hand(w)
    <2>1. hands' \in 0..MaxHands
      BY <1>2, Counts DEF Hand
    <2>2. [kind |-> "hand", id |-> hands', retries |-> 0] \in Jobs
      BY <2>1, Counts DEF Jobs
    <2>3. PICK s \in Sources : Take(w, {s}, [kind |-> "hand", id |-> hands', retries |-> 0])
      BY <1>2 DEF Hand
    <2> QED
      BY <1>2, <2>1, <2>2, <2>3, TypeTake DEF Hand
  <1>3. CASE TakeOrder(w)
    <2>1. PICK m \in orders :
             /\ orders' = orders \ {m}
             /\ UNCHANGED <<night, hands, ordered>>
             /\ Take(w, {m.source}, [kind |-> "task", id |-> m.id, retries |-> m.retries])
      BY <1>3 DEF TakeOrder
    <2>2. m.source \in Sources /\ m.id \in 1..MaxOrders /\ m.retries \in 0..MaxRetries
      BY DEF Orders
    <2>3. [kind |-> "task", id |-> m.id, retries |-> m.retries] \in Jobs
      BY <2>2, Counts DEF Jobs
    <2> QED
      BY <2>1, <2>2, <2>3, TypeTake
  <1> QED
    BY <1>1, <1>2, <1>3 DEF Start

LEMMA TypeCollect ==
  ASSUME TypeOK, NEW w \in Workers, Collect(w)
  PROVE  TypeOK'
  <1> USE DEF TypeOK, storeVars, tallyVars
  <1>1. PICK s \in todo[w], stop \in Requests \cup {Items * PerItem + 1},
             limited \in BOOLEAN, down \in SUBSET Requests :
          /\ down \subseteq Made(stop, down)
          /\ LET answered == Changed(s, Made(stop, down) \ down)
                 kept == IF stop \in Requests THEN {} ELSE Kept(answered, down)
             IN  /\ status' = [status EXCEPT ![w] = Verdict(stop, limited, down, kept)]
                 /\ out' = [out EXCEPT ![w] = Truncated(kept)]
                 /\ touched' = [touched EXCEPT ![w] = answered]
          /\ src' = [src EXCEPT ![w] = s]
          /\ todo' = [todo EXCEPT ![w] = @ \ {s}]
    BY DEF Collect
  <1> DEFINE answered == Changed(s, Made(stop, down) \ down)
             kept == IF stop \in Requests THEN {} ELSE Kept(answered, down)
  <1>2. s \in Sources
    OBVIOUS
  <1>3. Made(stop, down) \ down \in SUBSET Requests
    BY DEF Made
  <1>4. answered \subseteq Contents
    BY <1>2, <1>3, ChangedType
  <1>5. Truncated(kept) \subseteq Contents
    BY <1>4 DEF Truncated, Kept
  <1>6. Verdict(stop, limited, down, kept) \in Status
    BY VerdictType DEF Status
  <1>7. runs' \in 0..MaxRuns /\ runs' # 0
    BY Counts DEF Collect
  <1>8. run' \in [Workers -> 0..MaxRuns] /\ pc' \in [Workers -> Places]
    BY <1>7 DEF Collect, Places
  <1>9. \A v \in Workers : InRun(v)' => run'[v] # 0
    BY <1>7 DEF Collect, InRun
  <1>10. /\ src' \in [Workers -> Sources] /\ todo' \in [Workers -> SUBSET Sources]
         /\ status' \in [Workers -> Status] /\ out' \in [Workers -> SUBSET Contents]
         /\ touched' \in [Workers -> SUBSET Contents]
    BY <1>1, <1>2, <1>4, <1>5, <1>6
  <1> QED
    BY <1>7, <1>8, <1>9, <1>10 DEF Collect

LEMMA TypeStore ==
  ASSUME TypeOK, NEW w \in Workers, Lookup(w) \/ Insert(w)
  PROVE  TypeOK'
  <1> USE DEF TypeOK, storeVars, tallyVars, jobVars
  <1>1. CASE Lookup(w)
    BY <1>1 DEF Lookup, Places, InRun
  <1>2. CASE Insert(w)
    <2>1. \A c \in touched[w] : c[1] \in Requests
      BY DEF Contents
    <2>2. {c[1] : c \in {d \in touched[w] : cached[<<src[w], d[1]>>] = 0}} \subseteq Requests
      BY <2>1
    <2> QED
      BY <1>2, <2>2 DEF Insert, Places, InRun
  <1> QED
    BY <1>1, <1>2

LEMMA RunRowType ==
  ASSUME TypeOK, JobInv, NEW w \in Workers, InRun(w)
  PROVE  RunRow(w) \in SourceRuns
  <1>1. run[w] \in 1..MaxRuns
    BY Counts DEF TypeOK
  <1>2. (IF job[w].kind = "night" THEN job[w].id ELSE 0) \in 0..Nights
    BY Counts DEF JobInv
  <1> QED
    BY <1>1, <1>2 DEF RunRow, SourceRuns, TypeOK

LEMMA AfterType ==
  ASSUME NEW st \in Standing, NEW loaded \in Standing, NEW good \in BOOLEAN
  PROVE  /\ After(st, loaded, good).failures \in Nat
         /\ After(st, loaded, good).health \in {"active", "error"}
         /\ After(st, loaded, good) =
               [failures |-> After(st, loaded, good).failures,
                health |-> After(st, loaded, good).health]
         /\ After(st, loaded, good).failures \in {0, st.failures, loaded.failures + 1}
  BY Counts DEF After, Standing

LEMMA TypeCommit ==
  ASSUME TypeOK, JobInv, CeilingInv, NEW w \in Workers, Commit(w)
  PROVE  TypeOK'
  <1> USE DEF TypeOK
  <1>1. InRun(w) /\ src[w] \in Sources /\ run[w] \in 1..MaxRuns
    BY Counts DEF Commit, InRun
  <1>2. raw' \subseteq Records
    <2>1. \A c \in out[w] : [source |-> src[w], content |-> c, run |-> run[w]] \in Records
      BY <1>1 DEF Records
    <2> QED
      BY <2>1 DEF Commit
  <1>3. cached' \in [Pages -> 0..MaxVersions]
    <2>1. \A p \in Pages : (\E c \in touched[w] : c[1] = p[2]) =>
             (CHOOSE c \in touched[w] : c[1] = p[2])[2] \in 0..MaxVersions
      <3>1. \A c \in touched[w] : c[2] \in 0..MaxVersions
        BY Counts DEF Contents
      <3> QED
        BY <3>1
    <2> QED
      BY <2>1 DEF Commit
  <1>4. standing' \in [Sources -> Standing]
    <2> DEFINE s == src[w]
               good == status[w] # "failed"
               new == After(standing[s], read[w][s], good)
    <2>1. standing[s] \in Standing /\ read[w][s] \in Standing /\ good \in BOOLEAN
      BY <1>1
    <2>2. /\ new.failures \in {0, standing[s].failures, read[w][s].failures + 1}
          /\ new.health \in {"active", "error"}
          /\ new = [failures |-> new.failures, health |-> new.health]
      BY <2>1, AfterType
    <2>3. read[w][s].failures + 1 \in 0..MaxRuns
      BY <1>1, <2>1, Counts DEF CeilingInv, Standing
    <2>4. new.failures \in 0..MaxRuns
      BY <2>1, <2>2, <2>3, Counts DEF Standing
    <2>5. new \in Standing
      BY <2>2, <2>4 DEF Standing
    <2>6. standing' = [standing EXCEPT ![s] = new]
      BY DEF Commit
    <2> QED
      BY <2>5, <2>6
  <1>5. sourceRuns' \subseteq SourceRuns
    BY <1>1, RunRowType DEF Commit
  <1>6. pc' \in [Workers -> Places]
    BY DEF Commit, Places
  <1>7. \A v \in Workers : InRun(v)' => run'[v] # 0
    BY ClearRunType DEF Commit, InRun
  <1> QED
    BY <1>2, <1>3, <1>4, <1>5, <1>6, <1>7, ClearRunType DEF Commit, tallyVars, jobVars

LEMMA MessageType ==
  ASSUME TypeOK, JobInv, NEW w \in Workers, job[w].kind = "task",
         NEW retries \in 0..MaxRetries
  PROVE  Message(w, retries) \subseteq Orders
  BY DEF TypeOK, JobInv, Message, Orders

LEMMA TypeEnd ==
  ASSUME TypeOK, JobInv, NEW w \in Workers, Finish(w) \/ Fail(w)
  PROVE  TypeOK'
  <1>1. orders' \subseteq Orders
    <2>1. CASE Finish(w)
      BY <2>1 DEF TypeOK, Finish
    <2>2. CASE Break(w) /\ job[w].kind = "task" /\ ~Exhausted(w)
      <3>1. job[w].retries + 1 \in 0..MaxRetries
        BY <2>2, Counts DEF TypeOK, Jobs, Exhausted
      <3> QED
        BY <2>2, <3>1, MessageType DEF TypeOK, Break
    <2>3. CASE Killed(w) /\ job[w].kind = "task"
      <3>1. job[w].retries \in 0..MaxRetries
        BY DEF TypeOK, Jobs
      <3> QED
        BY <2>3, <3>1, MessageType DEF TypeOK, Killed
    <2>4. CASE ~Finish(w) /\ ~(Break(w) /\ job[w].kind = "task" /\ ~Exhausted(w))
               /\ ~(Killed(w) /\ job[w].kind = "task")
      BY <2>4 DEF TypeOK, Fail, Break, Killed
    <2> QED
      BY <2>1, <2>2, <2>3, <2>4
  <1>2. Leave(w)
    BY DEF Finish, Fail, Break, Killed
  <1>3. CASE Finish(w)
    <2>1. monitored' \subseteq 1..Nights
      BY <1>3 DEF TypeOK, JobInv, Finish
    <2>2. \A v \in Workers : InRun(v)' => run'[v] # 0
      BY <1>2, <1>3, LeaveType DEF TypeOK, Finish, InRun, runVars
    <2> QED
      BY <1>1, <1>2, <1>3, <2>1, <2>2, LeaveType DEF TypeOK, Finish, Leave, storeVars, runVars
  <1>4. CASE Fail(w)
    <2>1. ClearRun(w) /\ UNCHANGED <<storeVars, monitored>>
      BY <1>4 DEF Fail, Break, Killed
    <2>2. \A v \in Workers : InRun(v)' => run'[v] # 0
      BY <1>2, <2>1, LeaveType, ClearRunType DEF TypeOK, InRun
    <2> QED
      BY <1>1, <1>2, <2>1, <2>2, LeaveType, ClearRunType DEF TypeOK, Leave, storeVars
  <1> QED
    BY <1>3, <1>4

LEMMA TypeWorld ==
  ASSUME TypeOK, Publish \/ Order \/ Reap
  PROVE  TypeOK'
  <1> USE DEF TypeOK, storeVars, tallyVars, jobVars, runVars, InRun
  <1>1. CASE Publish
    <2>1. published' \in [Pages -> 1..MaxVersions]
      BY <1>1, Counts, VolatileAssumption DEF Publish
    <2> QED
      BY <1>1, <2>1 DEF Publish
  <1>2. CASE Order
    <2>1. ordered' \in 1..MaxOrders /\ ordered' \in 0..MaxOrders
      BY <1>2, Counts DEF Order
    <2>2. orders' \subseteq Orders
      BY <1>2, <2>1, Counts DEF Order, Orders
    <2> QED
      BY <1>2, <2>1, <2>2 DEF Order
  <1>3. CASE Reap
    <2>1. \A x \in SourceRuns : [x EXCEPT !.status = "stale"] \in SourceRuns
      BY DEF SourceRuns, Status
    <2>2. sourceRuns' \subseteq SourceRuns
      BY <1>3, <2>1 DEF Reap
    <2> QED
      BY <1>3, <2>2 DEF Reap
  <1> QED
    BY <1>1, <1>2, <1>3

LEMMA JobEnd ==
  ASSUME TypeOK, JobInv, NEW w \in Workers, Leave(w)
  PROVE  JobInv'
  BY DEF TypeOK, JobInv, Leave, NoJob

\* Where a start, an end and a step of a run leave the counts.
LEMMA CeilingStart ==
  ASSUME TypeOK, CeilingInv, NEW w \in Workers, Start(w)
  PROVE  CeilingInv'
  <1>1. /\ pc' = [pc EXCEPT ![w] = "next"] /\ read' = [read EXCEPT ![w] = standing]
        /\ UNCHANGED <<standing, runs>>
    BY DEF Start, Night, Hand, TakeOrder, Take, storeVars
  <1> QED
    BY <1>1 DEF TypeOK, CeilingInv, InRun

LEMMA CeilingCollect ==
  ASSUME TypeOK, CeilingInv, NEW w \in Workers, Collect(w)
  PROVE  CeilingInv'
  <1>1. UNCHANGED <<standing, read>> /\ runs' = runs + 1 /\ runs \in Nat
    BY Counts DEF TypeOK, Collect, storeVars
  <1>2. \A s \in Sources : standing[s].failures \in Nat
    BY Counts DEF TypeOK, Standing
  <1>3. \A v \in Workers, s \in Sources : read[v][s].failures \in Nat
    BY Counts DEF TypeOK, Standing
  <1> QED
    BY <1>1, <1>2, <1>3 DEF CeilingInv

LEMMA CeilingCommit ==
  ASSUME TypeOK, CeilingInv, NEW w \in Workers, Commit(w)
  PROVE  CeilingInv'
  <1> DEFINE s == src[w]
             good == status[w] # "failed"
             new == After(standing[s], read[w][s], good)
  <1>1. s \in Sources /\ standing[s] \in Standing /\ read[w][s] \in Standing /\ good \in BOOLEAN
    BY DEF TypeOK
  <1>2. new.failures \in {0, standing[s].failures, read[w][s].failures + 1}
    BY <1>1, AfterType
  <1>3. InRun(w)
    BY DEF Commit, InRun
  <1>4. new.failures <= runs
    BY <1>1, <1>2, <1>3, Counts DEF TypeOK, CeilingInv, Standing
  <1>5. standing' = [standing EXCEPT ![s] = new]
    BY DEF Commit
  <1>6. UNCHANGED <<runs, read>> /\ pc' = [pc EXCEPT ![w] = "next"]
    BY DEF Commit, jobVars
  <1> QED
    BY <1>1, <1>4, <1>5, <1>6 DEF TypeOK, CeilingInv, InRun

LEMMA CeilingEnd ==
  ASSUME TypeOK, CeilingInv, NEW w \in Workers, Leave(w), UNCHANGED storeVars
  PROVE  CeilingInv'
  <1>1. read' = [read EXCEPT ![w] = Healthy] /\ pc' = [pc EXCEPT ![w] = "idle"]
        /\ UNCHANGED <<standing, runs>>
    BY DEF Leave, storeVars
  <1>2. \A s \in Sources : Healthy[s].failures = 0
    BY DEF Healthy
  <1>3. runs \in Nat
    BY Counts DEF TypeOK
  <1> QED
    BY <1>1, <1>2, <1>3 DEF TypeOK, CeilingInv, InRun

\* The type invariant as it is inductive.
TypeInv == TypeOK /\ JobInv /\ CeilingInv

\* What a step of the loop and an end of the work have in common.
LEMMA EndParts ==
  ASSUME NEW w \in Workers, Finish(w) \/ Fail(w)
  PROVE  Leave(w) /\ UNCHANGED storeVars
  BY DEF Finish, Fail, Break, Killed

LEMMA TypeStep == TypeInv /\ [Next]_vars => TypeInv'
  <1> SUFFICES ASSUME TypeOK, JobInv, CeilingInv, [Next]_vars
               PROVE  TypeOK' /\ JobInv' /\ CeilingInv'
    BY DEF TypeInv
  <1>1. CASE UNCHANGED vars
    BY <1>1 DEF vars, TypeOK, JobInv, CeilingInv, InRun
  <1>2. CASE Publish \/ Order \/ Reap
    <2>1. UNCHANGED <<standing, runs, read, pc, job>>
      BY <1>2 DEF Publish, Order, Reap, storeVars, jobVars
    <2> QED
      BY <1>2, <2>1, TypeWorld DEF JobInv, CeilingInv, InRun
  <1>3. ASSUME NEW w \in Workers, Start(w) PROVE TypeOK' /\ JobInv' /\ CeilingInv'
    BY <1>3, TypeStart, CeilingStart
  <1>4. ASSUME NEW w \in Workers, Collect(w) PROVE TypeOK' /\ JobInv' /\ CeilingInv'
    <2>1. UNCHANGED job
      BY <1>4 DEF Collect
    <2> QED
      BY <1>4, <2>1, TypeCollect, CeilingCollect DEF JobInv
  <1>5. ASSUME NEW w \in Workers, Lookup(w) \/ Insert(w) PROVE TypeOK' /\ JobInv' /\ CeilingInv'
    <2>1. UNCHANGED <<standing, runs, read, job>>
      BY <1>5 DEF Lookup, Insert, storeVars, jobVars
    <2>2. \A v \in Workers : InRun(v)' = InRun(v)
      BY <1>5 DEF TypeOK, Lookup, Insert, InRun
    <2> QED
      BY <1>5, <2>1, <2>2, TypeStore DEF JobInv, CeilingInv
  <1>6. ASSUME NEW w \in Workers, Commit(w) PROVE TypeOK' /\ JobInv' /\ CeilingInv'
    <2>1. UNCHANGED job
      BY <1>6 DEF Commit, jobVars
    <2> QED
      BY <1>6, <2>1, TypeCommit, CeilingCommit DEF JobInv
  <1>7. ASSUME NEW w \in Workers, Finish(w) \/ Fail(w) PROVE TypeOK' /\ JobInv' /\ CeilingInv'
    BY <1>7, TypeEnd, EndParts, JobEnd, CeilingEnd
  <1> QED
    BY <1>1, <1>2, <1>3, <1>4, <1>5, <1>6, <1>7 DEF Next, Step

LEMMA TypeInvInit == Init => TypeInv
  BY TypeInit, Counts DEF Init, TypeInv, JobInv, CeilingInv, NoJob, Healthy, InRun

\* Every variable of the collection keeps its type: no failure is counted past
\* the runs there were, and a worker in a run has one.
THEOREM CollectionTypes == Spec => []TypeOK
  <1>1. TypeInv => TypeOK
    BY DEF TypeInv
  <1> QED
    BY <1>1, TypeInvInit, TypeStep, PTL DEF Spec

LEMMA TypesHold == Spec => []TypeInv
  BY TypeInvInit, TypeStep, PTL DEF Spec

-----------------------------------------------------------------------------
(***************************************************************************)
(* Content is stored once.                                                 *)
(***************************************************************************)
\* A step that stores nothing and lets nobody get to its commit.
UniqueFrame ==
    /\ UNCHANGED raw
    /\ \A v \in Workers : pc'[v] = "commit" =>
          pc[v] = "commit" /\ out'[v] = out[v] /\ src'[v] = src[v]

LEMMA UniqueKept == ASSUME UniqueInv, UniqueFrame PROVE UniqueInv'
  <1>1. \A s : StoredContents(s)' = StoredContents(s)
    BY DEF UniqueFrame, StoredContents
  <1> QED
    BY <1>1 DEF UniqueInv, UniqueFrame

LEMMA UniqueInsert ==
  ASSUME TypeOK, UniqueInv, NEW w \in Workers, Insert(w)
  PROVE  UniqueInv'
  <1>1. /\ pc' = [pc EXCEPT ![w] = "commit"]
        /\ UNCHANGED <<raw, out, src>>
        /\ ~Blocked(w) /\ ~Rejected(w)
    BY DEF Insert, storeVars
  <1>2. \A s : StoredContents(s)' = StoredContents(s)
    BY <1>1 DEF StoredContents
  <1>3. \A v \in Workers : pc'[v] = IF v = w THEN "commit" ELSE pc[v]
    BY <1>1 DEF TypeOK
  <1>4. out[w] \cap StoredContents(src[w]) = {}
    BY <1>1 DEF Rejected
  <1>5. \A v \in Workers \ {w} : pc[v] = "commit" /\ src[v] = src[w] => out[v] \cap out[w] = {}
    BY <1>1 DEF Blocked
  <1> QED
    BY <1>1, <1>2, <1>3, <1>4, <1>5 DEF UniqueInv

\* What is stored of a source after a commit.
LEMMA CommitStores ==
  ASSUME TypeOK, NEW w \in Workers, Commit(w)
  PROVE  /\ \A x \in raw' : \/ x \in raw
                            \/ x.source = src[w] /\ x.content \in out[w] /\ x.run = run[w]
         /\ raw \subseteq raw'
         /\ \A s : StoredContents(s)' \subseteq
                      StoredContents(s) \cup (IF s = src[w] THEN out[w] ELSE {})
  <1>1. raw' = raw \cup {[source |-> src[w], content |-> c, run |-> run[w]] : c \in out[w]}
    BY DEF Commit
  <1>2. \A x \in raw' : \/ x \in raw
                        \/ x.source = src[w] /\ x.content \in out[w] /\ x.run = run[w]
    BY <1>1
  <1> QED
    BY <1>1, <1>2 DEF StoredContents

LEMMA UniqueCommit ==
  ASSUME TypeOK, UniqueInv, NEW w \in Workers, Commit(w)
  PROVE  UniqueInv'
  <1>1. \A v \in Workers : pc'[v] = IF v = w THEN "next" ELSE pc[v]
    BY DEF Commit, TypeOK
  <1>2. \A v \in Workers \ {w} : out'[v] = out[v] /\ src'[v] = src[v]
    BY DEF Commit, ClearRun, TypeOK
  <1> SUFFICES ASSUME NEW v \in Workers, pc'[v] = "commit"
               PROVE /\ (out[v] \cap StoredContents(src[v]))' = {}
                     /\ \A u \in Workers \ {v} : pc'[u] = "commit" /\ src'[u] = src'[v] =>
                                                    out'[u] \cap out'[v] = {}
    BY DEF UniqueInv
  <1>3. v # w /\ pc[v] = "commit" /\ pc[w] = "commit"
    BY <1>1 DEF Commit
  <1>4. \A s : s = src[v] => out[v] \cap StoredContents(s)' = {}
    BY <1>3, CommitStores DEF UniqueInv
  <1> QED
    BY <1>1, <1>2, <1>3, <1>4 DEF UniqueInv

LEMMA UniqueStep == TypeOK /\ UniqueInv /\ [Next]_vars => UniqueInv'
  <1> SUFFICES ASSUME TypeOK, UniqueInv, [Next]_vars PROVE UniqueInv'
    OBVIOUS
  <1>1. CASE UNCHANGED vars
    BY <1>1, UniqueKept DEF vars, UniqueFrame
  <1>2. CASE Publish \/ Order \/ Reap
    <2>1. UniqueFrame
      BY <1>2 DEF Publish, Order, Reap, UniqueFrame, storeVars, runVars
    <2> QED
      BY <2>1, UniqueKept
  <1>3. ASSUME NEW w \in Workers, Start(w) \/ Collect(w) \/ Lookup(w) PROVE UniqueInv'
    <2>1. UniqueFrame
      <3>1. CASE Start(w)
        BY <3>1 DEF TypeOK, Start, Night, Hand, TakeOrder, Take, UniqueFrame, storeVars, runVars
      <3>2. CASE Collect(w)
        BY <3>2 DEF TypeOK, Collect, UniqueFrame, storeVars
      <3>3. CASE Lookup(w)
        BY <3>3 DEF TypeOK, Lookup, UniqueFrame, storeVars
      <3> QED
        BY <1>3, <3>1, <3>2, <3>3
    <2> QED
      BY <2>1, UniqueKept
  <1>4. ASSUME NEW w \in Workers, Finish(w) \/ Fail(w) PROVE UniqueInv'
    <2>1. UniqueFrame
      <3>1. CASE Finish(w)
        BY <3>1 DEF TypeOK, Finish, Leave, UniqueFrame, storeVars, runVars
      <3>2. CASE Fail(w)
        BY <3>2 DEF TypeOK, Fail, Break, Killed, Leave, ClearRun, UniqueFrame, storeVars
      <3> QED
        BY <1>4, <3>1, <3>2
    <2> QED
      BY <2>1, UniqueKept
  <1> QED
    BY <1>1, <1>2, <1>3, <1>4, UniqueInsert, UniqueCommit DEF Next, Step

LEMMA StoredStep == TypeOK /\ UniqueInv /\ StoredOnce /\ [Next]_vars => StoredOnce'
  <1> SUFFICES ASSUME TypeOK, UniqueInv, StoredOnce, [Next]_vars PROVE StoredOnce'
    OBVIOUS
  <1>1. CASE UNCHANGED raw
    BY <1>1 DEF StoredOnce
  <1>2. ASSUME NEW w \in Workers, Commit(w) PROVE StoredOnce'
    <2>1. raw' = raw \cup {[source |-> src[w], content |-> c, run |-> run[w]] : c \in out[w]}
      BY <1>2 DEF Commit
    <2>2. out[w] \cap StoredContents(src[w]) = {}
      BY <1>2 DEF Commit, UniqueInv
    <2>3. \A x \in raw : x.source = src[w] => x.content \notin out[w]
      BY <2>2 DEF StoredContents
    <2> QED
      BY <2>1, <2>3 DEF StoredOnce
  <1>3. UNCHANGED raw \/ \E w \in Workers : Commit(w)
    BY DEF Next, vars, Publish, Order, Reap, Start, Night, Hand, TakeOrder, Take, Step,
           Collect, Lookup, Insert, Finish, Fail, Break, Killed, storeVars
  <1> QED
    BY <1>1, <1>2, <1>3

\* Whatever runs of a source overlap, and however many, the same content is
\* stored once.
THEOREM ContentStoredOnce == Spec => []StoredOnce
  <1>1. Init => UniqueInv /\ StoredOnce
    BY DEF Init, UniqueInv, StoredOnce
  <1>2. TypeInv => TypeOK
    BY DEF TypeInv
  <1> QED
    BY <1>1, <1>2, TypesHold, UniqueStep, StoredStep, PTL DEF Spec

-----------------------------------------------------------------------------
(***************************************************************************)
(* A record has its run.                                                   *)
(***************************************************************************)
\* A step that starts no run and fetches nothing.
KeepingFrame ==
    \A v \in Workers : InRun(v)' =>
        InRun(v) /\ out'[v] \subseteq out[v] /\ status'[v] = status[v]

LEMMA KeepingKept == ASSUME KeepingInv, KeepingFrame PROVE KeepingInv'
  <1> SUFFICES ASSUME NEW v \in Workers, InRun(v)', out'[v] # {}
               PROVE status'[v] \in {"succeeded", "partial"}
    BY DEF KeepingInv
  <1>1. InRun(v) /\ out[v] # {} /\ status'[v] = status[v]
    BY DEF KeepingFrame
  <1> QED
    BY <1>1 DEF KeepingInv

LEMMA KeepingCollect ==
  ASSUME TypeOK, KeepingInv, NEW w \in Workers, Collect(w)
  PROVE  KeepingInv'
  <1>1. PICK s \in todo[w], stop \in Requests \cup {Items * PerItem + 1},
             limited \in BOOLEAN, down \in SUBSET Requests :
          /\ down \subseteq Made(stop, down)
          /\ LET answered == Changed(s, Made(stop, down) \ down)
                 kept == IF stop \in Requests THEN {} ELSE Kept(answered, down)
             IN  /\ status' = [status EXCEPT ![w] = Verdict(stop, limited, down, kept)]
                 /\ out' = [out EXCEPT ![w] = Truncated(kept)]
                 /\ touched' = [touched EXCEPT ![w] = answered]
          /\ src' = [src EXCEPT ![w] = s]
          /\ todo' = [todo EXCEPT ![w] = @ \ {s}]
    BY DEF Collect
  <1> DEFINE answered == Changed(s, Made(stop, down) \ down)
             kept == IF stop \in Requests THEN {} ELSE Kept(answered, down)
  <1>2. out'[w] = Truncated(kept) /\ status'[w] = Verdict(stop, limited, down, kept)
    BY <1>1 DEF TypeOK
  <1>3. Truncated(kept) # {} => kept # {}
    BY DEF Truncated
  <1>4. kept # {} => Verdict(stop, limited, down, kept) \in {"succeeded", "partial"}
    BY DEF Verdict
  <1>5. \A v \in Workers \ {w} : InRun(v)' = InRun(v) /\ out'[v] = out[v] /\ status'[v] = status[v]
    BY <1>1 DEF TypeOK, Collect, InRun
  <1> QED
    BY <1>2, <1>3, <1>4, <1>5 DEF KeepingInv

LEMMA KeepingStep == TypeOK /\ KeepingInv /\ [Next]_vars => KeepingInv'
  <1> SUFFICES ASSUME TypeOK, KeepingInv, [Next]_vars PROVE KeepingInv'
    OBVIOUS
  <1> USE DEF TypeOK, KeepingFrame, InRun
  <1>1. CASE UNCHANGED vars \/ Publish \/ Order \/ Reap
    <2>1. KeepingFrame
      BY <1>1 DEF vars, Publish, Order, Reap, runVars
    <2> QED
      BY <2>1, KeepingKept
  <1>2. ASSUME NEW w \in Workers, Start(w) PROVE KeepingInv'
    <2>1. KeepingFrame
      BY <1>2 DEF Start, Night, Hand, TakeOrder, Take, runVars
    <2> QED
      BY <2>1, KeepingKept
  <1>3. ASSUME NEW w \in Workers, Lookup(w) \/ Insert(w) \/ Commit(w) PROVE KeepingInv'
    <2>1. KeepingFrame
      BY <1>3 DEF Lookup, Insert, Commit, ClearRun
    <2> QED
      BY <2>1, KeepingKept
  <1>4. ASSUME NEW w \in Workers, Finish(w) \/ Fail(w) PROVE KeepingInv'
    <2>1. KeepingFrame
      BY <1>4 DEF Finish, Fail, Break, Killed, Leave, ClearRun, runVars
    <2> QED
      BY <2>1, KeepingKept
  <1> QED
    BY <1>1, <1>2, <1>3, <1>4, KeepingCollect DEF Next, Step

\* The runs on record are only added to, but for those that become stale.
LEMMA RunsOnRecord ==
  ASSUME [Next]_vars
  PROVE  \/ UNCHANGED <<sourceRuns, raw, standing>>
         \/ \E w \in Workers : Commit(w)
         \/ Reap
  BY DEF Next, vars, Publish, Order, Start, Night, Hand, TakeOrder, Take, Step,
         Collect, Lookup, Insert, Finish, Fail, Break, Killed, storeVars

LEMMA RecordsStep == TypeOK /\ KeepingInv /\ RecordsHaveRuns /\ [Next]_vars => RecordsHaveRuns'
  <1> SUFFICES ASSUME TypeOK, KeepingInv, RecordsHaveRuns, [Next]_vars
               PROVE RecordsHaveRuns'
    OBVIOUS
  <1>1. CASE UNCHANGED <<sourceRuns, raw, standing>>
    BY <1>1 DEF RecordsHaveRuns
  <1>2. ASSUME NEW w \in Workers, Commit(w) PROVE RecordsHaveRuns'
    <2>1. sourceRuns' = sourceRuns \cup {RunRow(w)}
      BY <1>2 DEF Commit
    <2> SUFFICES ASSUME NEW x \in raw'
                 PROVE \E r \in sourceRuns' : /\ r.run = x.run /\ r.source = x.source
                                              /\ r.status \in {"succeeded", "partial"}
      BY DEF RecordsHaveRuns
    <2>2. CASE x \in raw
      <3>1. PICK r \in sourceRuns : /\ r.run = x.run /\ r.source = x.source
                                    /\ r.status \in {"succeeded", "partial"}
        BY <2>2 DEF RecordsHaveRuns
      <3> QED
        BY <2>1, <3>1
    <2>3. CASE x \notin raw
      <3>1. x.source = src[w] /\ x.content \in out[w] /\ x.run = run[w]
        BY <1>2, <2>3, CommitStores
      <3>2. status[w] \in {"succeeded", "partial"}
        BY <1>2, <3>1 DEF Commit, InRun, KeepingInv
      <3>3. RunRow(w) \in sourceRuns'
        BY <2>1
      <3>4. RunRow(w).run = run[w] /\ RunRow(w).source = src[w] /\ RunRow(w).status = status[w]
        BY DEF RunRow
      <3> QED
        BY <3>1, <3>2, <3>3, <3>4
    <2> QED
      BY <2>2, <2>3
  <1>3. CASE Reap
    <2>1. raw' = raw
      BY <1>3 DEF Reap
    <2>2. \A r \in sourceRuns : r.status \in {"succeeded", "partial"} => r \in sourceRuns'
      BY <1>3 DEF Reap
    <2> QED
      BY <2>1, <2>2 DEF RecordsHaveRuns
  <1> QED
    BY <1>1, <1>2, <1>3, RunsOnRecord

\* Whatever is refused or killed half way, no record is without a run on
\* record that did not fail.
THEOREM RecordHasRun == Spec => []RecordsHaveRuns
  <1>1. Init => KeepingInv /\ RecordsHaveRuns
    BY DEF Init, KeepingInv, RecordsHaveRuns, InRun
  <1>2. TypeInv => TypeOK
    BY DEF TypeInv
  <1> QED
    BY <1>1, <1>2, TypesHold, KeepingStep, RecordsStep, PTL DEF Spec

-----------------------------------------------------------------------------
(***************************************************************************)
(* A night that goes on has collected every source.                        *)
(***************************************************************************)
OnRecord(n, s) == \E r \in sourceRuns : r.night = n /\ r.source = s

\* What is on record for a night stays there: reaping changes no night and no
\* source.
LEMMA RecordStays ==
  ASSUME TypeOK, [Next]_vars, NEW n, NEW s, OnRecord(n, s)
  PROVE  OnRecord(n, s)'
  <1>1. CASE UNCHANGED sourceRuns
    BY <1>1 DEF OnRecord
  <1>2. ASSUME NEW w \in Workers, Commit(w) PROVE OnRecord(n, s)'
    BY <1>2 DEF Commit, OnRecord
  <1>3. CASE Reap
    <2>1. PICK r \in sourceRuns : r.night = n /\ r.source = s
      BY DEF OnRecord
    <2> DEFINE q == IF r.status = "running" THEN [r EXCEPT !.status = "stale"] ELSE r
    <2>2. q \in sourceRuns'
      BY <1>3 DEF Reap
    <2>3. r \in SourceRuns
      BY DEF TypeOK
    <2>4. q.night = n /\ q.source = s
      BY <2>1, <2>3 DEF SourceRuns
    <2> QED
      BY <2>2, <2>4 DEF OnRecord
  <1> QED
    BY <1>1, <1>2, <1>3, RunsOnRecord

\* A step under which no worker takes a night on or leaves a source behind.
ProgressFrame ==
    \A v \in Workers :
        pc'[v] # "idle" => /\ pc[v] # "idle" /\ job'[v] = job[v] /\ todo'[v] = todo[v]
                           /\ InRun(v) => InRun(v)' /\ src'[v] = src[v]

LEMMA ProgressKept ==
  ASSUME TypeOK, ProgressInv, ProgressFrame, [Next]_vars
  PROVE  ProgressInv'
  <1> SUFFICES ASSUME NEW v \in Workers, pc'[v] # "idle", job'[v].kind = "night",
                      NEW s \in Sources
               PROVE \/ s \in todo'[v]
                     \/ InRun(v)' /\ src'[v] = s
                     \/ \E r \in sourceRuns' : r.night = job'[v].id /\ r.source = s
    BY DEF ProgressInv
  <1>1. /\ pc[v] # "idle" /\ job'[v] = job[v] /\ todo'[v] = todo[v]
        /\ InRun(v) => InRun(v)' /\ src'[v] = src[v]
    BY DEF ProgressFrame
  <1>2. PICK n : n = job[v].id
    OBVIOUS
  <1>3. OnRecord(n, s) => OnRecord(n, s)'
    BY RecordStays
  <1> QED
    BY <1>1, <1>2, <1>3 DEF ProgressInv, OnRecord

LEMMA ProgressStart ==
  ASSUME TypeOK, ProgressInv, NEW w \in Workers, Start(w)
  PROVE  ProgressInv'
  <1>1. /\ \A v \in Workers \ {w} : pc'[v] = pc[v] /\ job'[v] = job[v] /\ todo'[v] = todo[v]
        /\ pc' = [pc EXCEPT ![w] = "next"]
        /\ UNCHANGED <<src, sourceRuns>>
    BY DEF TypeOK, Start, Night, Hand, TakeOrder, Take, storeVars, runVars
  <1>2. job'[w].kind = "night" => todo'[w] = Sources
    BY DEF TypeOK, Start, Night, Hand, TakeOrder, Take
  <1> SUFFICES ASSUME NEW v \in Workers, pc'[v] # "idle", job'[v].kind = "night",
                      NEW s \in Sources
               PROVE \/ s \in todo'[v]
                     \/ InRun(v)' /\ src'[v] = s
                     \/ \E r \in sourceRuns' : r.night = job'[v].id /\ r.source = s
    BY DEF ProgressInv
  <1>3. CASE v = w
    BY <1>2, <1>3
  <1>4. CASE v # w
    BY <1>1, <1>4 DEF ProgressInv, InRun
  <1> QED
    BY <1>3, <1>4

LEMMA ProgressCollect ==
  ASSUME TypeOK, ProgressInv, NEW w \in Workers, Collect(w)
  PROVE  ProgressInv'
  <1>1. UNCHANGED <<job, sourceRuns>> /\ pc[w] = "next" /\ pc' = [pc EXCEPT ![w] = "lookup"]
    BY DEF Collect, storeVars
  <1>2. PICK s \in todo[w] : src' = [src EXCEPT ![w] = s] /\ todo' = [todo EXCEPT ![w] = @ \ {s}]
    BY DEF Collect
  <1> QED
    BY <1>1, <1>2 DEF TypeOK, ProgressInv, InRun

LEMMA ProgressCommit ==
  ASSUME TypeOK, ProgressInv, NEW w \in Workers, Commit(w), [Next]_vars
  PROVE  ProgressInv'
  <1>1. /\ UNCHANGED <<job, todo>>
        /\ pc' = [pc EXCEPT ![w] = "next"]
        /\ sourceRuns' = sourceRuns \cup {RunRow(w)}
        /\ \A v \in Workers \ {w} : src'[v] = src[v]
        /\ pc[w] = "commit"
    BY DEF TypeOK, Commit, ClearRun, jobVars
  <1>2. job[w].kind = "night" => RunRow(w).night = job[w].id /\ RunRow(w).source = src[w]
    BY DEF RunRow
  <1>3. RunRow(w) \in sourceRuns'
    BY <1>1
  <1> QED
    BY <1>1, <1>2, <1>3 DEF TypeOK, ProgressInv, InRun

LEMMA ProgressStep == TypeOK /\ ProgressInv /\ [Next]_vars => ProgressInv'
  <1> SUFFICES ASSUME TypeOK, ProgressInv, [Next]_vars PROVE ProgressInv'
    OBVIOUS
  <1>1. CASE UNCHANGED vars \/ Publish \/ Order \/ Reap
    <2>1. ProgressFrame
      BY <1>1 DEF ProgressFrame, vars, Publish, Order, Reap, jobVars, runVars, InRun
    <2> QED
      BY <2>1, ProgressKept
  <1>2. ASSUME NEW w \in Workers, Lookup(w) \/ Insert(w) PROVE ProgressInv'
    <2>1. ProgressFrame
      BY <1>2 DEF ProgressFrame, TypeOK, Lookup, Insert, jobVars, InRun
    <2> QED
      BY <2>1, ProgressKept
  <1>3. ASSUME NEW w \in Workers, Finish(w) \/ Fail(w) PROVE ProgressInv'
    <2>1. ProgressFrame
      BY <1>3 DEF ProgressFrame, TypeOK, Finish, Fail, Break, Killed, Leave, ClearRun, runVars, InRun
    <2> QED
      BY <2>1, ProgressKept
  <1> QED
    BY <1>1, <1>2, <1>3, ProgressStart, ProgressCollect, ProgressCommit DEF Next, Step

LEMMA NightStep == TypeOK /\ ProgressInv /\ NightComplete /\ [Next]_vars => NightComplete'
  <1> SUFFICES ASSUME TypeOK, ProgressInv, NightComplete, [Next]_vars,
                      NEW n \in monitored', NEW s \in Sources
               PROVE  OnRecord(n, s)'
    BY DEF NightComplete, OnRecord
  <1>1. CASE n \in monitored
    BY <1>1, RecordStays DEF NightComplete, OnRecord
  <1>2. CASE n \notin monitored
    <2>1. PICK w \in Workers : Finish(w) /\ job[w].kind = "night" /\ n = job[w].id
      BY <1>2 DEF Next, vars, Publish, Order, Reap, Start, Night, Hand, TakeOrder, Take, Step,
                  Collect, Lookup, Insert, Commit, Finish, Fail, Break, Killed, tallyVars
    <2>2. OnRecord(n, s)
      BY <2>1 DEF Finish, ProgressInv, InRun, OnRecord
    <2> QED
      BY <2>2, RecordStays
  <1> QED
    BY <1>1, <1>2

\* A night goes on to monitoring only with a run on record for every source.
THEOREM NightsAreComplete == Spec => []NightComplete
  <1>1. Init => ProgressInv /\ NightComplete
    BY DEF Init, ProgressInv, NightComplete
  <1>2. TypeInv => TypeOK
    BY DEF TypeInv
  <1> QED
    BY <1>1, <1>2, TypesHold, ProgressStep, NightStep, PTL DEF Spec

-----------------------------------------------------------------------------
(***************************************************************************)
(* A source in error has failed as often as it takes.                      *)
(***************************************************************************)
NumberFrame ==
    /\ UNCHANGED <<runs, sourceRuns>>
    /\ \A v \in Workers : InRun(v)' => InRun(v) /\ run'[v] = run[v]

LEMMA NumberKept == ASSUME NumberInv, NumberFrame PROVE NumberInv'
  BY DEF NumberInv, NumberFrame

LEMMA NumberCollect ==
  ASSUME TypeOK, NumberInv, NEW w \in Workers, Collect(w)
  PROVE  NumberInv'
  <1>1. /\ runs' = runs + 1 /\ runs \in Nat
        /\ run' = [run EXCEPT ![w] = runs + 1]
        /\ pc' = [pc EXCEPT ![w] = "lookup"]
        /\ UNCHANGED sourceRuns
    BY Counts DEF TypeOK, Collect, storeVars
  <1>2. \A r \in sourceRuns : r.run \in Nat
    BY Counts DEF TypeOK, SourceRuns
  <1>3. \A v \in Workers : run[v] \in Nat
    BY Counts DEF TypeOK
  <1>4. \A v \in Workers \ {w} : InRun(v)' = InRun(v) /\ run'[v] = run[v]
    BY <1>1 DEF TypeOK, InRun
  <1>5. run'[w] = runs + 1
    BY <1>1 DEF TypeOK
  <1>6. \A r \in sourceRuns : r.run <= runs' /\ r.run # run'[w]
    BY <1>1, <1>2, <1>5 DEF NumberInv
  <1>7. \A v \in Workers \ {w} : InRun(v) => run[v] <= runs' /\ run[v] # run'[w]
    BY <1>1, <1>3, <1>5 DEF NumberInv
  <1> QED
    BY <1>1, <1>4, <1>5, <1>6, <1>7 DEF NumberInv

LEMMA NumberCommit ==
  ASSUME TypeOK, NumberInv, NEW w \in Workers, Commit(w)
  PROVE  NumberInv'
  <1>1. /\ runs' = runs
        /\ sourceRuns' = sourceRuns \cup {RunRow(w)}
        /\ RunRow(w).run = run[w]
        /\ InRun(w)
    BY DEF Commit, RunRow, InRun
  <1>2. \A v \in Workers : InRun(v)' => v # w /\ InRun(v) /\ run'[v] = run[v]
    BY DEF TypeOK, Commit, ClearRun, InRun
  <1>3. \A v \in Workers : InRun(v)' => run[v] # run[w]
    BY <1>1, <1>2 DEF NumberInv
  <1> QED
    BY <1>1, <1>2, <1>3 DEF NumberInv

LEMMA NumberReap == ASSUME TypeOK, NumberInv, Reap PROVE NumberInv'
  <1>1. \A r \in sourceRuns' : \E x \in sourceRuns : r.run = x.run
    BY DEF TypeOK, Reap, SourceRuns
  <1>2. UNCHANGED <<runs, run, pc>>
    BY DEF Reap, runVars
  <1> QED
    BY <1>1, <1>2 DEF NumberInv, InRun

LEMMA NumberStep == TypeOK /\ NumberInv /\ [Next]_vars => NumberInv'
  <1> SUFFICES ASSUME TypeOK, NumberInv, [Next]_vars PROVE NumberInv'
    OBVIOUS
  <1> USE DEF TypeOK, NumberFrame, InRun
  <1>1. CASE UNCHANGED vars \/ Publish \/ Order
    <2>1. NumberFrame
      BY <1>1 DEF vars, Publish, Order, storeVars, runVars
    <2> QED
      BY <2>1, NumberKept
  <1>2. ASSUME NEW w \in Workers, Start(w) PROVE NumberInv'
    <2>1. NumberFrame
      BY <1>2 DEF Start, Night, Hand, TakeOrder, Take, storeVars, runVars
    <2> QED
      BY <2>1, NumberKept
  <1>3. ASSUME NEW w \in Workers, Lookup(w) \/ Insert(w) PROVE NumberInv'
    <2>1. NumberFrame
      BY <1>3 DEF Lookup, Insert, storeVars
    <2> QED
      BY <2>1, NumberKept
  <1>4. ASSUME NEW w \in Workers, Finish(w) \/ Fail(w) PROVE NumberInv'
    <2>1. NumberFrame
      BY <1>4 DEF Finish, Fail, Break, Killed, Leave, ClearRun, storeVars, runVars
    <2> QED
      BY <2>1, NumberKept
  <1> QED
    BY <1>1, <1>2, <1>3, <1>4, NumberCollect, NumberCommit, NumberReap DEF Next, Step

\* The failures a commit puts on record.
LEMMA CommitCounts ==
  ASSUME TypeOK, NumberInv, CountInv, NEW w \in Workers, Commit(w), NEW s \in Sources
  PROVE  /\ IsFiniteSet(Failed(s)')
         /\ Cardinality(Failed(s)) \in Nat
         /\ Cardinality(Failed(s)') =
               Cardinality(Failed(s)) + IF s = src[w] /\ status[w] = "failed" THEN 1 ELSE 0
  <1>1. /\ sourceRuns' = sourceRuns \cup {RunRow(w)}
        /\ RunRow(w).run = run[w] /\ RunRow(w).source = src[w] /\ RunRow(w).status = status[w]
    BY DEF Commit, RunRow
  <1>2. RunRow(w) \notin sourceRuns
    BY <1>1 DEF Commit, InRun, NumberInv
  <1>3. IsFiniteSet(Failed(s)) /\ Cardinality(Failed(s)) \in Nat
    BY FS_CardinalityType DEF CountInv
  <1>4. CASE s = src[w] /\ status[w] = "failed"
    <2>1. Failed(s)' = Failed(s) \cup {RunRow(w)} /\ RunRow(w) \notin Failed(s)
      BY <1>1, <1>2, <1>4 DEF Failed
    <2> QED
      BY <1>3, <1>4, <2>1, FS_AddElement
  <1>5. CASE ~(s = src[w] /\ status[w] = "failed")
    <2>1. Failed(s)' = Failed(s)
      BY <1>1, <1>5 DEF Failed
    <2> QED
      BY <1>3, <1>5, <2>1
  <1> QED
    BY <1>4, <1>5

\* A step that puts nothing on record, and after which nobody has counted more.
CountFrame ==
    /\ UNCHANGED standing
    /\ \A s \in Sources : Failed(s)' = Failed(s)
    /\ \A v \in Workers, s \in Sources :
          read'[v][s].failures \in {0, standing[s].failures, read[v][s].failures}

LEMMA CountKept ==
  ASSUME CountInv, ErrorDeserved, CountFrame
  PROVE  CountInv' /\ ErrorDeserved'
  <1>1. \A s \in Sources : Cardinality(Failed(s)) \in Nat
    BY FS_CardinalityType DEF CountInv
  <1>2. CountInv'
    <2> SUFFICES ASSUME NEW s \in Sources
                 PROVE /\ IsFiniteSet(Failed(s)')
                       /\ standing'[s].failures <= Cardinality(Failed(s)')
                       /\ \A w \in Workers : read'[w][s].failures <= Cardinality(Failed(s)')
      BY DEF CountInv
    <2>1. Failed(s)' = Failed(s) /\ standing'[s] = standing[s]
      BY DEF CountFrame
    <2> QED
      BY <1>1, <2>1 DEF CountInv, CountFrame
  <1>3. ErrorDeserved'
    <2> SUFFICES ASSUME NEW s \in Sources, standing'[s].health = "error"
                 PROVE Cardinality(Failed(s)') >= FailureLimit
      BY DEF ErrorDeserved, Failed
    <2>1. Failed(s)' = Failed(s) /\ standing'[s] = standing[s]
      BY DEF CountFrame
    <2>2. Cardinality(Failed(s)) >= FailureLimit
      BY <2>1 DEF ErrorDeserved, Failed
    <2> QED
      BY <2>1, <2>2
  <1> QED
    BY <1>2, <1>3

LEMMA CountCommit ==
  ASSUME TypeOK, NumberInv, CountInv, ErrorDeserved, NEW w \in Workers, Commit(w)
  PROVE  CountInv' /\ ErrorDeserved'
  <1>0. PICK u \in Sources : u = src[w]
    BY DEF TypeOK
  <1> DEFINE new == After(standing[u], read[w][u], status[w] # "failed")
  <1>1. u \in Sources /\ standing[u] \in Standing /\ read[w][u] \in Standing
    BY DEF TypeOK
  <1>2. \A s \in Sources : standing'[s] = IF s = u THEN new ELSE standing[s]
    BY <1>0 DEF TypeOK, Commit
  <1>3. read' = read
    BY DEF Commit, jobVars
  <1>4. FailureLimit \in Nat /\ \A s \in Sources : standing[s].failures \in Nat
        /\ \A v \in Workers : read[v][s].failures \in Nat
    BY Counts DEF TypeOK, Standing
  <1>5. /\ Cardinality(Failed(u)) \in Nat
        /\ Cardinality(Failed(u)') =
               Cardinality(Failed(u)) + IF status[w] = "failed" THEN 1 ELSE 0
    BY <1>0, CommitCounts
  <1>6. new.failures <= Cardinality(Failed(u)')
    BY <1>1, <1>4, <1>5 DEF After, CountInv
  <1>7. new.health = "error" => Cardinality(Failed(u)') >= FailureLimit
    <2>1. standing[u].health = "error" => Cardinality(Failed(u)) >= FailureLimit
      BY <1>1 DEF ErrorDeserved, Failed
    <2>2. read[w][u].failures <= Cardinality(Failed(u))
      BY <1>1 DEF CountInv
    <2> QED
      BY <1>1, <1>4, <1>5, <2>1, <2>2 DEF After
  <1>8. ASSUME NEW s \in Sources
        PROVE  /\ IsFiniteSet(Failed(s)')
               /\ standing'[s].failures <= Cardinality(Failed(s)')
               /\ \A v \in Workers : read'[v][s].failures <= Cardinality(Failed(s)')
               /\ standing'[s].health = "error" => Cardinality(Failed(s)') >= FailureLimit
    <2>1. /\ IsFiniteSet(Failed(s)') /\ Cardinality(Failed(s)) \in Nat
          /\ Cardinality(Failed(s)') \in Nat
          /\ Cardinality(Failed(s)') >= Cardinality(Failed(s))
      BY CommitCounts
    <2>2. standing[s].health = "error" => Cardinality(Failed(s)) >= FailureLimit
      BY DEF ErrorDeserved, Failed
    <2>3. /\ standing[s].failures <= Cardinality(Failed(s))
          /\ \A v \in Workers : read[v][s].failures <= Cardinality(Failed(s))
      BY DEF CountInv
    <2>4. CASE s = u
      BY <1>2, <1>3, <1>4, <1>6, <1>7, <2>1, <2>3, <2>4
    <2>5. CASE s # u
      BY <1>2, <1>3, <1>4, <2>1, <2>2, <2>3, <2>5
    <2> QED
      BY <2>4, <2>5
  <1> QED
    BY <1>8 DEF CountInv, ErrorDeserved, Failed

LEMMA CountStep ==
  TypeOK /\ NumberInv /\ CountInv /\ ErrorDeserved /\ [Next]_vars
      => CountInv' /\ ErrorDeserved'
  <1> SUFFICES ASSUME TypeOK, NumberInv, CountInv, ErrorDeserved, [Next]_vars
               PROVE  CountInv' /\ ErrorDeserved'
    OBVIOUS
  <1>1. CASE UNCHANGED vars \/ Publish \/ Order
    <2>1. CountFrame
      BY <1>1 DEF vars, Publish, Order, storeVars, jobVars, CountFrame, Failed
    <2> QED
      BY <2>1, CountKept
  <1>2. CASE Reap
    <2>1. \A x \in sourceRuns : x.status = "running" =>
             [x EXCEPT !.status = "stale"].status = "stale"
      BY DEF TypeOK, SourceRuns
    <2>2. \A s \in Sources : Failed(s)' = Failed(s)
      BY <1>2, <2>1 DEF Reap, Failed
    <2>3. CountFrame
      BY <1>2, <2>2 DEF Reap, jobVars, CountFrame
    <2> QED
      BY <2>3, CountKept
  <1>3. ASSUME NEW w \in Workers, Start(w) PROVE CountInv' /\ ErrorDeserved'
    <2>1. read' = [read EXCEPT ![w] = standing] /\ UNCHANGED <<standing, sourceRuns>>
      BY <1>3 DEF Start, Night, Hand, TakeOrder, Take, storeVars
    <2>2. CountFrame
      BY <2>1 DEF TypeOK, CountFrame, Failed
    <2> QED
      BY <2>2, CountKept
  <1>4. ASSUME NEW w \in Workers, Collect(w) \/ Lookup(w) \/ Insert(w)
        PROVE CountInv' /\ ErrorDeserved'
    <2>1. CountFrame
      BY <1>4 DEF Collect, Lookup, Insert, storeVars, jobVars, CountFrame, Failed
    <2> QED
      BY <2>1, CountKept
  <1>5. ASSUME NEW w \in Workers, Finish(w) \/ Fail(w) PROVE CountInv' /\ ErrorDeserved'
    <2>1. read' = [read EXCEPT ![w] = Healthy] /\ UNCHANGED <<standing, sourceRuns>>
      BY <1>5, EndParts DEF Leave, storeVars
    <2>2. \A s \in Sources : Healthy[s].failures = 0
      BY DEF Healthy
    <2>3. CountFrame
      BY <2>1, <2>2 DEF TypeOK, CountFrame, Failed
    <2> QED
      BY <2>3, CountKept
  <1> QED
    BY <1>1, <1>2, <1>3, <1>4, <1>5, CountCommit DEF Next, Step

\* However the runs of a source overlap, and although each counts on from what
\* it had loaded, a source is only in error with as many failed runs on record.
THEOREM ErrorIsDeserved == Spec => []ErrorDeserved
  <1>1. Init => NumberInv /\ CountInv /\ ErrorDeserved
    <2>1. ASSUME Init, NEW s \in Sources
          PROVE Failed(s) = {} /\ IsFiniteSet(Failed(s)) /\ Cardinality(Failed(s)) = 0
      <3>1. Failed(s) = {}
        BY <2>1 DEF Init, Failed
      <3> QED
        BY <3>1, FS_EmptySet
    <2>2. Init => NumberInv
      BY DEF Init, NumberInv, InRun
    <2> QED
      BY <2>1, <2>2 DEF Init, CountInv, ErrorDeserved, Healthy
  <1>2. TypeInv => TypeOK
    BY DEF TypeInv
  <1> QED
    BY <1>1, <1>2, TypesHold, NumberStep, CountStep, PTL DEF Spec
=============================================================================
