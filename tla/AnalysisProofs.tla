---------------------------- MODULE AnalysisProofs ----------------------------
(***************************************************************************)
(* The theorems about Entities and Analysis.  Their inductive invariant    *)
(* holds of every request and implies what is promised of names, histories *)
(* and events.                                                             *)
(***************************************************************************)
EXTENDS Analysis, SequenceTheorems, FiniteSetTheorems, TLAPS

-----------------------------------------------------------------------------
(* Tables, and the steps of Entities.                                      *)

LEMMA NoneIsNothing ==
    /\ None \notin Nat /\ None \notin EntityRows /\ None \notin CandidateRows
  BY NoneAssumption

\* A function on 1..n is a sequence.
LEMMA FunctionIsTable ==
  ASSUME NEW S, NEW n \in Nat, NEW f \in [1..n -> S]
  PROVE  f \in Seq(S) /\ Len(f) = n /\ DOMAIN f = 1..n
  <1>1. f \in Seq(S)
    BY SeqDef
  <1> QED
    BY <1>1

\* Inserting a row keeps the others.
LEMMA InsertedRow ==
  ASSUME NEW S, NEW t \in Seq(S), NEW row \in S
  PROVE  /\ Append(t, row) \in Seq(S)
         /\ DOMAIN Append(t, row) = DOMAIN t \cup {Len(t) + 1}
         /\ Len(t) + 1 \notin DOMAIN t
         /\ \A i \in DOMAIN t : Append(t, row)[i] = t[i]
         /\ Append(t, row)[Len(t) + 1] = row
  OBVIOUS

-----------------------------------------------------------------------------
(* A request that takes a step is where the step leaves it, the others stay. *)

StepOf(r, kind, to, seen) ==
    /\ requests'[r].kind = kind /\ requests'[r].pc = to /\ requests'[r].seen = seen
    /\ \A q \in Requests \ {r} : requests'[q] = requests[q]
    /\ overlap \subseteq overlap'

LEMMA ReadsStep ==
  ASSUME RequestsInv, NEW r \in Requests, NEW kind, NEW seen, Reads(r, kind, seen)
  PROVE  /\ StepOf(r, kind, "read", seen) /\ RequestsInv'
         /\ \A q \in Requests \ {r} : UnderWay(q) => {kind, requests[q].kind} \in overlap'
  <1>1. StepOf(r, kind, "read", seen)
    BY DEF RequestsInv, Reads, At, StepOf
  <1>2. \A q \in Requests \ {r} : UnderWay(q) => {kind, requests[q].kind} \in overlap'
    BY DEF Reads, At, UnderWay
  <1>3. DOMAIN requests' = Requests
        /\ \A q \in Requests : DOMAIN requests'[q] = {"kind", "pc", "seen"}
    BY DEF RequestsInv, Reads, At
  <1>4. \A p, q \in Requests :
            p # q /\ UnderWay(p)' /\ UnderWay(q)' => {requests'[p].kind, requests'[q].kind} \in overlap'
    <2> SUFFICES ASSUME NEW p \in Requests, NEW q \in Requests, p # q, UnderWay(p)', UnderWay(q)'
                 PROVE  {requests'[p].kind, requests'[q].kind} \in overlap'
      OBVIOUS
    <2>1. CASE p = r
      BY <1>1, <1>2, <2>1 DEF StepOf, UnderWay
    <2>2. CASE q = r
      <3>1. {requests'[p].kind, requests'[q].kind} = {requests'[q].kind, requests'[p].kind}
        OBVIOUS
      <3> QED
        BY <1>1, <1>2, <2>2, <3>1 DEF StepOf, UnderWay
    <2>3. CASE p # r /\ q # r
      BY <1>1, <2>3 DEF StepOf, UnderWay, RequestsInv
    <2> QED
      BY <2>1, <2>2, <2>3
  <1> QED
    BY <1>1, <1>2, <1>3, <1>4 DEF RequestsInv

LEMMA LaterStep ==
  ASSUME RequestsInv, NEW r \in Requests, NEW kind, NEW pc, NEW to, NEW seen,
         \/ ReadsOn(r, kind, seen) /\ pc = "read" /\ to = "gathered"
         \/ Ends(r, kind, pc, to) /\ seen = None /\ to \in {"done", "failed"}
  PROVE  StepOf(r, kind, to, seen) /\ RequestsInv' /\ At(r, kind, pc) /\ overlap' = overlap
  <1>1. StepOf(r, kind, to, seen) /\ At(r, kind, pc) /\ overlap' = overlap
    BY DEF RequestsInv, ReadsOn, Ends, At, StepOf
  <1>2. DOMAIN requests' = Requests
        /\ \A q \in Requests : DOMAIN requests'[q] = {"kind", "pc", "seen"}
    BY DEF RequestsInv, ReadsOn, Ends, At
  <1>3. \A q \in Requests : UnderWay(q)' => requests'[q].kind = requests[q].kind /\ UnderWay(q)
    BY <1>1 DEF StepOf, UnderWay, ReadsOn, Ends, At
  <1> QED
    BY <1>1, <1>2, <1>3 DEF RequestsInv

-----------------------------------------------------------------------------
(* Tables that only grow: what was read is still there.                    *)

Grows ==
    /\ DOMAIN entities \subseteq DOMAIN entities' /\ Live(entities) \subseteq Live(entities')
    /\ DOMAIN candidates \subseteq DOMAIN candidates'
    /\ \A n \in DOMAIN aliases : n \in DOMAIN aliases' /\ aliases'[n] = aliases[n]
    /\ \A i \in DOMAIN signals : i \in DOMAIN signals' /\ signals'[i].entity = signals[i].entity

LEMMA UnchangedGrows ==
  ASSUME UNCHANGED entityVars
  PROVE  Grows
  BY DEF entityVars, Grows, Live

LEMMA SeenStays ==
  ASSUME SeenInv, Grows, NEW r \in Requests, SeenBy(r)',
         \A q \in Requests \ {r} : requests'[q] = requests[q]
  PROVE  SeenInv'
  <1> SUFFICES ASSUME NEW q \in Requests, q # r
               PROVE  SeenBy(q)'
    BY DEF SeenInv
  <1>1. SeenBy(q) /\ requests'[q] = requests[q]
    BY DEF SeenInv
  <1> DEFINE s == requests[q].seen
  <1>2. CollectSeen(s) => CollectSeen(requests[q].seen)'
    BY <1>1 DEF CollectSeen, Grows
  <1>3. DecideSeen(s) => DecideSeen(requests[q].seen)'
    BY <1>1 DEF DecideSeen, Grows
  <1>4. MergeSeen(s) => MergeSeen(requests[q].seen)'
    BY <1>1 DEF MergeSeen, Grows
  <1> QED
    BY <1>1, <1>2, <1>3, <1>4 DEF SeenBy, At

\* A step that leaves no merge under way disturbs none of the others.
LEMMA MergesStay ==
  ASSUME MergesInv, NEW r \in Requests, ~At(r, "decide", "gathered")',
         \A q \in Requests \ {r} : requests'[q] = requests[q]
  PROVE  MergesInv'
  <1> SUFFICES ASSUME NEW p \in Requests, NEW q \in Requests, p # q, p # r, q # r
               PROVE  At(p, "decide", "gathered")' /\ At(q, "decide", "gathered")'
                          /\ requests'[p].seen.duplicate # None =>
                        requests'[p].seen.duplicate # requests'[q].seen.duplicate
    BY DEF MergesInv
  <1>1. requests'[p] = requests[p] /\ requests'[q] = requests[q]
    OBVIOUS
  <1> QED
    BY <1>1 DEF MergesInv, At

LEMMA GatheredStays ==
  ASSUME GatheredInv, UNCHANGED <<aliases, signals>>, overlap \subseteq overlap',
         NEW r \in Requests, ~At(r, "decide", "gathered")',
         \A q \in Requests \ {r} : requests'[q] = requests[q]
  PROVE  GatheredInv'
  <1> SUFFICES ASSUME {"collect", "decide"} \notin overlap', NEW q \in Requests,
                      At(q, "decide", "gathered")',
                      requests'[q].seen.duplicate # None,
                      SignalsOf(requests[q].seen.duplicate)' \subseteq requests'[q].seen.signals
               PROVE  AliasesOf(requests[q].seen.duplicate)' \subseteq requests'[q].seen.aliases
    BY DEF GatheredInv
  <1>1. q # r /\ requests'[q] = requests[q] /\ {"collect", "decide"} \notin overlap
    OBVIOUS
  <1> QED
    BY <1>1 DEF GatheredInv, At, SignalsOf, AliasesOf

\* A request that writes nothing here, whatever its kind.
LEMMA QuietStep ==
  ASSUME EntitiesInv, RequestsInv', UNCHANGED entityVars, NEW r \in Requests, SeenBy(r)',
         ~At(r, "decide", "gathered")',
         \A q \in Requests \ {r} : requests'[q] = requests[q], overlap \subseteq overlap'
  PROVE  EntitiesInv'
  <1>1. TablesInv'
    BY DEF EntitiesInv, TablesInv, entityVars, Live, SignalsOf
  <1>2. SeenInv'
    BY UnchangedGrows, SeenStays DEF EntitiesInv
  <1>3. MergesInv'
    BY MergesStay DEF EntitiesInv
  <1>4. GatheredInv'
    BY GatheredStays DEF EntitiesInv, entityVars
  <1> QED
    BY <1>1, <1>2, <1>3, <1>4 DEF EntitiesInv

-----------------------------------------------------------------------------
(* The steps of a collection.                                              *)

\* A resolution names an entity that is there, or creates one and may ask.
LEMMA Resolution ==
  ASSUME TablesInv, NEW m \in Mentions, NEW o \in ResolveEntity(m)
  PROVE  /\ o.on = "created" <=> o.entity = None
         /\ o.entity # None => o.entity \in Live(entities)
         /\ o.target # None => o.on = "created" /\ o.target \in Live(entities)
  <1>1. None \notin Live(entities)
    BY NoneIsNothing DEF TablesInv, Live
  <1>2. FindByIdentifier(m) \subseteq Live(entities)
    BY DEF FindByIdentifier
  <1>3. FindByAlias(m.name) \subseteq Live(entities)
    BY DEF FindByAlias, TablesInv
  <1>4. FindSimilar(m.name) \subseteq Live(entities)
    BY DEF FindSimilar
  <1>5. \A found : MostAlike(m.name, found) \subseteq found
    BY DEF MostAlike
  <1> DEFINE similar == FindSimilar(m.name)
             ruled(d) == {e \in similar : Ruling(m.name, e) \in d}
             asked == similar \ ruled({"rejected", "keep_separate"})
             result(on, e, target) == [on |-> on, entity |-> e, target |-> target]
  <1>6. \/ \E e \in Live(entities) : o = result("identifier", e, None)
        \/ \E e \in Live(entities) : o = result("alias", e, None)
        \/ \E e \in Live(entities) : o = result("human_confirmed", e, None)
        \/ o = result("created", None, None)
        \/ \E e \in Live(entities) : o = result("created", None, e)
    <2>1. CASE FindByIdentifier(m) # {}
      BY <1>2, <2>1 DEF ResolveEntity
    <2>2. CASE FindByIdentifier(m) = {} /\ FindByAlias(m.name) # {}
      BY <1>3, <2>2 DEF ResolveEntity
    <2>3. CASE FindByIdentifier(m) = {} /\ FindByAlias(m.name) = {} /\ ruled({"confirmed"}) # {}
      <3>1. o \in {result("human_confirmed", e, None) : e \in MostAlike(m.name, ruled({"confirmed"}))}
        BY <2>3 DEF ResolveEntity
      <3>2. MostAlike(m.name, ruled({"confirmed"})) \subseteq Live(entities)
        BY <1>4, <1>5
      <3> QED
        BY <3>1, <3>2
    <2>4. CASE /\ FindByIdentifier(m) = {} /\ FindByAlias(m.name) = {}
               /\ ruled({"confirmed"}) = {} /\ asked = {}
      BY <2>4 DEF ResolveEntity
    <2>5. CASE /\ FindByIdentifier(m) = {} /\ FindByAlias(m.name) = {}
               /\ ruled({"confirmed"}) = {} /\ asked # {}
      <3>1. o \in {result("created", None, IF Ruling(m.name, e) = None THEN e ELSE None) :
                      e \in MostAlike(m.name, asked)}
        BY <2>5 DEF ResolveEntity
      <3>2. MostAlike(m.name, asked) \subseteq Live(entities)
        BY <1>4, <1>5
      <3> HIDE DEF asked
      <3> QED
        BY <3>1, <3>2
    <2> QED
      BY <2>1, <2>2, <2>3, <2>4, <2>5
  <1> QED
    BY <1>1, <1>6

LEMMA SignalOfRow ==
  ASSUME TablesInv, NEW e, NEW source
  PROVE  SignalOf(e, source) # None => SignalOf(e, source) \in DOMAIN signals
  BY DEF SignalOf

LEMMA CollectKeeps ==
  ASSUME EntitiesInv, NEW r \in Requests, Collect(r)
  PROVE  EntitiesInv'
  <1>1. PICK m \in Mentions : \E o \in ResolveEntity(m) : Reads(r, "collect", Resolved(m, o))
    BY DEF Collect
  <1>2. PICK o \in ResolveEntity(m) : Reads(r, "collect", Resolved(m, o))
    BY <1>1
  <1>3. PICK s : s = Resolved(m, o)
    OBVIOUS
  <1>4. /\ o.on = "created" <=> o.entity = None
        /\ o.entity # None => o.entity \in Live(entities)
        /\ o.target # None => o.on = "created" /\ o.target \in Live(entities)
    BY Resolution DEF EntitiesInv
  <1>5. CollectSeen(s)
    BY <1>3, <1>4, SignalOfRow DEF Resolved, CollectSeen, Live, EntitiesInv
  <1>6. UNCHANGED entityVars
    BY DEF Collect
  <1>7. StepOf(r, "collect", "read", s) /\ RequestsInv'
    BY <1>2, <1>3, ReadsStep DEF EntitiesInv
  <1>8. SeenBy(r)'
    BY <1>5, <1>6, <1>7 DEF StepOf, SeenBy, At, CollectSeen, entityVars
  <1> QED
    BY <1>6, <1>7, <1>8, QuietStep DEF StepOf, At

\* A request that fails, or is none of these, leaves the tables alone.
LEMMA FailureKeeps ==
  ASSUME EntitiesInv, NEW r \in Requests,
         CollectFails(r) \/ DecideClashes(r) \/ DecideFails(r)
  PROVE  EntitiesInv'
  <1>1. PICK kind, pc : Ends(r, kind, pc, "failed") /\ UNCHANGED entityVars
    BY DEF CollectFails, DecideClashes, DecideFails
  <1>2. StepOf(r, kind, "failed", None) /\ RequestsInv'
    BY <1>1, LaterStep DEF EntitiesInv
  <1>3. SeenBy(r)' /\ ~At(r, "decide", "gathered")'
    BY <1>2 DEF StepOf, SeenBy, At
  <1> QED
    BY <1>1, <1>2, <1>3, QuietStep DEF StepOf

\* A collection commits: the facts about the rows it writes.
LEMMA CollectRows ==
  ASSUME EntitiesInv, NEW r \in Requests, CollectCommit(r)
  PROVE  LET s == requests[r].seen
             m == s.mention
             new == Len(entities) + 1
             e == IF s.on = "created" THEN new ELSE s.entity
         IN  /\ CollectSeen(s) /\ ~CollectConflicts(s) /\ At(r, "collect", "read")
             /\ new \notin DOMAIN entities
             /\ entities' \in Seq(EntityRows \cup {None})
             /\ DOMAIN entities' = DOMAIN entities \cup (IF s.on = "created" THEN {new} ELSE {})
             /\ Live(entities') = Live(entities) \cup (IF s.on = "created" THEN {new} ELSE {})
             /\ s.signal = None => e \in Live(entities')
             /\ s.names => e \in Live(entities')
             /\ s.on = "created" \/ s.names => m.name \notin DOMAIN aliases
  <1> DEFINE s == requests[r].seen
             m == s.mention
             new == Len(entities) + 1
             e == IF s.on = "created" THEN new ELSE s.entity
  <1>1. CollectSeen(s) /\ ~CollectConflicts(s) /\ At(r, "collect", "read")
    BY DEF EntitiesInv, SeenInv, SeenBy, CollectCommit, Ends
  <1>2. entities \in Seq(EntityRows \cup {None}) /\ new \notin DOMAIN entities
    BY DEF EntitiesInv, TablesInv
  <1>3. s.on = "created" \/ s.names => m.name \notin DOMAIN aliases
    BY <1>1 DEF CollectConflicts, FindByAlias
  <1>4. s.on # "created" /\ (s.names \/ s.learns \/ s.signal = None) => s.entity \in Live(entities)
    BY <1>1 DEF CollectConflicts
  <1>5. CASE s.on = "created"
    <2> DEFINE row == [name |-> m.name, id |-> m.id]
    <2>1. row \in EntityRows
      BY <1>1 DEF EntityRows, Names, Ids, CollectSeen
    <2>2. entities' = Append(entities, row)
      BY <1>5 DEF CollectCommit
    <2> HIDE DEF row
    <2>3. /\ entities' \in Seq(EntityRows \cup {None})
          /\ DOMAIN entities' = DOMAIN entities \cup {new}
          /\ \A i \in DOMAIN entities : entities'[i] = entities[i]
          /\ entities'[new] = row
      BY <1>2, <2>1, <2>2, InsertedRow
    <2>4. Live(entities') = Live(entities) \cup {new}
      BY <1>2, <2>1, <2>3, NoneIsNothing DEF Live
    <2> QED
      BY <1>1, <1>2, <1>3, <1>5, <2>3, <2>4 DEF CollectSeen
  <1>6. CASE s.on # "created" /\ s.learns
    <2>1. e \in Live(entities) /\ e \in DOMAIN entities
      BY <1>4, <1>6 DEF Live
    <2>2. entities' = [entities EXCEPT ![e].id = m.id]
      BY <1>6 DEF CollectCommit
    <2>3. [entities[e] EXCEPT !.id = m.id] \in EntityRows
      BY <1>1, <1>2, <2>1 DEF Live, EntityRows, Ids, CollectSeen
    <2>4. /\ entities' \in Seq(EntityRows \cup {None}) /\ DOMAIN entities' = DOMAIN entities
          /\ \A i \in DOMAIN entities : i # e => entities'[i] = entities[i]
          /\ entities'[e] \in EntityRows
      BY <1>2, <2>1, <2>2, <2>3
    <2>5. Live(entities') = Live(entities)
      BY <2>1, <2>4, NoneIsNothing DEF Live
    <2> QED
      BY <1>1, <1>2, <1>3, <1>4, <1>6, <2>1, <2>4, <2>5
  <1>7. CASE s.on # "created" /\ ~s.learns
    <2>1. entities' = entities
      BY <1>7 DEF CollectCommit
    <2> QED
      BY <1>1, <1>2, <1>3, <1>4, <1>7, <2>1 DEF Live
  <1> QED
    BY <1>5, <1>6, <1>7, <1>1 DEF CollectSeen

\* The other tables: a name, a question and a signal more.
LEMMA CollectOthers ==
  ASSUME EntitiesInv, NEW r \in Requests, CollectCommit(r)
  PROVE  LET s == requests[r].seen
             m == s.mention
             new == Len(entities) + 1
             e == IF s.on = "created" THEN new ELSE s.entity
             row == [name |-> m.name, target |-> s.target, created |-> new, decision |-> "pending"]
         IN  /\ aliases' = [n \in DOMAIN aliases' |-> aliases'[n]]
             /\ DOMAIN aliases' = DOMAIN aliases \cup (IF s.on = "created" \/ s.names THEN {m.name} ELSE {})
             /\ \A n \in DOMAIN aliases : aliases'[n] = aliases[n]
             /\ s.on = "created" \/ s.names => aliases'[m.name] = e
             /\ candidates' = IF s.target = None THEN candidates ELSE Append(candidates, row)
             /\ row \in CandidateRows \/ s.target = None
             /\ signals' \in Seq(SignalRows)
             /\ DOMAIN signals' = DOMAIN signals \cup (IF s.signal = None THEN {Len(signals) + 1} ELSE {})
             /\ \A i \in DOMAIN signals : signals'[i].entity = signals[i].entity
                                          /\ signals[i].seen \subseteq signals'[i].seen
             /\ s.signal = None => signals'[Len(signals) + 1].entity = e
  <1> DEFINE s == requests[r].seen
             m == s.mention
             new == Len(entities) + 1
             e == IF s.on = "created" THEN new ELSE s.entity
             row == [name |-> m.name, target |-> s.target, created |-> new, decision |-> "pending"]
  <1>1. /\ CollectSeen(s) /\ m \in Mentions
        /\ s.on = "created" \/ s.names => m.name \notin DOMAIN aliases
        /\ entities \in Seq(EntityRows \cup {None}) /\ Len(entities) \in Nat
        /\ DOMAIN entities = 1..Len(entities)
        /\ signals \in Seq(SignalRows)
    <2>1. CollectSeen(s) /\ (s.on = "created" \/ s.names => m.name \notin DOMAIN aliases)
      BY CollectRows
    <2>2. entities \in Seq(EntityRows \cup {None}) /\ signals \in Seq(SignalRows)
      BY DEF EntitiesInv, TablesInv
    <2> QED
      BY <2>1, <2>2 DEF CollectSeen
  <1>2. aliases = [n \in DOMAIN aliases |-> aliases[n]]
    BY DEF EntitiesInv, TablesInv
  <1>5. /\ aliases' = [n \in DOMAIN aliases' |-> aliases'[n]]
        /\ DOMAIN aliases' = DOMAIN aliases \cup (IF s.on = "created" \/ s.names THEN {m.name} ELSE {})
        /\ \A n \in DOMAIN aliases : aliases'[n] = aliases[n]
        /\ s.on = "created" \/ s.names => aliases'[m.name] = e
    <2>1. CASE s.on = "created" \/ s.names
      <3>1. aliases' = [n \in DOMAIN aliases \cup {m.name} |-> IF n = m.name THEN e ELSE aliases[n]]
        BY <2>1 DEF CollectCommit
      <3> QED
        BY <1>1, <2>1, <3>1
    <2>2. CASE ~(s.on = "created" \/ s.names)
      <3>1. aliases' = aliases
        BY <2>2 DEF CollectCommit
      <3> QED
        BY <1>2, <2>2, <3>1
    <2> QED
      BY <2>1, <2>2
  <1>6. /\ candidates' = IF s.target = None THEN candidates ELSE Append(candidates, row)
        /\ row \in CandidateRows \/ s.target = None
    BY SMTT(30), <1>1 DEF CollectCommit, CollectSeen, CandidateRows, Names
  <1>7. CASE s.signal = None
    <2> DEFINE signal == [entity |-> e, source |-> m.source, seen |-> {m}]
    <2>1. e \in Nat
      BY <1>1, <1>7, CollectRows DEF Live, CollectSeen
    <2>2. signal \in SignalRows
      BY <1>1, <2>1 DEF SignalRows
    <2>3. signals' = Append(signals, signal) /\ signal.entity = e
      BY <1>7 DEF CollectCommit
    <2> HIDE DEF signal
    <2>4. /\ signals' \in Seq(SignalRows) /\ DOMAIN signals' = DOMAIN signals \cup {Len(signals) + 1}
          /\ \A i \in DOMAIN signals : signals'[i] = signals[i]
          /\ signals'[Len(signals) + 1] = signal
      BY <1>1, <2>2, <2>3, InsertedRow
    <2> QED
      BY <1>5, <1>6, <1>7, <2>3, <2>4
  <1>8. CASE s.signal # None
    <2>1. s.signal \in DOMAIN signals
      BY <1>1, <1>8 DEF CollectSeen
    <2>2. signals' = [signals EXCEPT ![s.signal].seen = @ \cup {m}]
      BY <1>8 DEF CollectCommit
    <2>3. signals[s.signal] \in SignalRows
      BY <1>1, <2>1
    <2>4. [signals[s.signal] EXCEPT !.seen = @ \cup {m}] \in SignalRows
      BY <1>1, <2>3 DEF SignalRows
    <2>5. signals' \in Seq(SignalRows) /\ DOMAIN signals' = DOMAIN signals
      BY <1>1, <2>1, <2>2, <2>4
    <2>6. \A i \in DOMAIN signals : signals'[i].entity = signals[i].entity
                                    /\ signals[i].seen \subseteq signals'[i].seen
      BY <1>1, <2>1, <2>2, <2>3 DEF SignalRows
    <2> QED
      BY <1>5, <1>6, <1>8, <2>5, <2>6
  <1> QED
    BY <1>7, <1>8

LEMMA CollectGrows ==
  ASSUME EntitiesInv, NEW r \in Requests, CollectCommit(r)
  PROVE  Grows
  <1> DEFINE s == requests[r].seen
  <1>1. DOMAIN entities \subseteq DOMAIN entities' /\ Live(entities) \subseteq Live(entities')
    BY CollectRows
  <1>2. \A n \in DOMAIN aliases : n \in DOMAIN aliases' /\ aliases'[n] = aliases[n]
    BY CollectOthers
  <1>3. \A i \in DOMAIN signals : i \in DOMAIN signals' /\ signals'[i].entity = signals[i].entity
    BY CollectOthers
  <1>4. DOMAIN candidates \subseteq DOMAIN candidates'
    <2>1. CASE s.target = None
      BY <2>1 DEF CollectCommit
    <2>2. CASE s.target # None
      <3>1. PICK row \in CandidateRows : candidates' = Append(candidates, row)
        BY <2>2, CollectOthers
      <3>2. candidates \in Seq(CandidateRows \cup {None})
        BY DEF EntitiesInv, TablesInv
      <3> QED
        BY <3>1, <3>2
    <2> QED
      BY <2>1, <2>2
  <1> QED
    BY <1>1, <1>2, <1>3, <1>4 DEF Grows

LEMMA CollectTables ==
  ASSUME EntitiesInv, NEW r \in Requests, CollectCommit(r)
  PROVE  TablesInv'
  <1> DEFINE s == requests[r].seen
             m == s.mention
             new == Len(entities) + 1
             e == IF s.on = "created" THEN new ELSE s.entity
             row == [name |-> m.name, target |-> s.target, created |-> new, decision |-> "pending"]
  <1>1. /\ CollectSeen(s) /\ ~CollectConflicts(s) /\ new \notin DOMAIN entities
        /\ entities' \in Seq(EntityRows \cup {None})
        /\ Live(entities') = Live(entities) \cup (IF s.on = "created" THEN {new} ELSE {})
        /\ s.signal = None => e \in Live(entities')
        /\ s.names => e \in Live(entities')
    BY CollectRows
  <1>2. /\ aliases' = [n \in DOMAIN aliases' |-> aliases'[n]]
        /\ DOMAIN aliases' = DOMAIN aliases \cup (IF s.on = "created" \/ s.names THEN {m.name} ELSE {})
        /\ \A n \in DOMAIN aliases : aliases'[n] = aliases[n]
        /\ s.on = "created" \/ s.names => aliases'[m.name] = e
    BY CollectOthers
  <1>3. /\ candidates' = IF s.target = None THEN candidates ELSE Append(candidates, row)
        /\ row \in CandidateRows \/ s.target = None
    BY CollectOthers
  <1>4. /\ signals' \in Seq(SignalRows)
        /\ DOMAIN signals' = DOMAIN signals \cup (IF s.signal = None THEN {Len(signals) + 1} ELSE {})
        /\ \A i \in DOMAIN signals : signals'[i].entity = signals[i].entity
        /\ s.signal = None => signals'[Len(signals) + 1].entity = e
    BY CollectOthers
  <1>5. \A n \in DOMAIN aliases' : aliases'[n] \in Live(entities')
    BY <1>1, <1>2 DEF EntitiesInv, TablesInv
  <1>6. \A i \in DOMAIN signals' : signals'[i].entity \in Live(entities')
    BY <1>1, <1>4 DEF EntitiesInv, TablesInv
  <1>7. \A f \in Live(entities') : SignalsOf(f)' # {}
    <2> SUFFICES ASSUME NEW f \in Live(entities')
                 PROVE  \E i \in DOMAIN signals' : signals'[i].entity = f
      BY DEF SignalsOf
    <2>1. CASE f \in Live(entities)
      BY <1>4, <2>1 DEF EntitiesInv, TablesInv, SignalsOf
    <2>2. CASE f \notin Live(entities)
      BY <1>1, <1>4, <2>2 DEF CollectSeen
    <2> QED
      BY <2>1, <2>2
  <1>8. /\ candidates' \in Seq(CandidateRows \cup {None})
        /\ \A c \in Live(candidates') :
              /\ candidates'[c].target \in Live(entities')
              /\ candidates'[c].created # None => candidates'[c].created \in Live(entities')
              /\ candidates'[c].created # candidates'[c].target
    <2>1. /\ candidates \in Seq(CandidateRows \cup {None})
          /\ \A c \in Live(candidates) :
                /\ candidates[c].target \in Live(entities)
                /\ candidates[c].created # None => candidates[c].created \in Live(entities)
                /\ candidates[c].created # candidates[c].target
      BY DEF EntitiesInv, TablesInv
    <2>2. CASE s.target = None
      BY <1>1, <1>3, <2>1, <2>2 DEF Live
    <2>3. CASE s.target # None
      <3>1. row.target \in Live(entities) /\ row.created = new /\ s.on = "created"
        BY <1>1, <2>3 DEF CollectSeen, CollectConflicts
      <3>2. row.target # new
        BY <1>1, <3>1 DEF Live
      <3> HIDE DEF row
      <3>3. /\ candidates' \in Seq(CandidateRows \cup {None})
            /\ DOMAIN candidates' = DOMAIN candidates \cup {Len(candidates) + 1}
            /\ \A c \in DOMAIN candidates : candidates'[c] = candidates[c]
            /\ candidates'[Len(candidates) + 1] = row
        BY <1>3, <2>1, <2>3, InsertedRow
      <3> QED
        BY <1>1, <2>1, <3>1, <3>2, <3>3 DEF Live
    <2> QED
      BY <2>2, <2>3
  <1> QED
    BY <1>1, <1>2, <1>4, <1>5, <1>6, <1>7, <1>8 DEF TablesInv

\* A merge that has gathered its rows beside this request is on record.
LEMMA CollectCommitKeeps ==
  ASSUME EntitiesInv, NEW r \in Requests, CollectCommit(r)
  PROVE  EntitiesInv'
  <1>1. Ends(r, "collect", "read", "done")
    BY DEF CollectCommit
  <1>2. StepOf(r, "collect", "done", None) /\ RequestsInv' /\ At(r, "collect", "read") /\ overlap' = overlap
    BY <1>1, LaterStep DEF EntitiesInv
  <1>3. SeenBy(r)' /\ ~At(r, "decide", "gathered")'
    BY <1>2 DEF StepOf, SeenBy, At
  <1>4. SeenInv'
    BY <1>2, <1>3, CollectGrows, SeenStays DEF EntitiesInv, StepOf
  <1>5. MergesInv'
    BY <1>2, <1>3, MergesStay DEF EntitiesInv, StepOf
  <1>6. GatheredInv'
    <2> SUFFICES ASSUME {"collect", "decide"} \notin overlap', NEW q \in Requests,
                        At(q, "decide", "gathered")'
                 PROVE  FALSE
      BY DEF GatheredInv
    <2>1. q # r /\ UnderWay(q) /\ UnderWay(r) /\ requests[q].kind = "decide" /\ requests[r].kind = "collect"
      BY <1>2 DEF StepOf, At, UnderWay
    <2> QED
      BY <1>2, <2>1 DEF EntitiesInv, RequestsInv
  <1> QED
    BY <1>2, <1>4, <1>5, <1>6, CollectTables DEF EntitiesInv

-----------------------------------------------------------------------------
(* The steps of a ruling.                                                  *)

LEMMA DecideKeeps ==
  ASSUME EntitiesInv, NEW r \in Requests, Decide(r)
  PROVE  EntitiesInv'
  <1> DEFINE seen(c, d) == [candidate |-> c, decision |-> d, created |-> candidates[c].created,
                            survivor |-> candidates[c].target, duplicate |-> None]
  <1>1. PICK c \in Live(candidates) : \E d \in Rulings : Reads(r, "decide", seen(c, d))
    BY DEF Decide
  <1>2. PICK d \in Rulings : Reads(r, "decide", seen(c, d))
    BY <1>1
  <1>3. PICK s : s = seen(c, d)
    OBVIOUS
  <1>4. DecideSeen(s)
    BY <1>3 DEF EntitiesInv, TablesInv, DecideSeen, Live
  <1>5. UNCHANGED entityVars
    BY DEF Decide
  <1>6. StepOf(r, "decide", "read", s) /\ RequestsInv'
    BY <1>2, <1>3, ReadsStep DEF EntitiesInv
  <1>7. SeenBy(r)'
    BY <1>4, <1>5, <1>6 DEF StepOf, SeenBy, At, DecideSeen, entityVars
  <1> QED
    BY <1>5, <1>6, <1>7, QuietStep DEF StepOf, At

\* What a merge gathers: all that is with the duplicate.
LEMMA DecideGathers ==
  ASSUME EntitiesInv, NEW r \in Requests, DecideGather(r)
  PROVE  \E s : /\ StepOf(r, "decide", "gathered", s) /\ RequestsInv' /\ overlap' = overlap
                /\ MergeSeen(s)
                /\ s.duplicate # None => /\ AliasesOf(s.duplicate) \subseteq s.aliases
                                         /\ \A t \in Gathered : t.duplicate # s.duplicate
  <1> DEFINE old == requests[r].seen
             seen == [candidate |-> old.candidate, decision |-> old.decision, survivor |-> old.survivor,
                      duplicate |-> IF Merges(old) THEN old.created ELSE None,
                      signals |-> IF Merges(old) THEN SignalsOf(old.created) ELSE {},
                      aliases |-> IF Merges(old) THEN AliasesOf(old.created) ELSE {},
                      id |-> IF Merges(old) /\ entities[old.survivor].id = None
                             THEN entities[old.created].id ELSE None]
  <1>1. ReadsOn(r, "decide", seen) /\ At(r, "decide", "read")
        /\ (Merges(old) => \A t \in Gathered : t.duplicate # old.created)
    BY DEF DecideGather
  <1>2. PICK s : s = seen
    OBVIOUS
  <1>3. StepOf(r, "decide", "gathered", s) /\ RequestsInv' /\ overlap' = overlap
    BY <1>1, <1>2, LaterStep DEF EntitiesInv
  <1>4. DecideSeen(old)
    BY <1>1 DEF EntitiesInv, SeenInv, SeenBy
  <1>5. MergeSeen(s)
    <2>1. CASE Merges(old)
      <3>1. entities[old.created] \in EntityRows /\ old.created \in Live(entities)
        BY <2>1 DEF Merges, Live, EntitiesInv, TablesInv
      <3>2. s.id \in Ids
        BY <1>2, <2>1, <3>1 DEF EntityRows, Ids
      <3> QED
        BY <1>2, <1>4, <2>1, <3>1, <3>2 DEF MergeSeen, DecideSeen, SignalsOf, AliasesOf, Merges
    <2>2. CASE ~Merges(old)
      <3>1. old.survivor # None
        BY <1>4, NoneIsNothing DEF DecideSeen, EntitiesInv, TablesInv
      <3> QED
        BY <1>2, <1>4, <2>2, <3>1 DEF MergeSeen, DecideSeen, Ids
    <2> QED
      BY <2>1, <2>2
  <1>6. s.duplicate # None => AliasesOf(s.duplicate) \subseteq s.aliases
                              /\ \A t \in Gathered : t.duplicate # s.duplicate
    BY <1>1, <1>2
  <1> QED
    BY <1>3, <1>5, <1>6

LEMMA DecideGatherKeeps ==
  ASSUME EntitiesInv, NEW r \in Requests, DecideGather(r)
  PROVE  EntitiesInv'
  <1>1. PICK s : /\ StepOf(r, "decide", "gathered", s) /\ RequestsInv' /\ overlap' = overlap
                 /\ MergeSeen(s)
                 /\ s.duplicate # None => /\ AliasesOf(s.duplicate) \subseteq s.aliases
                                          /\ \A t \in Gathered : t.duplicate # s.duplicate
    BY DecideGathers
  <1>2. UNCHANGED entityVars
    BY DEF DecideGather
  <1>3. TablesInv'
    BY <1>2 DEF EntitiesInv, TablesInv, entityVars, Live, SignalsOf
  <1>4. SeenBy(r)'
    BY <1>1, <1>2 DEF StepOf, SeenBy, At, MergeSeen, entityVars
  <1>5. SeenInv'
    BY <1>1, <1>2, <1>4, UnchangedGrows, SeenStays DEF EntitiesInv, StepOf
  <1>6. \A q \in Requests \ {r} :
            /\ At(q, "decide", "gathered")' => At(q, "decide", "gathered")
            /\ requests'[q] = requests[q]
            /\ At(q, "decide", "gathered") /\ requests[q].seen.duplicate # None =>
                  requests[q].seen.duplicate # s.duplicate
    <2> SUFFICES ASSUME NEW q \in Requests \ {r}
                 PROVE  /\ At(q, "decide", "gathered")' => At(q, "decide", "gathered")
                        /\ requests'[q] = requests[q]
                        /\ At(q, "decide", "gathered") /\ requests[q].seen.duplicate # None =>
                              requests[q].seen.duplicate # s.duplicate
      OBVIOUS
    <2>1. requests'[q] = requests[q]
      BY <1>1 DEF StepOf
    <2>2. At(q, "decide", "gathered") /\ requests[q].seen.duplicate # None => requests[q].seen \in Gathered
      BY DEF Gathered
    <2> QED
      BY <1>1, <2>1, <2>2 DEF At
  <1>7. MergesInv'
    <2> SUFFICES ASSUME NEW p \in Requests, NEW q \in Requests, p # q,
                        At(p, "decide", "gathered")', At(q, "decide", "gathered")',
                        requests'[p].seen.duplicate # None
                 PROVE  requests'[p].seen.duplicate # requests'[q].seen.duplicate
      BY DEF MergesInv
    <2>1. requests'[r].seen = s
      BY <1>1 DEF StepOf
    <2>2. CASE p # r /\ q # r
      BY <1>6, <2>2 DEF EntitiesInv, MergesInv
    <2>3. CASE p = r
      BY <1>6, <2>1, <2>3
    <2>4. CASE q = r
      BY <1>6, <2>1, <2>4
    <2> QED
      BY <2>2, <2>3, <2>4
  <1>8. GatheredInv'
    <2> SUFFICES ASSUME {"collect", "decide"} \notin overlap', NEW q \in Requests,
                        At(q, "decide", "gathered")',
                        requests'[q].seen.duplicate # None,
                        SignalsOf(requests[q].seen.duplicate)' \subseteq requests'[q].seen.signals
                 PROVE  AliasesOf(requests[q].seen.duplicate)' \subseteq requests'[q].seen.aliases
      BY DEF GatheredInv
    <2>1. CASE q = r
      BY <1>1, <1>2, <2>1 DEF StepOf, AliasesOf, entityVars
    <2>2. CASE q # r
      BY <1>1, <1>2, <1>6, <2>2 DEF EntitiesInv, GatheredInv, SignalsOf, AliasesOf, entityVars
    <2> QED
      BY <2>1, <2>2
  <1> QED
    BY <1>1, <1>3, <1>5, <1>7, <1>8 DEF EntitiesInv

\* The rows after a merge: all that was with the duplicate is with the survivor,
\* the rest is where it was.
LEMMA MergedRows ==
  ASSUME EntitiesInv, NEW r \in Requests, DecideCommit(r)
  PROVE  LET s == requests[r].seen
         IN  /\ MergeSeen(s) /\ ~DecideConflicts(s) /\ At(r, "decide", "gathered")
             /\ s.duplicate # None =>
                   s.survivor \in Live(entities) /\ SignalsOf(s.duplicate) = s.signals
             /\ entities' \in Seq(EntityRows \cup {None}) /\ DOMAIN entities' = DOMAIN entities
             /\ Live(entities') = Live(entities) \ {s.duplicate}
             /\ aliases' = [n \in DOMAIN aliases' |-> aliases'[n]]
             /\ DOMAIN aliases' = {n \in DOMAIN aliases : n \in s.aliases \/ aliases[n] # s.duplicate}
             /\ \A n \in DOMAIN aliases' :
                   aliases'[n] = IF n \in s.aliases THEN s.survivor ELSE aliases[n]
             /\ signals' \in Seq(SignalRows) /\ DOMAIN signals' = DOMAIN signals
             /\ \A i \in DOMAIN signals :
                   /\ signals'[i].entity = IF i \in s.signals THEN s.survivor ELSE signals[i].entity
                   /\ signals'[i].seen = signals[i].seen
  <1> DEFINE s == requests[r].seen
  <1>1. MergeSeen(s) /\ ~DecideConflicts(s) /\ At(r, "decide", "gathered")
    BY DEF EntitiesInv, SeenInv, SeenBy, DecideCommit, Ends
  <1>2. entities \in Seq(EntityRows \cup {None}) /\ signals \in Seq(SignalRows)
    BY DEF EntitiesInv, TablesInv
  <1>3. s.duplicate # None => s.survivor \in Live(entities) /\ SignalsOf(s.duplicate) = s.signals
    BY <1>1 DEF MergeSeen, DecideConflicts, SignalsOf
  <1>4. /\ entities' \in Seq(EntityRows \cup {None}) /\ DOMAIN entities' = DOMAIN entities
        /\ Live(entities') = Live(entities) \ {s.duplicate}
    <2> DEFINE row(e) == IF e = s.duplicate THEN None
                         ELSE IF e = s.survivor /\ s.id # None THEN [entities[e] EXCEPT !.id = s.id]
                         ELSE entities[e]
    <2>1. entities' = [e \in DOMAIN entities |-> row(e)]
      BY DEF DecideCommit
    <2>2. \A e \in DOMAIN entities :
              /\ row(e) \in EntityRows \cup {None}
              /\ row(e) = None <=> e = s.duplicate \/ entities[e] = None
      <3> SUFFICES ASSUME NEW e \in DOMAIN entities
                   PROVE  /\ row(e) \in EntityRows \cup {None}
                          /\ row(e) = None <=> e = s.duplicate \/ entities[e] = None
        OBVIOUS
      <3>1. entities[e] \in EntityRows \cup {None}
        BY <1>2
      <3>2. CASE e # s.duplicate /\ e = s.survivor /\ s.id # None
        <4>1. s.id \in Ids /\ e \in Live(entities)
          BY <1>1, <1>3, <3>2 DEF MergeSeen
        <4>2. entities[e] \in EntityRows
          BY <3>1, <4>1 DEF Live
        <4>3. [entities[e] EXCEPT !.id = s.id] \in EntityRows
          BY <4>1, <4>2 DEF EntityRows
        <4> QED
          BY <3>2, <4>2, <4>3, NoneIsNothing
      <3>3. CASE ~(e # s.duplicate /\ e = s.survivor /\ s.id # None)
        BY <3>1, <3>3
      <3> QED
        BY <3>2, <3>3
    <2> HIDE DEF row
    <2>3. entities' \in [1..Len(entities) -> EntityRows \cup {None}]
      BY <1>2, <2>1, <2>2
    <2>4. entities' \in Seq(EntityRows \cup {None}) /\ DOMAIN entities' = DOMAIN entities
      BY <1>2, <2>3, FunctionIsTable
    <2> QED
      BY <2>1, <2>2, <2>4 DEF Live
  <1>5. /\ aliases' = [n \in DOMAIN aliases' |-> aliases'[n]]
        /\ DOMAIN aliases' = {n \in DOMAIN aliases : n \in s.aliases \/ aliases[n] # s.duplicate}
        /\ \A n \in DOMAIN aliases' :
              aliases'[n] = IF n \in s.aliases THEN s.survivor ELSE aliases[n]
    <2> DEFINE kept == {n \in DOMAIN aliases : n \in s.aliases \/ aliases[n] # s.duplicate}
    <2>1. aliases' = [n \in kept |-> IF n \in s.aliases THEN s.survivor ELSE aliases[n]]
      BY DEF DecideCommit
    <2> HIDE DEF kept
    <2>2. /\ aliases' = [n \in DOMAIN aliases' |-> aliases'[n]] /\ DOMAIN aliases' = kept
          /\ \A n \in DOMAIN aliases' :
                aliases'[n] = IF n \in s.aliases THEN s.survivor ELSE aliases[n]
      BY <2>1
    <2> QED
      BY <2>2 DEF kept
  <1>6. /\ signals' \in Seq(SignalRows) /\ DOMAIN signals' = DOMAIN signals
        /\ \A i \in DOMAIN signals :
              /\ signals'[i].entity = IF i \in s.signals THEN s.survivor ELSE signals[i].entity
              /\ signals'[i].seen = signals[i].seen
    <2> DEFINE row(i) == IF i \in s.signals THEN [signals[i] EXCEPT !.entity = s.survivor] ELSE signals[i]
    <2>1. signals' = [i \in DOMAIN signals |-> row(i)]
      BY DEF DecideCommit
    <2>2. \A i \in DOMAIN signals :
              /\ row(i) \in SignalRows
              /\ row(i).entity = IF i \in s.signals THEN s.survivor ELSE signals[i].entity
              /\ row(i).seen = signals[i].seen
      <3>1. s.survivor \in Nat
        BY <1>1, <1>2 DEF MergeSeen
      <3>2. \A i \in DOMAIN signals : signals[i] \in SignalRows
        BY <1>2
      <3>3. \A x \in SignalRows :
                LET y == [x EXCEPT !.entity = s.survivor]
                IN  y \in SignalRows /\ y.entity = s.survivor /\ y.seen = x.seen
        BY <3>1 DEF SignalRows
      <3> QED
        BY <3>2, <3>3
    <2> HIDE DEF row
    <2>3. signals' \in [1..Len(signals) -> SignalRows]
      BY <1>2, <2>1, <2>2
    <2>4. signals' \in Seq(SignalRows) /\ DOMAIN signals' = DOMAIN signals
      BY <1>2, <2>3, FunctionIsTable
    <2> QED
      BY <2>1, <2>2, <2>4
  <1> QED
    BY <1>1, <1>3, <1>4, <1>5, <1>6

\* The queue after a ruling: what stays refers to what is there.
LEMMA RuledCandidates ==
  ASSUME EntitiesInv, NEW r \in Requests, DecideCommit(r)
  PROVE  /\ candidates' \in Seq(CandidateRows \cup {None}) /\ DOMAIN candidates' = DOMAIN candidates
         /\ \A c \in Live(candidates') :
               /\ candidates'[c].target \in Live(entities')
               /\ candidates'[c].created # None => candidates'[c].created \in Live(entities')
               /\ candidates'[c].created # candidates'[c].target
  <1> DEFINE s == requests[r].seen
  <1>1. /\ candidates \in Seq(CandidateRows \cup {None})
        /\ \A c \in Live(candidates) :
              /\ candidates[c].target \in Live(entities)
              /\ candidates[c].created # None => candidates[c].created \in Live(entities)
              /\ candidates[c].created # candidates[c].target
    BY DEF EntitiesInv, TablesInv
  <1>2. candidates' = [c \in DOMAIN candidates |-> CandidateAfter(c, s)]
    BY DEF DecideCommit
  <1>3. Live(entities') = Live(entities) \ {s.duplicate} /\ s.decision \in Rulings
    BY MergedRows DEF MergeSeen
  <1>4. None \notin Live(entities)
    BY NoneIsNothing DEF EntitiesInv, TablesInv, Live
  <1>5. \A c \in DOMAIN candidates :
            LET row == CandidateAfter(c, s)
            IN  \/ row = None
                \/ /\ row \in CandidateRows /\ row.target \in Live(entities')
                   /\ row.created # None => row.created \in Live(entities')
                   /\ row.created # row.target
    <2> SUFFICES ASSUME NEW c \in DOMAIN candidates, CandidateAfter(c, s) # None
                 PROVE  /\ CandidateAfter(c, s) \in CandidateRows
                        /\ CandidateAfter(c, s).target \in Live(entities')
                        /\ CandidateAfter(c, s).created # None =>
                              CandidateAfter(c, s).created \in Live(entities')
                        /\ CandidateAfter(c, s).created # CandidateAfter(c, s).target
      BY Zenon
    <2> DEFINE row == candidates[c]
               ruled == IF c = s.candidate THEN [row EXCEPT !.decision = s.decision] ELSE row
    <2>1. row # None /\ (row.target # s.duplicate \/ s.duplicate = None)
      BY DEF CandidateAfter
    <2>2. /\ row \in CandidateRows /\ row.target \in Live(entities)
          /\ row.created # None => row.created \in Live(entities)
          /\ row.created # row.target
      BY <1>1, <2>1 DEF Live
    <2>3. row.target \in Live(entities') /\ row.target # None
      BY <1>3, <1>4, <2>1, <2>2
    <2>4. ruled \in CandidateRows /\ ruled.target = row.target /\ ruled.created = row.created
      BY <1>3, <2>2 DEF CandidateRows
    <2> HIDE DEF ruled
    <2>5. CASE row.created = s.duplicate
      <3>1. CandidateAfter(c, s) = [ruled EXCEPT !.created = None]
        BY <2>1, <2>5 DEF CandidateAfter, ruled
      <3> QED
        BY <2>3, <2>4, <3>1 DEF CandidateRows
    <2>6. CASE row.created # s.duplicate
      <3>1. CandidateAfter(c, s) = ruled
        BY <2>1, <2>6 DEF CandidateAfter, ruled
      <3> QED
        BY <1>3, <2>2, <2>3, <2>4, <2>6, <3>1
    <2> QED
      BY <2>5, <2>6
  <1>6. candidates' \in [1..Len(candidates) -> CandidateRows \cup {None}]
    BY <1>1, <1>2, <1>5
  <1>7. candidates' \in Seq(CandidateRows \cup {None}) /\ DOMAIN candidates' = DOMAIN candidates
    BY <1>1, <1>6, FunctionIsTable
  <1> QED
    BY <1>2, <1>5, <1>7 DEF Live

LEMMA MergedTables ==
  ASSUME EntitiesInv, NEW r \in Requests, DecideCommit(r)
  PROVE  TablesInv'
  <1> DEFINE s == requests[r].seen
  <1>1. /\ MergeSeen(s)
        /\ s.duplicate # None => s.survivor \in Live(entities) /\ SignalsOf(s.duplicate) = s.signals
        /\ Live(entities') = Live(entities) \ {s.duplicate}
        /\ DOMAIN aliases' = {n \in DOMAIN aliases : n \in s.aliases \/ aliases[n] # s.duplicate}
        /\ \A n \in DOMAIN aliases' :
              aliases'[n] = IF n \in s.aliases THEN s.survivor ELSE aliases[n]
        /\ DOMAIN signals' = DOMAIN signals
        /\ \A i \in DOMAIN signals :
              signals'[i].entity = IF i \in s.signals THEN s.survivor ELSE signals[i].entity
    BY MergedRows
  <1>2. /\ \A n \in DOMAIN aliases : aliases[n] \in Live(entities)
        /\ \A i \in DOMAIN signals : signals[i].entity \in Live(entities)
        /\ \A e \in Live(entities) : SignalsOf(e) # {}
        /\ None \notin Live(entities)
    BY NoneIsNothing DEF EntitiesInv, TablesInv, Live
  <1>3. s.duplicate # None => s.survivor \in Live(entities')
    BY <1>1 DEF MergeSeen
  <1>4. s.duplicate = None => s.signals = {} /\ s.aliases = {}
    BY <1>1 DEF MergeSeen
  <1>5. \A n \in DOMAIN aliases' : aliases'[n] \in Live(entities')
    BY <1>1, <1>2, <1>3, <1>4
  <1>6. \A i \in DOMAIN signals' : signals'[i].entity \in Live(entities')
    BY <1>1, <1>2, <1>3, <1>4 DEF SignalsOf
  <1>7. \A e \in Live(entities') : SignalsOf(e)' # {}
    <2> SUFFICES ASSUME NEW e \in Live(entities')
                 PROVE  \E i \in DOMAIN signals' : signals'[i].entity = e
      BY DEF SignalsOf
    <2>1. e \in Live(entities) /\ e # s.duplicate
      BY <1>1
    <2>2. PICK i \in DOMAIN signals : signals[i].entity = e
      BY <1>2, <2>1 DEF SignalsOf
    <2>3. i \notin s.signals
      BY <1>1, <1>4, <2>1, <2>2 DEF SignalsOf
    <2> QED
      BY <1>1, <2>2, <2>3
  <1>8. entities' \in Seq(EntityRows \cup {None}) /\ signals' \in Seq(SignalRows)
        /\ aliases' = [n \in DOMAIN aliases' |-> aliases'[n]]
    BY MergedRows
  <1> QED
    BY <1>5, <1>6, <1>7, <1>8, RuledCandidates DEF TablesInv

\* The other merges under way are not about the entity that goes, and nothing of
\* theirs is touched; one whose duplicate survives here will find new signals.
LEMMA DecideCommitKeeps ==
  ASSUME EntitiesInv, NEW r \in Requests, DecideCommit(r)
  PROVE  EntitiesInv'
  <1> DEFINE s == requests[r].seen
  <1>1. Ends(r, "decide", "gathered", "done") /\ \A t \in Gathered : t.survivor # s.duplicate
    BY DEF DecideCommit
  <1>2. StepOf(r, "decide", "done", None) /\ RequestsInv' /\ At(r, "decide", "gathered") /\ overlap' = overlap
    BY <1>1, LaterStep DEF EntitiesInv
  <1>3. /\ MergeSeen(s)
        /\ s.duplicate # None => s.survivor \in Live(entities) /\ SignalsOf(s.duplicate) = s.signals
        /\ DOMAIN entities' = DOMAIN entities
        /\ Live(entities') = Live(entities) \ {s.duplicate}
        /\ DOMAIN aliases' = {n \in DOMAIN aliases : n \in s.aliases \/ aliases[n] # s.duplicate}
        /\ \A n \in DOMAIN aliases' :
              aliases'[n] = IF n \in s.aliases THEN s.survivor ELSE aliases[n]
        /\ DOMAIN signals' = DOMAIN signals
        /\ \A i \in DOMAIN signals :
              signals'[i].entity = IF i \in s.signals THEN s.survivor ELSE signals[i].entity
    BY MergedRows
  <1>4. DOMAIN candidates' = DOMAIN candidates
    BY RuledCandidates
  <1>5. \A q \in Requests \ {r} : requests'[q] = requests[q] /\ (At(q, "decide", "gathered")' => At(q, "decide", "gathered"))
    BY <1>2 DEF StepOf, At
  <1>6. \A n \in s.aliases : aliases[n] = s.duplicate /\ s.duplicate # None
    BY <1>3 DEF MergeSeen
  <1>7. \A i \in s.signals : signals[i].entity = s.duplicate /\ s.duplicate # None
    BY <1>3 DEF MergeSeen
  <1>8. ~At(r, "decide", "gathered")' /\ SeenBy(r)'
    BY <1>2 DEF StepOf, At, SeenBy
  <1>9. SeenInv'
    <2> SUFFICES ASSUME NEW q \in Requests, q # r
                 PROVE  SeenBy(q)'
      BY <1>8 DEF SeenInv
    <2> DEFINE t == requests[q].seen
    <2>1. SeenBy(q) /\ requests'[q] = requests[q]
      BY <1>5 DEF EntitiesInv, SeenInv
    <2>2. CollectSeen(t) => CollectSeen(requests[q].seen)'
      BY <1>3, <2>1 DEF CollectSeen
    <2>3. DecideSeen(t) => DecideSeen(requests[q].seen)'
      BY <1>3, <1>4, <2>1 DEF DecideSeen
    <2>4. At(q, "decide", "gathered") /\ MergeSeen(t) => MergeSeen(requests[q].seen)'
      <3> SUFFICES ASSUME At(q, "decide", "gathered"), MergeSeen(t)
                   PROVE  MergeSeen(requests[q].seen)'
        OBVIOUS
      <3>1. t.duplicate # None => t.duplicate # s.duplicate
        BY <1>2 DEF EntitiesInv, MergesInv
      <3>2. t.duplicate = None => t.signals = {} /\ t.aliases = {}
        BY DEF MergeSeen
      <3>3. t.duplicate # None => t.duplicate \in Live(entities')
        BY <1>3, <3>1 DEF MergeSeen
      <3>4. \A n \in t.aliases : n \in DOMAIN aliases' /\ aliases'[n] = t.duplicate
        BY <1>3, <1>6, <3>1, <3>2 DEF MergeSeen
      <3>5. \A i \in t.signals : i \in DOMAIN signals' /\ signals'[i].entity = t.duplicate
        BY <1>3, <1>7, <3>1, <3>2 DEF MergeSeen
      <3> QED
        BY <1>3, <1>4, <2>1, <3>3, <3>4, <3>5 DEF MergeSeen
    <2> QED
      BY <2>1, <2>2, <2>3, <2>4 DEF SeenBy, At
  <1>10. MergesInv'
    BY <1>5, <1>8, MergesStay DEF EntitiesInv
  <1>11. GatheredInv'
    <2> SUFFICES ASSUME {"collect", "decide"} \notin overlap', NEW q \in Requests,
                        At(q, "decide", "gathered")',
                        requests'[q].seen.duplicate # None,
                        SignalsOf(requests[q].seen.duplicate)' \subseteq requests'[q].seen.signals
                 PROVE  AliasesOf(requests[q].seen.duplicate)' \subseteq requests'[q].seen.aliases
      BY DEF GatheredInv
    <2> DEFINE t == requests[q].seen
    <2>1. q # r /\ requests'[q] = requests[q] /\ At(q, "decide", "gathered")
      BY <1>5, <1>8
    <2>2. t.duplicate # s.duplicate /\ t.duplicate # None /\ MergeSeen(t)
      BY <1>2, <2>1 DEF EntitiesInv, MergesInv, SeenInv, SeenBy
    <2>3. CASE s.duplicate # None /\ t.duplicate = s.survivor
      <3>1. PICK i \in s.signals : signals[i].entity = s.duplicate
        BY <1>3, <1>7, <2>3 DEF EntitiesInv, TablesInv, MergeSeen
      <3>2. i \in SignalsOf(t.duplicate)'
        BY <1>3, <2>1, <2>3, <3>1 DEF SignalsOf, MergeSeen
      <3>3. i \in t.signals /\ signals[i].entity = t.duplicate
        BY <2>1, <2>2, <3>2 DEF MergeSeen
      <3> QED
        BY <2>2, <3>1, <3>3
    <2>4. CASE ~(s.duplicate # None /\ t.duplicate = s.survivor)
      <3>1. SignalsOf(t.duplicate) \subseteq SignalsOf(t.duplicate)'
        BY <1>3, <1>7, <2>1, <2>2 DEF SignalsOf
      <3>2. AliasesOf(t.duplicate)' \subseteq AliasesOf(t.duplicate)
        BY <1>3, <1>6, <2>1, <2>2, <2>4 DEF AliasesOf
      <3> QED
        BY <1>2, <2>1, <2>2, <3>1, <3>2 DEF EntitiesInv, GatheredInv
    <2> QED
      BY <2>3, <2>4
  <1> QED
    BY <1>2, <1>9, <1>10, <1>11, MergedTables DEF EntitiesInv

-----------------------------------------------------------------------------
(* Names stay together.                                                    *)

KeptTogether ==
    LET staying == DOMAIN aliases \cap DOMAIN aliases'
    IN  /\ \A n \in staying, o \in staying : aliases[n] = aliases[o] => aliases'[n] = aliases'[o]
        /\ {"collect", "decide"} \notin overlap => staying = DOMAIN aliases
        /\ \A s \in DOMAIN signals, n \in staying :
              /\ s \in DOMAIN signals' /\ signals[s].seen \subseteq signals'[s].seen
              /\ signals[s].entity = aliases[n] => signals'[s].entity = aliases'[n]

LEMMA QuietTogether ==
  ASSUME UNCHANGED <<aliases, signals>>
  PROVE  KeptTogether
  BY DEF KeptTogether

LEMMA CollectTogether ==
  ASSUME EntitiesInv, NEW r \in Requests, CollectCommit(r)
  PROVE  KeptTogether
  <1>1. \A n \in DOMAIN aliases : n \in DOMAIN aliases' /\ aliases'[n] = aliases[n]
    BY CollectOthers
  <1>2. \A i \in DOMAIN signals : /\ i \in DOMAIN signals' /\ signals'[i].entity = signals[i].entity
                                  /\ signals[i].seen \subseteq signals'[i].seen
    BY CollectOthers
  <1> QED
    BY <1>1, <1>2 DEF KeptTogether

LEMMA MergeTogether ==
  ASSUME EntitiesInv, NEW r \in Requests, DecideCommit(r)
  PROVE  KeptTogether
  <1> DEFINE s == requests[r].seen
             staying == DOMAIN aliases \cap DOMAIN aliases'
  <1>1. /\ MergeSeen(s) /\ ~DecideConflicts(s) /\ At(r, "decide", "gathered")
        /\ s.duplicate # None => SignalsOf(s.duplicate) = s.signals
        /\ DOMAIN aliases' = {n \in DOMAIN aliases : n \in s.aliases \/ aliases[n] # s.duplicate}
        /\ \A n \in DOMAIN aliases' :
              aliases'[n] = IF n \in s.aliases THEN s.survivor ELSE aliases[n]
        /\ DOMAIN signals' = DOMAIN signals
        /\ \A i \in DOMAIN signals :
              /\ signals'[i].entity = IF i \in s.signals THEN s.survivor ELSE signals[i].entity
              /\ signals'[i].seen = signals[i].seen
    BY MergedRows
  <1>2. /\ \A n \in DOMAIN aliases : aliases[n] # None
        /\ \A i \in DOMAIN signals : signals[i].entity # None
    BY NoneIsNothing DEF EntitiesInv, TablesInv, Live
  <1>3. \A n \in DOMAIN aliases' : n \in s.aliases <=> aliases[n] = s.duplicate
    BY <1>1 DEF MergeSeen
  <1>4. \A i \in DOMAIN signals : i \in s.signals <=> signals[i].entity = s.duplicate
    BY <1>1, <1>2 DEF MergeSeen, SignalsOf
  <1>5. {"collect", "decide"} \notin overlap => staying = DOMAIN aliases
    <2> SUFFICES ASSUME {"collect", "decide"} \notin overlap, s.duplicate # None
                 PROVE  AliasesOf(s.duplicate) \subseteq s.aliases
      BY SMTT(30), <1>1, <1>2 DEF AliasesOf
    <2> QED
      BY <1>1 DEF EntitiesInv, GatheredInv
  <1>6. \A n \in staying, o \in staying : aliases[n] = aliases[o] => aliases'[n] = aliases'[o]
    BY <1>1, <1>3
  <1>7. \A i \in DOMAIN signals, n \in staying :
            /\ i \in DOMAIN signals' /\ signals[i].seen \subseteq signals'[i].seen
            /\ signals[i].entity = aliases[n] => signals'[i].entity = aliases'[n]
    BY <1>1, <1>3, <1>4
  <1> QED
    BY <1>5, <1>6, <1>7 DEF KeptTogether

-----------------------------------------------------------------------------
LEMMA EntitiesTypes ==
  ASSUME EntitiesInv
  PROVE  TypeOKEntities
  <1>1. \A e \in Live(entities) : entities[e] \in EntityRows
    BY DEF EntitiesInv, TablesInv, Live
  <1>2. \A c \in Live(candidates) : candidates[c] \in CandidateRows
    BY DEF EntitiesInv, TablesInv, Live
  <1>3. \A i \in DOMAIN signals : signals[i] \in SignalRows
    BY DEF EntitiesInv, TablesInv
  <1>4. /\ \A n \in DOMAIN aliases : aliases[n] \in Live(entities)
        /\ \A i \in DOMAIN signals : signals[i].entity \in Live(entities)
    BY DEF EntitiesInv, TablesInv
  <1> QED
    BY <1>1, <1>2, <1>3, <1>4 DEF TypeOKEntities, EntityRows, CandidateRows, SignalRows, Ids

LEMMA EntitiesStart ==
  ASSUME entities = << >>, aliases = << >>, candidates = << >>, signals = << >>, overlap = {},
         DOMAIN requests = Requests,
         \A r \in Requests : DOMAIN requests[r] = {"kind", "pc", "seen"} /\ requests[r].pc = "new"
  PROVE  EntitiesInv
  BY DEF EntitiesInv, RequestsInv, TablesInv, SeenInv, SeenBy, MergesInv, GatheredInv, UnderWay, At, Live

-----------------------------------------------------------------------------
(* Lemmas about the operators of the model.                                *)

\* The states a score can lead to.
LEMMA TrendStateOf ==
  ASSUME NEW current, NEW peak, NEW inp
  PROVE  T!NextState(current, peak, inp) \in T!TrendStates
  <1>1. \A score, confidence : T!Merited(inp, score, confidence) \in T!TrendStates
    BY DEF T!Merited, T!TrendStates
  <1> QED
    BY <1>1 DEF T!NextState, T!TrendStates

LEMMA OpportunityStateOf ==
  ASSUME NEW a, NEW old, NEW peak
  PROVE  A!StateOf(a, old, peak) \in A!OpportunityStates
  <1>1. \A score, confidence, risk : A!Merited(score, confidence, risk) \in A!OpportunityStates
    BY DEF A!Merited, A!OpportunityStates
  <1> QED
    BY <1>1 DEF A!StateOf, A!NextState, A!OpportunityStates

LEMMA MaxIs ==
  ASSUME NEW S \in SUBSET Int, NEW m \in S, \A y \in S : y <= m
  PROVE  Max(S) = m
  <1>1. \A y \in S : m >= y
    OBVIOUS
  <1>2. PICK x : x = Max(S)
    OBVIOUS
  <1>3. x \in S /\ \A y \in S : x >= y
    BY <1>1, <1>2 DEF Max
  <1> QED
    BY <1>2, <1>3

\* The members of a finite set in some order, each once.
LEMMA SetInOrder ==
  ASSUME NEW S, IsFiniteSet(S)
  PROVE  LET f == SetToSeq(S)
         IN  /\ f \in Seq(S) /\ \A x \in S : \E i \in DOMAIN f : f[i] = x
             /\ \A i, j \in DOMAIN f : f[i] = f[j] => i = j
  <1> DEFINE n == Cardinality(S)
  <1>1. n \in Nat /\ ExistsBijection(1..n, S)
    BY FS_CardinalityType
  <1>2. \E f \in [1..n -> S] : IsInjective(f)
    BY <1>1 DEF ExistsBijection, Bijection, Injection
  <1>3. PICK f : f = SetToSeq(S)
    OBVIOUS
  <1>4. f \in [1..n -> S] /\ IsInjective(f)
    BY <1>2, <1>3 DEF SetToSeq
  <1>5. \A x \in S : \E i \in 1..n : f[i] = x
    <2>1. f \in Injection(1..n, S)
      BY <1>4 DEF Injection
    <2>2. IsFiniteSet(1..n) /\ Cardinality(1..n) = n
      BY <1>1, FS_Interval
    <2>3. f \in Surjection(1..n, S)
      BY <2>1, <2>2, FS_Injection
    <2> QED
      BY <2>3 DEF Surjection
  <1>6. f \in Seq(S) /\ DOMAIN f = 1..n
    BY <1>1, <1>4, FunctionIsTable
  <1> QED
    BY <1>3, <1>4, <1>5, <1>6 DEF IsInjective

\* Rows put after the rows of a table.
LEMMA ExtendedTable ==
  ASSUME NEW S, NEW n \in Nat, NEW f \in [1..n -> S], NEW g \in Seq(S)
  PROVE  /\ f \o g \in Seq(S) /\ DOMAIN (f \o g) = 1..n + Len(g)
         /\ \A i \in 1..n : (f \o g)[i] = f[i]
         /\ \A j \in DOMAIN g : n + j \in DOMAIN (f \o g) /\ (f \o g)[n + j] = g[j]
         /\ \A i \in DOMAIN (f \o g) : i \in 1..n \/ \E j \in DOMAIN g : i = n + j
  <1>1. f \in Seq(S) /\ Len(f) = n /\ DOMAIN f = 1..n
    BY FunctionIsTable
  <1>2. /\ f \o g \in Seq(S) /\ Len(f \o g) = n + Len(g)
        /\ \A i \in 1..n + Len(g) : (f \o g)[i] = IF i <= n THEN f[i] ELSE g[i - n]
    BY <1>1, ConcatProperties
  <1>3. DOMAIN (f \o g) = 1..n + Len(g) /\ DOMAIN g = 1..Len(g) /\ Len(g) \in Nat
    BY <1>2
  <1>4. \A i \in 1..n : (f \o g)[i] = f[i]
    BY <1>2, <1>3
  <1>5. \A j \in DOMAIN g : n + j \in DOMAIN (f \o g) /\ (f \o g)[n + j] = g[j]
    BY <1>2, <1>3
  <1>6. \A i \in DOMAIN (f \o g) : i \in 1..n \/ \E j \in DOMAIN g : i = n + j
    <2> SUFFICES ASSUME NEW i \in DOMAIN (f \o g), i \notin 1..n
                 PROVE  \E j \in DOMAIN g : i = n + j
      OBVIOUS
    <2>1. i \in 1..n + Len(g)
      BY <1>3
    <2>2. i - n \in DOMAIN g /\ i = n + (i - n)
      BY <1>3, <2>1
    <2> QED
      BY <2>2
  <1> QED
    BY <1>2, <1>3, <1>4, <1>5, <1>6

\* One more snapshot: the score is the last one, the peak the highest.
LEMMA SnapshotKept ==
  ASSUME NEW row, NEW next, row.history \in Seq(Int), NEW v \in Int,
         row.history = << >> \/ Kept(row),
         next.history = Append(row.history, v), next.score = v,
         next.peak = IF row.history = << >> \/ v > row.peak THEN v ELSE row.peak
  PROVE  Kept(next)
  <1> DEFINE h == row.history
             g == next.history
  <1>1. /\ g \in Seq(Int) /\ Len(g) = Len(h) + 1 /\ DOMAIN g = DOMAIN h \cup {Len(h) + 1}
        /\ g[Len(h) + 1] = v /\ \A i \in DOMAIN h : g[i] = h[i]
    OBVIOUS
  <1>2. Range(g) = Range(h) \cup {v}
    BY <1>1 DEF Range
  <1>3. g # << >> /\ next.score = Last(g)
    BY <1>1 DEF Last
  <1>4. Range(h) \subseteq Int
    BY DEF Range
  <1>5. CASE h = << >>
    <2>1. Range(h) = {}
      BY <1>5 DEF Range
    <2> QED
      BY <1>2, <1>3, <1>5, <2>1 DEF Kept
  <1>6. CASE h # << >>
    <2>1. row.peak \in Range(h) /\ \A x \in Range(h) : x <= row.peak
      BY <1>6 DEF Kept
    <2> QED
      BY <1>2, <1>3, <1>4, <1>6, <2>1 DEF Kept
  <1> QED
    BY <1>5, <1>6

\* What is kept is what HistoryIsKept says.
LEMMA KeptPeak ==
  ASSUME NEW row, row.history \in Seq(Int), Kept(row)
  PROVE  row.score = Last(row.history) /\ row.peak = Max(Range(row.history))
  <1>1. Range(row.history) \subseteq Int
    BY DEF Range
  <1> QED
    BY <1>1, MaxIs DEF Kept

-----------------------------------------------------------------------------
(* The rows that an evaluation or a generation writes.                     *)

LEMMA UpdatedTrendRow ==
  ASSUME NEW row \in TrendRows, NEW old \in TrendRows, NEW inp \in TrendInputs
  PROVE  LET next == UpdatedTrend(row, old, inp)
         IN  /\ next \in TrendRows /\ next.entity = row.entity
             /\ row = old /\ Kept(row) => Kept(next)
  <1> DEFINE score == T!Score(inp)
             state == T!NextState(old.state, old.peak, inp)
  <1>1. score \in Int /\ state \in T!TrendStates
    BY ScoresAssumption, TrendStateOf
  <1>2. PICK next : next = UpdatedTrend(row, old, inp)
    OBVIOUS
  <1>3. /\ row.entity \in Nat /\ row.state \in T!TrendStates /\ row.score \in Int
        /\ row.peak \in Int /\ row.history \in Seq(Int) /\ old.peak \in Int
    BY DEF TrendRows
  <1>4. Append(row.history, score) \in Seq(Int)
    BY <1>1, <1>3
  <1> HIDE DEF score, state
  <1>5. next = [row EXCEPT !.state = IF state = old.state THEN @ ELSE state,
                           !.score = IF score = old.score THEN @ ELSE score,
                           !.peak = IF score > old.peak THEN score ELSE @,
                           !.history = Append(@, score)]
    BY <1>2 DEF UpdatedTrend, Updated, Peak, score, state
  <1>6. /\ next \in TrendRows /\ next.entity = row.entity
        /\ next.history = Append(row.history, score)
        /\ next.score = IF score = old.score THEN row.score ELSE score
        /\ next.peak = IF score > old.peak THEN score ELSE row.peak
    BY <1>1, <1>3, <1>4, <1>5 DEF TrendRows
  <1>7. row = old /\ Kept(row) => Kept(next)
    <2> SUFFICES ASSUME row = old, Kept(row)
                 PROVE  Kept(next)
      OBVIOUS
    <2>1. row.history # << >>
      BY DEF Kept
    <2> QED
      BY <1>1, <1>3, <1>6, <2>1, SnapshotKept
  <1> QED
    BY <1>2, <1>6, <1>7

LEMMA NewTrendRow ==
  ASSUME NEW e \in Nat, NEW inp \in TrendInputs
  PROVE  LET next == NewTrend(e, inp)
         IN  next \in TrendRows /\ next.entity = e /\ Kept(next)
  <1> DEFINE score == T!Score(inp)
             next == NewTrend(e, inp)
             none == [history |-> << >>]
  <1>1. score \in Int /\ T!NextState("candidate", score, inp) \in T!TrendStates
    BY ScoresAssumption, TrendStateOf
  <1>2. next \in TrendRows /\ next.entity = e
    BY <1>1 DEF NewTrend, TrendRows
  <1>3. next.history = Append(<< >>, score) /\ next.score = score /\ next.peak = score
    BY <1>1 DEF NewTrend
  <1> HIDE DEF next
  <1>4. none.history = << >> /\ none.history \in Seq(Int)
    OBVIOUS
  <1> HIDE DEF none
  <1>5. Kept(next)
    BY <1>1, <1>3, <1>4, SnapshotKept
  <1> QED
    BY <1>2, <1>5 DEF next

LEMMA UpdatedOpportunityRow ==
  ASSUME NEW row \in OpportunityRows, NEW old \in OpportunityRows, NEW a \in Judgements
  PROVE  LET next == UpdatedOpportunity(row, old, a)
         IN  /\ next \in OpportunityRows /\ next.trend = row.trend
             /\ next.events = row.events /\ next.history = Append(row.history, a.score)
             /\ row.score = old.score /\ row.peak = old.peak /\ Kept(row) => Kept(next)
  <1> DEFINE state == A!StateOf(a, old.state, old.peak)
  <1>1. a.score \in Int /\ state \in A!OpportunityStates
    BY ScoresAssumption, OpportunityStateOf
  <1>2. PICK next : next = UpdatedOpportunity(row, old, a)
    OBVIOUS
  <1>3. /\ row.trend \in Nat /\ row.state \in A!OpportunityStates /\ row.score \in Int
        /\ row.peak \in Int /\ row.history \in Seq(Int) /\ row.events \in SUBSET Events
        /\ old.peak \in Int
    BY DEF OpportunityRows
  <1>4. Append(row.history, a.score) \in Seq(Int)
    BY <1>1, <1>3
  <1> HIDE DEF state
  <1>5. next = [row EXCEPT !.state = IF state = old.state THEN @ ELSE state,
                           !.score = IF a.score = old.score THEN @ ELSE a.score,
                           !.peak = IF a.score > old.peak THEN a.score ELSE @,
                           !.history = Append(@, a.score),
                           !.condition = "pending"]
    BY <1>2 DEF UpdatedOpportunity, Updated, Peak, state
  <1>6. /\ next \in OpportunityRows /\ next.trend = row.trend /\ next.events = row.events
        /\ next.history = Append(row.history, a.score)
        /\ next.score = IF a.score = old.score THEN row.score ELSE a.score
        /\ next.peak = IF a.score > old.peak THEN a.score ELSE row.peak
    BY <1>1, <1>3, <1>4, <1>5 DEF OpportunityRows
  <1>7. row.score = old.score /\ row.peak = old.peak /\ Kept(row) => Kept(next)
    <2> SUFFICES ASSUME row.score = old.score, row.peak = old.peak, Kept(row)
                 PROVE  Kept(next)
      OBVIOUS
    <2>1. row.history # << >>
      BY DEF Kept
    <2> QED
      BY <1>1, <1>3, <1>6, <2>1, SnapshotKept
  <1> QED
    BY <1>2, <1>6, <1>7

LEMMA NewOpportunityRow ==
  ASSUME NEW t \in Nat, NEW a \in Judgements
  PROVE  LET next == NewOpportunity(t, a)
         IN  /\ next \in OpportunityRows /\ next.trend = t /\ next.events = {} /\ Kept(next)
  <1> DEFINE next == NewOpportunity(t, a)
             none == [history |-> << >>]
  <1>1. a.score \in Int /\ A!StateOf(a, None, 0) \in A!OpportunityStates
    BY ScoresAssumption, OpportunityStateOf
  <1>2. next \in OpportunityRows /\ next.trend = t /\ next.events = {}
    BY <1>1 DEF NewOpportunity, OpportunityRows
  <1>3. next.history = Append(<< >>, a.score) /\ next.score = a.score /\ next.peak = a.score
    BY <1>1 DEF NewOpportunity
  <1> HIDE DEF next
  <1>4. none.history = << >> /\ none.history \in Seq(Int)
    OBVIOUS
  <1> HIDE DEF none
  <1>5. Kept(next)
    BY <1>1, <1>3, <1>4, SnapshotKept
  <1> QED
    BY <1>2, <1>5 DEF next

-----------------------------------------------------------------------------
(* What a request has seen stays true while others work.                   *)

\* Numbers stay in use, and a row that stays is about what it was about.
TablesGrow ==
    /\ DOMAIN entities \subseteq DOMAIN entities'
    /\ DOMAIN trends \subseteq DOMAIN trends' /\ DOMAIN opportunities \subseteq DOMAIN opportunities'
    /\ \A t \in DOMAIN trends \cap Live(trends') :
          t \in Live(trends) /\ trends'[t].entity = trends[t].entity
    /\ \A o \in DOMAIN opportunities \cap Live(opportunities') :
          o \in Live(opportunities) /\ opportunities'[o].trend = opportunities[o].trend

\* Rows may go, but none comes or is scored again.
TrendsQuiet == \A t \in Live(trends') : t \in Live(trends) /\ trends'[t] = trends[t]
ScoresQuiet ==
    \A o \in Live(opportunities') :
        /\ o \in Live(opportunities)
        /\ opportunities'[o].score = opportunities[o].score /\ opportunities'[o].peak = opportunities[o].peak
        /\ opportunities'[o].history = opportunities[o].history

LEMMA UnchangedQuiet ==
  ASSUME UNCHANGED analysisVars, DOMAIN entities \subseteq DOMAIN entities'
  PROVE  TablesGrow /\ TrendsQuiet /\ ScoresQuiet
  BY DEF analysisVars, TablesGrow, TrendsQuiet, ScoresQuiet, Live

LEMMA AnalysisSeenStays ==
  ASSUME AnalysisSeen, RequestsInv, AnalysisTables, NEW r \in Requests, TablesGrow, AnalysisSeenBy(r)',
         overlap \subseteq overlap', \A q \in Requests \ {r} : requests'[q] = requests[q],
         TrendsQuiet \/ (UnderWay(r) /\ requests[r].kind = "evaluate"),
         ScoresQuiet \/ (UnderWay(r) /\ requests[r].kind = "generate")
  PROVE  AnalysisSeen'
  <1> SUFFICES ASSUME NEW q \in Requests, q # r
               PROVE  AnalysisSeenBy(q)'
    BY DEF AnalysisSeen
  <1> DEFINE s == requests[q].seen
  <1>1. AnalysisSeenBy(q) /\ requests'[q] = requests[q]
    BY DEF AnalysisSeen
  <1>2. UnderWay(q) /\ UnderWay(r) => {requests[q].kind, requests[r].kind} \in overlap'
    BY DEF RequestsInv
  <1>3. \A k : {k, k} = {k}
    OBVIOUS
  <1>4. ASSUME At(q, "evaluate", "read"), EvaluateSeen(s)
        PROVE  EvaluateSeen(requests[q].seen)'
    <2>1. TrendsQuiet \/ {"evaluate"} \in overlap'
      BY <1>2, <1>3, <1>4 DEF At, UnderWay
    <2>2. {"evaluate"} \notin overlap' =>
            /\ \A t \in DOMAIN s.rows \cap Live(trends') : trends'[t] = s.rows[t]
            /\ \A t \in Live(trends') : trends'[t].entity \in DOMAIN s.inputs => t \in DOMAIN s.rows
      BY <1>4, <2>1 DEF TrendsQuiet, EvaluateSeen
    <2>3. \A t \in DOMAIN s.rows \cap Live(trends') : trends'[t].entity = s.rows[t].entity
      BY <1>4 DEF TablesGrow, EvaluateSeen
    <2> QED
      BY <1>1, <1>4, <2>2, <2>3 DEF EvaluateSeen, TablesGrow
  <1>5. ASSUME At(q, "generate", "read"), GenerateSeen(s)
        PROVE  GenerateSeen(requests[q].seen)'
    <2>1. ScoresQuiet \/ {"generate"} \in overlap'
      BY <1>2, <1>3, <1>5 DEF At, UnderWay
    <2>2. {"generate"} \notin overlap' =>
            \A o \in DOMAIN s.rows \cap Live(opportunities') :
                opportunities'[o].score = s.rows[o].score /\ opportunities'[o].peak = s.rows[o].peak
      BY <1>5, <2>1 DEF ScoresQuiet, GenerateSeen
    <2>3. \A o \in DOMAIN s.rows \cap Live(opportunities') : opportunities'[o].trend = s.rows[o].trend
      BY <1>5 DEF TablesGrow, GenerateSeen
    <2> QED
      BY <1>1, <1>5, <2>2, <2>3 DEF GenerateSeen, TablesGrow
  <1>6. Calm' => Calm
    BY DEF Calm
  <1>7. ASSUME requests[q].kind = "monitor", UnderWay(q), Calm'
        PROVE  ScoresQuiet
    <2>1. {"monitor", "generate"} \notin overlap'
      BY <1>7 DEF Calm
    <2> QED
      BY <1>2, <1>7, <2>1
  <1>8. ASSUME At(q, "monitor", "read"), MonitorSeen(s)
        PROVE  MonitorSeen(requests[q].seen)'
    <2>1. Calm' => /\ Live(opportunities') \subseteq DOMAIN s.rows
                   /\ \A o \in Live(opportunities') : s.rows[o].score = Last(opportunities'[o].history)
      BY <1>6, <1>7, <1>8 DEF At, UnderWay, MonitorSeen, ScoresQuiet
    <2>2. (\A o \in DOMAIN s.rows : s.rows[o] \in OpportunityRows) /\ DOMAIN s.rows \subseteq DOMAIN opportunities'
      BY <1>8 DEF MonitorSeen, TablesGrow
    <2> QED
      BY <1>1, <2>1, <2>2 DEF MonitorSeen
  <1>9. ASSUME At(q, "monitor", "gathered"), CheckedSeen(s)
        PROVE  CheckedSeen(requests[q].seen)'
    <2>1. Calm' => /\ Live(opportunities') \subseteq DOMAIN s.checked
                   /\ \A o \in Live(opportunities') :
                         ScoreEvents(s.checked[o].events) = DueEvents(opportunities'[o].history)
      BY <1>6, <1>7, <1>9 DEF At, UnderWay, CheckedSeen, ScoresQuiet
    <2>2. DOMAIN s.checked \subseteq DOMAIN opportunities'
          /\ \A o \in DOMAIN s.checked :
                s.checked[o].verdict \in Verdicts /\ s.checked[o].events \subseteq Events
      BY <1>9 DEF CheckedSeen, TablesGrow
    <2> QED
      BY <1>1, <2>1, <2>2 DEF CheckedSeen
  <1> QED
    BY <1>1, <1>4, <1>5, <1>8, <1>9 DEF AnalysisSeenBy, At

\* A step that leaves the trends and opportunities alone.
LEMMA QuietAnalysis ==
  ASSUME AnalysisInv, EntitiesInv', UNCHANGED analysisVars, NEW r \in Requests, AnalysisSeenBy(r)',
         DOMAIN entities \subseteq DOMAIN entities', Live(entities) \subseteq Live(entities'),
         overlap \subseteq overlap', \A q \in Requests \ {r} : requests'[q] = requests[q]
  PROVE  AnalysisInv'
  <1>1. AnalysisTables'
    BY DEF AnalysisInv, AnalysisTables, analysisVars, Live
  <1>2. AnalysisSeen'
    BY UnchangedQuiet, AnalysisSeenStays DEF AnalysisInv, EntitiesInv
  <1>3. TrendsKept' /\ OpportunitiesKept'
    BY DEF AnalysisInv, TrendsKept, OpportunitiesKept, analysisVars, Live
  <1>4. EventsKept'
    <2>1. Calm' => Calm
      BY DEF Calm
    <2> QED
      BY <2>1 DEF AnalysisInv, EventsKept, analysisVars, Live
  <1> QED
    BY <1>1, <1>2, <1>3, <1>4 DEF AnalysisInv

\* The requests that are not about entities, and those that end.
LEMMA QuietEntities ==
  ASSUME EntitiesInv, UNCHANGED entityVars, NEW r \in Requests, NEW kind, NEW to, NEW seen,
         StepOf(r, kind, to, seen), RequestsInv',
         kind \notin {"collect", "decide"} \/ to \in {"done", "failed"}
  PROVE  EntitiesInv'
  <1>1. SeenBy(r)' /\ ~At(r, "decide", "gathered")'
    BY DEF StepOf, SeenBy, At
  <1> QED
    BY <1>1, QuietStep DEF StepOf

LEMMA EndedSeen ==
  ASSUME NEW r \in Requests, NEW kind \in Kinds, NEW to \in {"done", "failed"}, NEW seen,
         StepOf(r, kind, to, seen)
  PROVE  AnalysisSeenBy(r)'
  BY DEF StepOf, AnalysisSeenBy, At

\* A request that ends without a trace.
LEMMA LostKeeps ==
  ASSUME AnalysisInv, NEW r \in Requests, NEW kind \in Kinds, NEW pc,
         Ends(r, kind, pc, "failed"), UNCHANGED <<entityVars, analysisVars>>
  PROVE  AnalysisInv'
  <1>1. StepOf(r, kind, "failed", None) /\ RequestsInv' /\ overlap' = overlap
    BY LaterStep DEF AnalysisInv, EntitiesInv
  <1>2. EntitiesInv'
    BY <1>1, QuietEntities DEF AnalysisInv
  <1>3. AnalysisSeenBy(r)'
    BY <1>1, EndedSeen
  <1>4. UNCHANGED <<entities, analysisVars>>
    BY DEF entityVars
  <1> QED
    BY <1>1, <1>2, <1>3, <1>4, QuietAnalysis DEF StepOf, Live

\* The steps of collections and rulings that delete nothing.
LEMMA EntityStepKeeps ==
  ASSUME AnalysisInv, NEW r \in Requests, UNCHANGED analysisVars,
         \/ Collect(r) \/ CollectCommit(r) \/ CollectFails(r)
         \/ Decide(r) \/ DecideGather(r) \/ DecideClashes(r) \/ DecideFails(r)
  PROVE  AnalysisInv'
  <1>1. EntitiesInv'
    BY CollectKeeps, CollectCommitKeeps, DecideKeeps, DecideGatherKeeps, FailureKeeps DEF AnalysisInv
  <1>2. DOMAIN entities \subseteq DOMAIN entities' /\ Live(entities) \subseteq Live(entities')
    <2>1. CASE CollectCommit(r)
      BY <2>1, CollectGrows DEF AnalysisInv, Grows
    <2>2. CASE ~CollectCommit(r)
      <3>1. UNCHANGED entityVars
        BY <2>2 DEF Collect, CollectFails, Decide, DecideGather, DecideClashes, DecideFails
      <3> QED
        BY <3>1 DEF entityVars, Live
    <2> QED
      BY <2>1, <2>2
  <1>3. \E kind \in {"collect", "decide"}, to \in {"read", "gathered", "done", "failed"} :
            \E seen : StepOf(r, kind, to, seen)
    <2>0. RequestsInv
      BY DEF AnalysisInv, EntitiesInv
    <2>1. ASSUME NEW kind \in {"collect", "decide"}, NEW seen, Reads(r, kind, seen)
          PROVE  StepOf(r, kind, "read", seen)
      BY <2>0, <2>1, ReadsStep
    <2>2. ASSUME NEW kind \in {"collect", "decide"}, NEW pc, NEW to \in {"done", "failed"}, Ends(r, kind, pc, to)
          PROVE  StepOf(r, kind, to, None)
      BY <2>0, <2>2, LaterStep
    <2>3. ASSUME NEW seen, ReadsOn(r, "decide", seen)
          PROVE  StepOf(r, "decide", "gathered", seen)
      BY <2>0, <2>3, LaterStep
    <2>4. CASE Collect(r)
      BY <2>1, <2>4 DEF Collect
    <2>5. CASE Decide(r)
      BY <2>1, <2>5 DEF Decide
    <2>6. CASE DecideGather(r)
      BY <2>3, <2>6 DEF DecideGather
    <2>7. CASE CollectCommit(r) \/ CollectFails(r) \/ DecideClashes(r) \/ DecideFails(r)
      <3>1. \/ Ends(r, "collect", "read", "done") \/ Ends(r, "collect", "read", "failed")
            \/ Ends(r, "decide", "read", "failed") \/ Ends(r, "decide", "gathered", "failed")
        BY <2>7 DEF CollectCommit, CollectFails, DecideClashes, DecideFails
      <3> QED
        BY <2>2, <3>1
    <2> QED
      BY <2>4, <2>5, <2>6, <2>7
  <1>4. AnalysisSeenBy(r)'
    BY <1>3 DEF StepOf, AnalysisSeenBy, At, Kinds
  <1> QED
    BY <1>1, <1>2, <1>3, <1>4, QuietAnalysis DEF StepOf

-----------------------------------------------------------------------------
(* What an evaluation, a generation and a monitor pass read.               *)

\* A request of the analysis that has read: what remains is what it has seen.
LEMMA ReadingKeeps ==
  ASSUME AnalysisInv, NEW r \in Requests, NEW kind \in {"evaluate", "generate", "monitor"}, NEW seen,
         UNCHANGED <<entityVars, analysisVars>>,
         Reads(r, kind, seen) \/ ReadsOn(r, kind, seen), AnalysisSeenBy(r)'
  PROVE  AnalysisInv'
  <1>1. PICK to \in {"read", "gathered"} : StepOf(r, kind, to, seen) /\ RequestsInv'
    BY ReadsStep, LaterStep DEF AnalysisInv, EntitiesInv
  <1>2. EntitiesInv'
    BY <1>1, QuietEntities DEF AnalysisInv
  <1>3. UNCHANGED <<entities, analysisVars>>
    BY DEF entityVars
  <1> QED
    BY <1>1, <1>2, <1>3, QuietAnalysis DEF StepOf, Live

LEMMA EvaluateKeeps ==
  ASSUME AnalysisInv, NEW r \in Requests, Evaluate(r)
  PROVE  AnalysisInv'
  <1> DEFINE read == UNION {TrendsOf(e) : e \in Subjects}
  <1>1. PICK inputs \in [Subjects -> TrendInputs] :
            Reads(r, "evaluate", [inputs |-> inputs, rows |-> Copy(trends, read)])
    BY DEF Evaluate
  <1>2. PICK s : s = [inputs |-> inputs, rows |-> Copy(trends, read)]
    OBVIOUS
  <1>3. UNCHANGED <<entityVars, analysisVars>>
    BY DEF Evaluate
  <1>4. StepOf(r, "evaluate", "read", s)
    BY <1>1, <1>2, ReadsStep DEF AnalysisInv, EntitiesInv
  <1>5. /\ DOMAIN s.inputs = Subjects /\ \A e \in Subjects : s.inputs[e] \in TrendInputs
        /\ DOMAIN s.rows = read /\ \A t \in read : s.rows[t] = trends[t]
    BY <1>2 DEF Copy
  <1>6. Subjects \subseteq DOMAIN entities
    BY DEF AnalysisInv, EntitiesInv, TablesInv, Subjects, Live
  <1>7. \A t : t \in read <=> t \in Live(trends) /\ trends[t].entity \in Subjects
    BY DEF TrendsOf
  <1>8. \A t \in Live(trends) : t \in DOMAIN trends /\ trends[t] \in TrendRows
    BY DEF AnalysisInv, AnalysisTables, Live
  <1> HIDE DEF read
  <1>9. EvaluateSeen(requests[r].seen)'
    <2>1. requests'[r].seen = s /\ overlap \subseteq overlap' /\ UNCHANGED <<entities, trends>>
      BY <1>3, <1>4 DEF StepOf, entityVars, analysisVars
    <2> QED
      BY <1>5, <1>6, <1>7, <1>8, <2>1 DEF EvaluateSeen, Live
  <1>10. AnalysisSeenBy(r)'
    BY <1>4, <1>9 DEF StepOf, AnalysisSeenBy, At, Kinds
  <1> QED
    BY <1>1, <1>2, <1>3, <1>10, ReadingKeeps

LEMMA GenerateKeeps ==
  ASSUME AnalysisInv, NEW r \in Requests, Generate(r)
  PROVE  AnalysisInv'
  <1> DEFINE eligible == {t \in Live(trends) : trends[t].state \in A!EligibleTrendStates}
  <1>1. PICK judged \in [eligible -> Judgements] :
            LET kept == {t \in eligible : A!Stored(judged[t])}
            IN  Reads(r, "generate",
                      [judged |-> [t \in kept |-> judged[t]],
                       rows |-> Copy(opportunities, UNION {OpportunitiesOf(t) : t \in kept})])
    BY DEF Generate
  <1>2. PICK kept : kept = {t \in eligible : A!Stored(judged[t])}
    OBVIOUS
  <1> DEFINE read == UNION {OpportunitiesOf(t) : t \in kept}
  <1>3. PICK s : s = [judged |-> [t \in kept |-> judged[t]], rows |-> Copy(opportunities, read)]
    OBVIOUS
  <1>4. Reads(r, "generate", s)
    BY <1>1, <1>2, <1>3
  <1>5. UNCHANGED <<entityVars, analysisVars>>
    BY DEF Generate
  <1>6. StepOf(r, "generate", "read", s)
    BY <1>4, ReadsStep DEF AnalysisInv, EntitiesInv
  <1>7. kept \subseteq Live(trends) /\ \A t \in kept : judged[t] \in Judgements
    BY <1>2
  <1>8. /\ DOMAIN s.judged = kept /\ \A t \in kept : s.judged[t] = judged[t]
        /\ DOMAIN s.rows = read /\ \A o \in read : s.rows[o] = opportunities[o]
    BY <1>3 DEF Copy
  <1>9. \A o : o \in read <=> o \in Live(opportunities) /\ opportunities[o].trend \in kept
    BY DEF OpportunitiesOf
  <1>10. \A o \in Live(opportunities) : o \in DOMAIN opportunities /\ opportunities[o] \in OpportunityRows
    BY DEF AnalysisInv, AnalysisTables, Live
  <1> HIDE DEF read, eligible
  <1>11. GenerateSeen(requests[r].seen)'
    <2>1. requests'[r].seen = s /\ UNCHANGED <<trends, opportunities>>
      BY <1>5, <1>6 DEF StepOf, analysisVars
    <2>2. kept \subseteq DOMAIN trends
      BY <1>7 DEF Live
    <2> QED
      BY <1>7, <1>8, <1>9, <1>10, <2>1, <2>2 DEF GenerateSeen
  <1>12. AnalysisSeenBy(r)'
    BY <1>6, <1>11 DEF StepOf, AnalysisSeenBy, At, Kinds
  <1> QED
    BY <1>4, <1>5, <1>12, ReadingKeeps

LEMMA MonitorKeeps ==
  ASSUME AnalysisInv, NEW r \in Requests, Monitor(r)
  PROVE  AnalysisInv'
  <1>1. PICK s : s = [rows |-> Copy(opportunities, Live(opportunities))]
    OBVIOUS
  <1>2. Reads(r, "monitor", s) /\ UNCHANGED <<entityVars, analysisVars>>
    BY <1>1 DEF Monitor
  <1>3. StepOf(r, "monitor", "read", s)
    BY <1>2, ReadsStep DEF AnalysisInv, EntitiesInv
  <1>4. DOMAIN s.rows = Live(opportunities) /\ \A o \in Live(opportunities) : s.rows[o] = opportunities[o]
    BY <1>1 DEF Copy
  <1>5. \A o \in Live(opportunities) : o \in DOMAIN opportunities /\ opportunities[o] \in OpportunityRows
    BY DEF AnalysisInv, AnalysisTables, Live
  <1>6. Calm' => \A o \in Live(opportunities) : opportunities[o].score = Last(opportunities[o].history)
    <2>1. Calm' => {"generate"} \notin overlap
      BY <1>3 DEF Calm, StepOf
    <2> QED
      BY <2>1 DEF AnalysisInv, OpportunitiesKept, Kept
  <1>7. MonitorSeen(requests[r].seen)'
    <2>1. requests'[r].seen = s /\ UNCHANGED opportunities
      BY <1>2, <1>3 DEF StepOf, analysisVars
    <2> QED
      BY <1>4, <1>5, <1>6, <2>1 DEF MonitorSeen, Live
  <1>8. AnalysisSeenBy(r)'
    BY <1>3, <1>7 DEF StepOf, AnalysisSeenBy, At, Kinds
  <1> QED
    BY <1>2, <1>8, ReadingKeeps

\* Compared with the snapshots as they are now, a row whose score is that of the
\* newest tells of exactly what is due.
LEMMA ChangesAreDue ==
  ASSUME NEW row \in OpportunityRows, NEW now \in OpportunityRows, NEW verdict
  PROVE  LET events == DetectChanges(row, now, verdict)
         IN  /\ events \subseteq Events
             /\ row.score = Last(now.history) => ScoreEvents(events) = DueEvents(now.history)
  <1> DEFINE h == now.history
             n == Len(h)
             old == LastSnapshot(h)
             told == IF old # None /\ Moved(old, row.score)
                     THEN {[kind |-> IF row.score > old THEN "score_rose" ELSE "score_fell",
                            old |-> old, new |-> row.score, at |-> n]} ELSE {}
             met == IF verdict = "met" /\ now.condition # "met"
                    THEN {[kind |-> "confirmation_met", at |-> n]} ELSE {}
             events == DetectChanges(row, now, verdict)
  <1>1. row.score \in Int /\ h \in Seq(Int) /\ n \in Nat
    BY DEF OpportunityRows
  <1>2. None \notin Int
    BY RowsAssumption
  <1>3. old = IF n < 2 THEN None ELSE h[n - 1]
    BY DEF LastSnapshot
  <1>4. n >= 2 => h[n - 1] \in Int
    BY <1>1
  <1>5. old # None => old \in Int /\ n > 1
    BY <1>1, <1>3, <1>4
  <1>6. events = told \cup met
    BY DEF DetectChanges
  <1>7. told \subseteq Events
    BY <1>1, <1>5 DEF Events
  <1>8. met \subseteq Events
    BY <1>1 DEF Events
  <1>9. \A e \in met : e.kind = "confirmation_met"
    OBVIOUS
  <1>10. \A e \in told : e.kind # "confirmation_met"
    OBVIOUS
  <1>11. row.score = Last(h) => told = DueEvents(h)
    <2> SUFFICES ASSUME row.score = h[n]
                 PROVE  told = DueEvents(h)
      BY DEF Last
    <2>1. old # None <=> n > 1
      BY <1>1, <1>2, <1>3, <1>4
    <2> QED
      BY <1>1, <1>3, <2>1 DEF DueEvents
  <1> HIDE DEF told, met, events
  <1>12. ScoreEvents(events) = told
    BY <1>6, <1>9, <1>10 DEF ScoreEvents
  <1> QED
    BY <1>6, <1>7, <1>8, <1>11, <1>12 DEF events

LEMMA MonitorCheckKeeps ==
  ASSUME AnalysisInv, NEW r \in Requests, MonitorCheck(r)
  PROVE  AnalysisInv'
  <1> DEFINE rows == requests[r].seen.rows
             found == DOMAIN rows \cap Live(opportunities)
             checked(verdicts) ==
                 [o \in found |->
                     [at |-> Len(opportunities[o].history), condition |-> opportunities[o].condition,
                      verdict |-> verdicts[o],
                      events |-> DetectChanges(rows[o], opportunities[o], verdicts[o])]]
  <1>1. PICK verdicts \in [found -> Verdicts] : ReadsOn(r, "monitor", [checked |-> checked(verdicts)])
    BY DEF MonitorCheck
  <1>2. PICK s : s = [checked |-> checked(verdicts)]
    OBVIOUS
  <1>3. ReadsOn(r, "monitor", s) /\ UNCHANGED <<entityVars, analysisVars>>
    BY <1>1, <1>2 DEF MonitorCheck
  <1>4. StepOf(r, "monitor", "gathered", s) /\ overlap' = overlap
    BY <1>3, LaterStep DEF AnalysisInv, EntitiesInv
  <1>5. MonitorSeen(requests[r].seen)
    BY DEF MonitorCheck, AnalysisInv, AnalysisSeen, AnalysisSeenBy
  <1>6. \A o \in Live(opportunities) : o \in DOMAIN opportunities /\ opportunities[o] \in OpportunityRows
    BY DEF AnalysisInv, AnalysisTables, Live
  <1>7. /\ DOMAIN s.checked = found
        /\ \A o \in found :
              /\ s.checked[o].verdict = verdicts[o]
              /\ s.checked[o].events = DetectChanges(rows[o], opportunities[o], verdicts[o])
    BY <1>2
  <1>8. \A o \in found : s.checked[o].verdict \in Verdicts /\ s.checked[o].events \subseteq Events
    BY <1>5, <1>6, <1>7, ChangesAreDue DEF MonitorSeen
  <1>9. Calm => /\ Live(opportunities) \subseteq found
                /\ \A o \in Live(opportunities) :
                      ScoreEvents(s.checked[o].events) = DueEvents(opportunities[o].history)
    BY <1>5, <1>6, <1>7, ChangesAreDue DEF MonitorSeen
  <1>10. CheckedSeen(requests[r].seen)'
    <2>1. requests'[r].seen = s /\ UNCHANGED <<opportunities, overlap>>
      BY <1>3, <1>4 DEF StepOf, analysisVars
    <2>2. found \subseteq DOMAIN opportunities
      BY DEF Live
    <2> HIDE DEF found
    <2> QED
      BY <1>7, <1>8, <1>9, <2>1, <2>2 DEF CheckedSeen, Live, Calm
  <1>11. AnalysisSeenBy(r)'
    BY <1>4, <1>10 DEF StepOf, AnalysisSeenBy, At, Kinds
  <1> QED
    BY <1>3, <1>11, ReadingKeeps

-----------------------------------------------------------------------------
(* What an evaluation, a generation and a monitor pass write.              *)

\* The trends after an evaluation: those it has read are updated, one is added for
\* each subject that had none.
LEMMA EvaluatedRows ==
  ASSUME AnalysisInv, NEW r \in Requests, EvaluateCommit(r)
  PROVE  LET s == requests[r].seen
             new == Unseen(s)
         IN  /\ EvaluateSeen(s) /\ DOMAIN s.rows \subseteq Live(trends)
             /\ DOMAIN s.inputs \subseteq Live(entities)
             /\ \A i \in DOMAIN new : new[i] \in DOMAIN s.inputs
                                      /\ \A t \in DOMAIN s.rows : s.rows[t].entity # new[i]
             /\ \A i, j \in DOMAIN new : new[i] = new[j] => i = j
             /\ trends' \in Seq(TrendRows \cup {None})
             /\ DOMAIN trends \subseteq DOMAIN trends'
             /\ \A t \in DOMAIN trends :
                   trends'[t] = IF t \in DOMAIN s.rows
                                THEN UpdatedTrend(trends[t], s.rows[t], s.inputs[s.rows[t].entity])
                                ELSE trends[t]
             /\ \A t \in DOMAIN trends' :
                   \/ t \in DOMAIN trends
                   \/ \E i \in DOMAIN new : t = Len(trends) + i
                                            /\ trends'[t] = NewTrend(new[i], s.inputs[new[i]])
  <1> DEFINE s == requests[r].seen
             new == Unseen(s)
             unseen == {e \in DOMAIN s.inputs : \A t \in DOMAIN s.rows : s.rows[t].entity # e}
             updated(t) == IF t \in DOMAIN s.rows
                           THEN UpdatedTrend(trends[t], s.rows[t], s.inputs[s.rows[t].entity])
                           ELSE trends[t]
  <1>1. /\ EvaluateSeen(s) /\ DOMAIN s.rows \subseteq Live(trends)
        /\ DOMAIN s.inputs \subseteq Live(entities)
    BY DEF AnalysisInv, AnalysisSeen, AnalysisSeenBy, EvaluateCommit, EvaluateConflicts, Ends
  <1>2. trends \in Seq(TrendRows \cup {None}) /\ entities \in Seq(EntityRows \cup {None})
    BY DEF AnalysisInv, AnalysisTables, EntitiesInv, TablesInv
  <1>3. IsFiniteSet(unseen) /\ unseen \subseteq Nat
    <2>1. IsFiniteSet(1..Len(entities))
      BY <1>2, FS_Interval
    <2>2. unseen \in SUBSET (1..Len(entities))
      BY <1>1, <1>2 DEF EvaluateSeen
    <2> QED
      BY <2>1, <2>2, FS_Subset
  <1>4. /\ new \in Seq(unseen) /\ \A i, j \in DOMAIN new : new[i] = new[j] => i = j
    BY <1>3, SetInOrder DEF Unseen
  <1>5. \A i \in DOMAIN new : new[i] \in unseen
    BY <1>4
  <1> DEFINE f == [t \in DOMAIN trends |-> updated(t)]
             g == [i \in DOMAIN new |-> NewTrend(new[i], s.inputs[new[i]])]
  <1>6. \A t \in DOMAIN trends : updated(t) \in TrendRows \cup {None}
    <2> SUFFICES ASSUME NEW t \in DOMAIN trends, t \in DOMAIN s.rows
                 PROVE  updated(t) \in TrendRows
      BY <1>2
    <2>1. trends[t] \in TrendRows
      BY <1>1, <1>2 DEF Live
    <2>2. s.rows[t] \in TrendRows /\ s.inputs[s.rows[t].entity] \in TrendInputs
      BY <1>1 DEF EvaluateSeen
    <2> QED
      BY <2>1, <2>2, UpdatedTrendRow
  <1>7. f \in [1..Len(trends) -> TrendRows \cup {None}] /\ Len(trends) \in Nat
        /\ DOMAIN trends = 1..Len(trends)
    BY <1>2, <1>6
  <1>8. g \in Seq(TrendRows \cup {None}) /\ DOMAIN g = DOMAIN new
    <2>1. \A i \in DOMAIN new : NewTrend(new[i], s.inputs[new[i]]) \in TrendRows
      BY <1>1, <1>3, <1>5, NewTrendRow DEF EvaluateSeen
    <2>2. DOMAIN new = 1..Len(new) /\ Len(new) \in Nat
      BY <1>4
    <2>3. g \in [1..Len(new) -> TrendRows \cup {None}]
      BY <2>1, <2>2
    <2> QED
      BY <2>2, <2>3, FunctionIsTable
  <1>9. trends' = f \o g
    BY DEF EvaluateCommit
  <1>10. /\ \A t \in DOMAIN trends : f[t] = updated(t)
         /\ \A i \in DOMAIN new : g[i] = NewTrend(new[i], s.inputs[new[i]])
    OBVIOUS
  <1>11. \A i \in DOMAIN new : new[i] \in DOMAIN s.inputs
                                /\ \A t \in DOMAIN s.rows : s.rows[t].entity # new[i]
    BY <1>5
  <1> HIDE DEF f, g, new, unseen, updated
  <1>12. /\ trends' \in Seq(TrendRows \cup {None})
         /\ DOMAIN trends' = 1..Len(trends) + Len(g)
         /\ \A i \in 1..Len(trends) : trends'[i] = f[i]
         /\ \A j \in DOMAIN g : Len(trends) + j \in DOMAIN trends' /\ trends'[Len(trends) + j] = g[j]
         /\ \A i \in DOMAIN trends' : i \in 1..Len(trends) \/ \E j \in DOMAIN g : i = Len(trends) + j
    <2> DEFINE n == Len(trends)
    <2>1. n \in Nat /\ f \in [1..n -> TrendRows \cup {None}] /\ g \in Seq(TrendRows \cup {None})
      BY <1>7, <1>8
    <2> HIDE DEF n
    <2>2. /\ f \o g \in Seq(TrendRows \cup {None}) /\ DOMAIN (f \o g) = 1..n + Len(g)
          /\ \A i \in 1..n : (f \o g)[i] = f[i]
          /\ \A j \in DOMAIN g : n + j \in DOMAIN (f \o g) /\ (f \o g)[n + j] = g[j]
          /\ \A i \in DOMAIN (f \o g) : i \in 1..n \/ \E j \in DOMAIN g : i = n + j
      BY <2>1, ExtendedTable
    <2> QED
      BY <1>9, <2>2 DEF n
  <1>13. DOMAIN trends \subseteq DOMAIN trends'
    BY <1>7, <1>8, <1>12
  <1>14. \A t \in DOMAIN trends : trends'[t] = updated(t)
    BY <1>7, <1>10, <1>12
  <1>15. \A t \in DOMAIN trends' :
            \/ t \in DOMAIN trends
            \/ \E i \in DOMAIN new : t = Len(trends) + i
                                     /\ trends'[t] = NewTrend(new[i], s.inputs[new[i]])
    BY <1>7, <1>8, <1>10, <1>12
  <1> QED
    BY <1>1, <1>4, <1>11, <1>12, <1>13, <1>14, <1>15 DEF new, updated

LEMMA EvaluateCommitKeeps ==
  ASSUME AnalysisInv, NEW r \in Requests, EvaluateCommit(r)
  PROVE  AnalysisInv'
  <1> DEFINE s == requests[r].seen
             new == Unseen(s)
  <1>1. /\ EvaluateSeen(s) /\ DOMAIN s.rows \subseteq Live(trends)
        /\ DOMAIN s.inputs \subseteq Live(entities)
        /\ \A i \in DOMAIN new : new[i] \in DOMAIN s.inputs
                                 /\ \A t \in DOMAIN s.rows : s.rows[t].entity # new[i]
        /\ \A i, j \in DOMAIN new : new[i] = new[j] => i = j
        /\ trends' \in Seq(TrendRows \cup {None})
        /\ DOMAIN trends \subseteq DOMAIN trends'
        /\ \A t \in DOMAIN trends :
              trends'[t] = IF t \in DOMAIN s.rows
                           THEN UpdatedTrend(trends[t], s.rows[t], s.inputs[s.rows[t].entity])
                           ELSE trends[t]
        /\ \A t \in DOMAIN trends' :
              \/ t \in DOMAIN trends
              \/ \E i \in DOMAIN new : t = Len(trends) + i
                                       /\ trends'[t] = NewTrend(new[i], s.inputs[new[i]])
    BY EvaluatedRows
  <1> HIDE DEF new
  <1>2. Ends(r, "evaluate", "read", "done") /\ UNCHANGED <<entityVars, opportunities>>
    BY DEF EvaluateCommit
  <1>3. StepOf(r, "evaluate", "done", None) /\ RequestsInv' /\ At(r, "evaluate", "read") /\ overlap' = overlap
    BY <1>2, LaterStep DEF AnalysisInv, EntitiesInv
  <1>4. EntitiesInv'
    BY <1>2, <1>3, QuietEntities DEF AnalysisInv
  <1>5. UNCHANGED entities
    BY <1>2 DEF entityVars
  <1>6. /\ trends \in Seq(TrendRows \cup {None}) /\ entities \in Seq(EntityRows \cup {None})
        /\ None \notin TrendRows
    BY RowsAssumption DEF AnalysisInv, AnalysisTables, EntitiesInv, TablesInv
  <1>7. \A t \in Live(trends) : trends[t] \in TrendRows /\ t \in DOMAIN trends
    BY <1>6 DEF Live
  \* A row that was there: updated or as it was.
  <1>8. \A t \in Live(trends) :
            /\ t \in Live(trends') /\ trends'[t].entity = trends[t].entity
            /\ t \notin DOMAIN s.rows => trends'[t] = trends[t]
            /\ t \in DOMAIN s.rows /\ trends[t] = s.rows[t] /\ Kept(trends[t]) => Kept(trends'[t])
    <2> SUFFICES ASSUME NEW t \in Live(trends)
                 PROVE  /\ t \in Live(trends') /\ trends'[t].entity = trends[t].entity
                        /\ t \notin DOMAIN s.rows => trends'[t] = trends[t]
                        /\ t \in DOMAIN s.rows /\ trends[t] = s.rows[t] /\ Kept(trends[t]) => Kept(trends'[t])
      OBVIOUS
    <2>1. CASE t \in DOMAIN s.rows
      <3>1. s.rows[t] \in TrendRows /\ s.inputs[s.rows[t].entity] \in TrendInputs
        BY <1>1, <2>1 DEF EvaluateSeen
      <3>2. /\ trends'[t] \in TrendRows /\ trends'[t].entity = trends[t].entity
            /\ trends[t] = s.rows[t] /\ Kept(trends[t]) => Kept(trends'[t])
        <4> DEFINE row == trends[t]
                   old == s.rows[t]
                   inp == s.inputs[old.entity]
        <4>1. row \in TrendRows /\ old \in TrendRows /\ inp \in TrendInputs
          BY <1>7, <3>1
        <4>2. trends'[t] = UpdatedTrend(row, old, inp)
          BY <1>1, <1>7, <2>1
        <4> HIDE DEF row, old, inp
        <4>3. /\ trends'[t] \in TrendRows /\ trends'[t].entity = row.entity
              /\ row = old /\ Kept(row) => Kept(trends'[t])
          BY <4>1, <4>2, UpdatedTrendRow
        <4> QED
          BY <4>3 DEF row, old
      <3> QED
        BY <1>1, <1>6, <1>7, <2>1, <3>2 DEF Live
    <2>2. CASE t \notin DOMAIN s.rows
      BY <1>1, <1>6, <1>7, <2>2 DEF Live
    <2> QED
      BY <2>1, <2>2
  <1>9. \A t \in Live(trends') : t \in DOMAIN trends => t \in Live(trends)
    BY <1>1 DEF Live
  \* A row that is new.
  <1>10. \A t \in Live(trends') : t \notin DOMAIN trends =>
            \E i \in DOMAIN new : /\ t = Len(trends) + i /\ trends'[t].entity = new[i]
                                  /\ new[i] \in Live(entities) /\ Kept(trends'[t])
    <2> SUFFICES ASSUME NEW t \in Live(trends'), t \notin DOMAIN trends
                 PROVE  \E i \in DOMAIN new : /\ t = Len(trends) + i /\ trends'[t].entity = new[i]
                                              /\ new[i] \in Live(entities) /\ Kept(trends'[t])
      OBVIOUS
    <2>1. PICK i \in DOMAIN new : t = Len(trends) + i
                                  /\ trends'[t] = NewTrend(new[i], s.inputs[new[i]])
      BY <1>1 DEF Live
    <2>2. new[i] \in Live(entities) /\ s.inputs[new[i]] \in TrendInputs /\ new[i] \in Nat
      BY <1>1, <1>6 DEF EvaluateSeen, Live
    <2> QED
      BY <2>1, <2>2, NewTrendRow
  <1>11. AnalysisTables'
    <2>1. \A t \in Live(trends') : trends'[t].entity \in Live(entities')
      BY <1>5, <1>8, <1>9, <1>10 DEF AnalysisInv, AnalysisTables
    <2>2. \A o \in Live(opportunities') : opportunities'[o].trend \in Live(trends')
      BY <1>2, <1>8 DEF AnalysisInv, AnalysisTables
    <2> QED
      BY <1>1, <1>2, <2>1, <2>2 DEF AnalysisInv, AnalysisTables
  <1>12. AnalysisSeen'
    <2>1. TablesGrow /\ ScoresQuiet
      BY <1>1, <1>2, <1>5, <1>8, <1>9 DEF TablesGrow, ScoresQuiet
    <2>2. AnalysisSeenBy(r)'
      BY <1>3, EndedSeen DEF Kinds
    <2> QED
      BY <1>3, <2>1, <2>2, AnalysisSeenStays DEF AnalysisInv, EntitiesInv, StepOf, At, UnderWay
  <1>13. TrendsKept'
    <2> SUFFICES ASSUME {"evaluate"} \notin overlap
                 PROVE  /\ \A t, u \in Live(trends') : trends'[t].entity = trends'[u].entity => t = u
                        /\ \A t \in Live(trends') : Kept(trends'[t])
      BY <1>3 DEF TrendsKept
    <2>1. /\ \A t \in DOMAIN s.rows : trends[t] = s.rows[t]
          /\ \A t \in Live(trends) : trends[t].entity \in DOMAIN s.inputs => t \in DOMAIN s.rows
      BY <1>1 DEF EvaluateSeen
    <2>2. /\ \A t, u \in Live(trends) : trends[t].entity = trends[u].entity => t = u
          /\ \A t \in Live(trends) : Kept(trends[t])
      BY DEF AnalysisInv, TrendsKept
    <2>3. \A t \in Live(trends') : Kept(trends'[t])
      BY <1>8, <1>9, <1>10, <2>1, <2>2
    <2>4. \A t, u \in Live(trends') : t \in DOMAIN trends /\ u \notin DOMAIN trends =>
              trends'[t].entity # trends'[u].entity
      <3> SUFFICES ASSUME NEW t \in Live(trends'), NEW u \in Live(trends'), t \in DOMAIN trends,
                          u \notin DOMAIN trends, trends'[t].entity = trends'[u].entity
                   PROVE  FALSE
        OBVIOUS
      <3>1. PICK i \in DOMAIN new : trends'[u].entity = new[i]
        BY <1>10
      <3>2. t \in Live(trends) /\ trends[t].entity = new[i]
        BY <1>8, <1>9, <3>1
      <3>3. t \in DOMAIN s.rows /\ s.rows[t].entity = new[i]
        BY <1>1, <2>1, <3>2
      <3> QED
        BY <1>1, <3>3
    <2>5. \A t, u \in Live(trends') : t \in DOMAIN trends /\ u \in DOMAIN trends =>
              (trends'[t].entity = trends'[u].entity => t = u)
      BY <1>8, <1>9, <2>2
    <2>6. \A t, u \in Live(trends') : t \notin DOMAIN trends /\ u \notin DOMAIN trends =>
              (trends'[t].entity = trends'[u].entity => t = u)
      BY <1>1, <1>10
    <2> QED
      BY <2>3, <2>4, <2>5, <2>6
  <1>14. OpportunitiesKept' /\ EventsKept'
    BY <1>2, <1>3 DEF AnalysisInv, OpportunitiesKept, EventsKept, Calm
  <1> QED
    BY <1>4, <1>11, <1>12, <1>13, <1>14 DEF AnalysisInv

\* The opportunities after a generation.
LEMMA GeneratedRows ==
  ASSUME AnalysisInv, NEW r \in Requests, GenerateCommit(r)
  PROVE  LET s == requests[r].seen
         IN  /\ GenerateSeen(s) /\ DOMAIN s.rows \subseteq Live(opportunities)
             /\ DOMAIN s.judged \subseteq Live(trends)
             /\ opportunities' \in Seq(OpportunityRows \cup {None})
             /\ DOMAIN opportunities \subseteq DOMAIN opportunities'
             /\ \A o \in DOMAIN opportunities :
                   opportunities'[o] =
                       IF o \in DOMAIN s.rows
                       THEN UpdatedOpportunity(opportunities[o], s.rows[o], s.judged[s.rows[o].trend])
                       ELSE opportunities[o]
             /\ \A o \in DOMAIN opportunities' :
                   \/ o \in DOMAIN opportunities
                   \/ \E t \in DOMAIN s.judged : opportunities'[o] = NewOpportunity(t, s.judged[t])
  <1> DEFINE s == requests[r].seen
             new == Uncreated(s)
             uncreated == {t \in DOMAIN s.judged : \A o \in DOMAIN s.rows : s.rows[o].trend # t}
             updated(o) == IF o \in DOMAIN s.rows
                           THEN UpdatedOpportunity(opportunities[o], s.rows[o], s.judged[s.rows[o].trend])
                           ELSE opportunities[o]
  <1>1. /\ GenerateSeen(s) /\ DOMAIN s.rows \subseteq Live(opportunities)
        /\ DOMAIN s.judged \subseteq Live(trends)
    BY DEF AnalysisInv, AnalysisSeen, AnalysisSeenBy, GenerateCommit, GenerateConflicts, Ends
  <1>2. opportunities \in Seq(OpportunityRows \cup {None}) /\ trends \in Seq(TrendRows \cup {None})
    BY DEF AnalysisInv, AnalysisTables
  <1>3. IsFiniteSet(uncreated) /\ uncreated \subseteq Nat
    <2>1. IsFiniteSet(1..Len(trends))
      BY <1>2, FS_Interval
    <2>2. uncreated \in SUBSET (1..Len(trends))
      BY <1>1, <1>2 DEF GenerateSeen
    <2> QED
      BY <2>1, <2>2, FS_Subset
  <1>4. new \in Seq(uncreated)
    BY <1>3, SetInOrder DEF Uncreated
  <1>5. \A i \in DOMAIN new : new[i] \in uncreated
    BY <1>4
  <1> DEFINE f == [o \in DOMAIN opportunities |-> updated(o)]
             g == [i \in DOMAIN new |-> NewOpportunity(new[i], s.judged[new[i]])]
  <1>6. \A o \in DOMAIN opportunities : updated(o) \in OpportunityRows \cup {None}
    <2> SUFFICES ASSUME NEW o \in DOMAIN opportunities, o \in DOMAIN s.rows
                 PROVE  updated(o) \in OpportunityRows
      BY <1>2
    <2>1. opportunities[o] \in OpportunityRows
      BY <1>1, <1>2 DEF Live
    <2>2. s.rows[o] \in OpportunityRows /\ s.judged[s.rows[o].trend] \in Judgements
      BY <1>1 DEF GenerateSeen
    <2> QED
      BY <2>1, <2>2, UpdatedOpportunityRow
  <1>7. f \in [1..Len(opportunities) -> OpportunityRows \cup {None}] /\ Len(opportunities) \in Nat
        /\ DOMAIN opportunities = 1..Len(opportunities)
    BY <1>2, <1>6
  <1>8. g \in Seq(OpportunityRows \cup {None}) /\ DOMAIN g = DOMAIN new
    <2>1. \A i \in DOMAIN new : NewOpportunity(new[i], s.judged[new[i]]) \in OpportunityRows
      BY <1>1, <1>3, <1>5, NewOpportunityRow DEF GenerateSeen
    <2>2. DOMAIN new = 1..Len(new) /\ Len(new) \in Nat
      BY <1>4
    <2>3. g \in [1..Len(new) -> OpportunityRows \cup {None}]
      BY <2>1, <2>2
    <2> QED
      BY <2>2, <2>3, FunctionIsTable
  <1>9. opportunities' = f \o g
    BY DEF GenerateCommit
  <1>10. /\ \A o \in DOMAIN opportunities : f[o] = updated(o)
         /\ \A i \in DOMAIN new : g[i] = NewOpportunity(new[i], s.judged[new[i]])
    OBVIOUS
  <1>11. \A i \in DOMAIN new : new[i] \in DOMAIN s.judged
    BY <1>5
  <1> HIDE DEF f, g, new, uncreated, updated
  <1> DEFINE n == Len(opportunities)
  <1>12. DOMAIN opportunities = 1..n
    BY <1>7
  <1>13. n \in Nat /\ f \in [1..n -> OpportunityRows \cup {None}] /\ g \in Seq(OpportunityRows \cup {None})
    BY <1>7, <1>8
  <1> HIDE DEF n
  <1>14. /\ f \o g \in Seq(OpportunityRows \cup {None}) /\ DOMAIN (f \o g) = 1..n + Len(g)
         /\ \A i \in 1..n : (f \o g)[i] = f[i]
         /\ \A j \in DOMAIN g : n + j \in DOMAIN (f \o g) /\ (f \o g)[n + j] = g[j]
         /\ \A i \in DOMAIN (f \o g) : i \in 1..n \/ \E j \in DOMAIN g : i = n + j
    BY <1>13, ExtendedTable
  <1>15. opportunities' \in Seq(OpportunityRows \cup {None}) /\ DOMAIN opportunities \subseteq DOMAIN opportunities'
    <2>1. Len(g) \in Nat /\ 1..n \subseteq 1..n + Len(g)
      BY <1>13
    <2> QED
      BY <1>9, <1>12, <1>14, <2>1
  <1>16. \A o \in DOMAIN opportunities : opportunities'[o] = updated(o)
    BY <1>9, <1>10, <1>12, <1>14
  <1>17. \A o \in DOMAIN opportunities' :
            \/ o \in DOMAIN opportunities
            \/ \E t \in DOMAIN s.judged : opportunities'[o] = NewOpportunity(t, s.judged[t])
    <2> SUFFICES ASSUME NEW o \in DOMAIN (f \o g), o \notin 1..n
                 PROVE  \E t \in DOMAIN s.judged : (f \o g)[o] = NewOpportunity(t, s.judged[t])
      BY <1>9, <1>12
    <2>1. PICK j \in DOMAIN g : o = n + j
      BY <1>14
    <2>2. (f \o g)[o] = NewOpportunity(new[j], s.judged[new[j]])
      BY <1>8, <1>10, <1>14, <2>1
    <2> QED
      BY <1>8, <1>11, <2>1, <2>2
  <1> QED
    BY <1>1, <1>15, <1>16, <1>17 DEF updated

LEMMA GenerateCommitKeeps ==
  ASSUME AnalysisInv, NEW r \in Requests, GenerateCommit(r)
  PROVE  AnalysisInv'
  <1> DEFINE s == requests[r].seen
  <1>1. /\ GenerateSeen(s) /\ DOMAIN s.rows \subseteq Live(opportunities)
        /\ DOMAIN s.judged \subseteq Live(trends)
        /\ opportunities' \in Seq(OpportunityRows \cup {None})
        /\ DOMAIN opportunities \subseteq DOMAIN opportunities'
        /\ \A o \in DOMAIN opportunities :
              opportunities'[o] =
                  IF o \in DOMAIN s.rows
                  THEN UpdatedOpportunity(opportunities[o], s.rows[o], s.judged[s.rows[o].trend])
                  ELSE opportunities[o]
        /\ \A o \in DOMAIN opportunities' :
              \/ o \in DOMAIN opportunities
              \/ \E t \in DOMAIN s.judged : opportunities'[o] = NewOpportunity(t, s.judged[t])
    BY GeneratedRows
  <1>2. Ends(r, "generate", "read", "done") /\ UNCHANGED <<entityVars, trends>>
    BY DEF GenerateCommit
  <1>3. StepOf(r, "generate", "done", None) /\ RequestsInv' /\ At(r, "generate", "read") /\ overlap' = overlap
    BY <1>2, LaterStep DEF AnalysisInv, EntitiesInv
  <1>4. EntitiesInv'
    BY <1>2, <1>3, QuietEntities DEF AnalysisInv
  <1>5. UNCHANGED <<entities, trends>>
    BY <1>2 DEF entityVars
  <1>6. /\ trends \in Seq(TrendRows \cup {None})
        /\ opportunities \in Seq(OpportunityRows \cup {None}) /\ None \notin OpportunityRows
    BY RowsAssumption DEF AnalysisInv, AnalysisTables
  <1>7. \A o \in Live(opportunities) : opportunities[o] \in OpportunityRows /\ o \in DOMAIN opportunities
    BY <1>6 DEF Live
  \* A row that was there: updated, with a snapshot more, or as it was.
  <1>8. \A o \in Live(opportunities) :
            LET row == opportunities[o]
                next == opportunities'[o]
            IN  /\ o \in Live(opportunities') /\ next.trend = row.trend
                /\ \/ o \notin DOMAIN s.rows /\ next = row
                   \/ /\ o \in DOMAIN s.rows /\ next.events = row.events
                      /\ \E v \in Int : next.history = Append(row.history, v)
                      /\ row.score = s.rows[o].score /\ row.peak = s.rows[o].peak /\ Kept(row) => Kept(next)
    <2> SUFFICES ASSUME NEW o \in Live(opportunities)
                 PROVE  /\ o \in Live(opportunities') /\ opportunities'[o].trend = opportunities[o].trend
                        /\ \/ o \notin DOMAIN s.rows /\ opportunities'[o] = opportunities[o]
                           \/ /\ o \in DOMAIN s.rows /\ opportunities'[o].events = opportunities[o].events
                              /\ \E v \in Int : opportunities'[o].history = Append(opportunities[o].history, v)
                              /\ /\ opportunities[o].score = s.rows[o].score
                                 /\ opportunities[o].peak = s.rows[o].peak
                                 /\ Kept(opportunities[o])
                                 => Kept(opportunities'[o])
      BY Zenon
    <2>1. CASE o \in DOMAIN s.rows
      <3> DEFINE row == opportunities[o]
                 old == s.rows[o]
                 a == s.judged[old.trend]
      <3>1. row \in OpportunityRows /\ old \in OpportunityRows /\ a \in Judgements
        BY <1>1, <1>7, <2>1 DEF GenerateSeen
      <3>2. opportunities'[o] = UpdatedOpportunity(row, old, a)
        BY <1>1, <1>7, <2>1
      <3>3. a.score \in Int
        BY <3>1, ScoresAssumption
      <3> HIDE DEF row, old, a
      <3>4. /\ opportunities'[o] \in OpportunityRows /\ opportunities'[o].trend = row.trend
            /\ opportunities'[o].events = row.events /\ opportunities'[o].history = Append(row.history, a.score)
            /\ row.score = old.score /\ row.peak = old.peak /\ Kept(row) => Kept(opportunities'[o])
        BY <3>1, <3>2, UpdatedOpportunityRow
      <3>5. o \in Live(opportunities')
        BY <1>1, <1>6, <1>7, <3>4 DEF Live
      <3> QED
        BY <2>1, <3>3, <3>4, <3>5 DEF row, old
    <2>2. CASE o \notin DOMAIN s.rows
      BY <1>1, <1>6, <1>7, <2>2 DEF Live
    <2> QED
      BY <2>1, <2>2
  <1>9. \A o \in Live(opportunities') : o \in DOMAIN opportunities => o \in Live(opportunities)
    BY <1>1 DEF Live
  \* A row that is new.
  <1>10. \A o \in Live(opportunities') : o \notin DOMAIN opportunities =>
            /\ opportunities'[o].trend \in Live(trends) /\ opportunities'[o].events = {}
            /\ Kept(opportunities'[o])
    <2> SUFFICES ASSUME NEW o \in Live(opportunities'), o \notin DOMAIN opportunities
                 PROVE  /\ opportunities'[o].trend \in Live(trends) /\ opportunities'[o].events = {}
                        /\ Kept(opportunities'[o])
      OBVIOUS
    <2>1. PICK t \in DOMAIN s.judged : opportunities'[o] = NewOpportunity(t, s.judged[t])
      BY <1>1 DEF Live
    <2>2. t \in Live(trends) /\ s.judged[t] \in Judgements /\ t \in Nat
      BY <1>1, <1>6 DEF GenerateSeen, Live
    <2> QED
      BY <2>1, <2>2, NewOpportunityRow
  <1>11. AnalysisTables'
    <2>1. \A o \in Live(opportunities') : opportunities'[o].trend \in Live(trends')
      BY <1>5, <1>8, <1>9, <1>10 DEF AnalysisInv, AnalysisTables
    <2>2. \A t \in Live(trends') : trends'[t].entity \in Live(entities')
      BY <1>5 DEF AnalysisInv, AnalysisTables
    <2> QED
      BY <1>1, <1>5, <1>6, <2>1, <2>2 DEF AnalysisTables
  <1>12. AnalysisSeen'
    <2>1. TablesGrow /\ TrendsQuiet
      BY <1>1, <1>5, <1>8, <1>9 DEF TablesGrow, TrendsQuiet
    <2>2. AnalysisSeenBy(r)'
      BY <1>3, EndedSeen DEF Kinds
    <2> QED
      BY <1>3, <2>1, <2>2, AnalysisSeenStays DEF AnalysisInv, EntitiesInv, StepOf, At, UnderWay
  <1>13. OpportunitiesKept'
    <2> SUFFICES ASSUME {"generate"} \notin overlap, NEW o \in Live(opportunities')
                 PROVE  Kept(opportunities'[o])
      BY <1>3 DEF OpportunitiesKept
    <2>1. CASE o \in Live(opportunities)
      <3>1. Kept(opportunities[o])
        BY <2>1 DEF AnalysisInv, OpportunitiesKept
      <3>2. o \in DOMAIN s.rows => opportunities[o].score = s.rows[o].score /\ opportunities[o].peak = s.rows[o].peak
        BY <1>1, <2>1 DEF GenerateSeen
      <3> QED
        BY <1>8, <2>1, <3>1, <3>2
    <2>2. CASE o \notin Live(opportunities)
      BY <1>9, <1>10, <2>2
    <2> QED
      BY <2>1, <2>2
  <1>14. EventsKept'
    <2> SUFFICES ASSUME Calm, NEW o \in Live(opportunities'), NEW e \in ScoreEvents(opportunities'[o].events)
                 PROVE  /\ e.at <= Len(opportunities'[o].history)
                        /\ e.at = Len(opportunities'[o].history) => e \in DueEvents(opportunities'[o].history)
      BY <1>3 DEF EventsKept, Calm
    <2>1. CASE o \in Live(opportunities)
      <3>1. e \in ScoreEvents(opportunities[o].events)
        BY <1>8, <2>1
      <3>2. /\ e.at <= Len(opportunities[o].history)
            /\ e.at = Len(opportunities[o].history) => e \in DueEvents(opportunities[o].history)
        BY <2>1, <3>1 DEF AnalysisInv, EventsKept
      <3>3. CASE opportunities'[o] = opportunities[o]
        BY <3>2, <3>3
      <3>4. CASE opportunities'[o] # opportunities[o]
        <4>1. PICK v \in Int : opportunities'[o].history = Append(opportunities[o].history, v)
          BY <1>8, <2>1, <3>4
        <4>2. opportunities[o].history \in Seq(Int)
          BY <1>7, <2>1 DEF OpportunityRows
        <4>3. Len(opportunities'[o].history) = Len(opportunities[o].history) + 1
              /\ Len(opportunities[o].history) \in Nat
          BY <4>1, <4>2
        <4>4. e \in Events
          BY <1>7, <2>1, <3>1 DEF ScoreEvents, OpportunityRows
        <4>5. e.at \in Nat
          BY <4>4 DEF Events
        <4> QED
          BY <3>2, <4>3, <4>5
      <3> QED
        BY <3>3, <3>4
    <2>2. CASE o \notin Live(opportunities)
      <3>1. opportunities'[o].events = {}
        BY <1>9, <1>10, <2>2
      <3> QED
        BY <3>1 DEF ScoreEvents
    <2> QED
      BY <2>1, <2>2
  <1>15. TrendsKept'
    BY <1>3, <1>5 DEF AnalysisInv, TrendsKept
  <1> QED
    BY <1>4, <1>11, <1>12, <1>13, <1>14, <1>15 DEF AnalysisInv

\* The opportunities after a monitor pass: conditions and events, nothing else.
LEMMA CheckedRows ==
  ASSUME AnalysisInv, NEW r \in Requests, MonitorCommit(r)
  PROVE  LET s == requests[r].seen
         IN  /\ CheckedSeen(s) /\ DOMAIN opportunities' = DOMAIN opportunities
             /\ opportunities' \in Seq(OpportunityRows \cup {None})
             /\ Live(opportunities') = Live(opportunities)
             /\ \A o \in Live(opportunities) :
                   /\ opportunities'[o].trend = opportunities[o].trend
                   /\ opportunities'[o].score = opportunities[o].score
                   /\ opportunities'[o].peak = opportunities[o].peak
                   /\ opportunities'[o].history = opportunities[o].history
                   /\ opportunities'[o].events =
                         opportunities[o].events \cup (IF o \in DOMAIN s.checked THEN s.checked[o].events ELSE {})
  <1> DEFINE s == requests[r].seen
             update(o) == [opportunities[o] EXCEPT
                               !.condition = Updated(@, s.checked[o].condition, s.checked[o].verdict),
                               !.events = @ \cup s.checked[o].events]
             next(o) == IF o \notin DOMAIN s.checked THEN opportunities[o] ELSE update(o)
  <1>1. CheckedSeen(s) /\ DOMAIN s.checked \subseteq Live(opportunities)
    BY DEF AnalysisInv, AnalysisSeen, AnalysisSeenBy, MonitorCommit, MonitorConflicts, Ends
  <1>2. opportunities \in Seq(OpportunityRows \cup {None}) /\ None \notin OpportunityRows
    BY RowsAssumption DEF AnalysisInv, AnalysisTables
  <1>3. \A o \in Live(opportunities) : o \in DOMAIN opportunities /\ opportunities[o] \in OpportunityRows
    BY <1>2 DEF Live
  <1>4. opportunities' = [o \in DOMAIN opportunities |-> next(o)]
    BY DEF MonitorCommit
  <1>5. \A o \in DOMAIN s.checked :
            /\ update(o) \in OpportunityRows /\ update(o).trend = opportunities[o].trend
            /\ update(o).score = opportunities[o].score /\ update(o).peak = opportunities[o].peak
            /\ update(o).history = opportunities[o].history
            /\ update(o).events = opportunities[o].events \cup s.checked[o].events
    <2> SUFFICES ASSUME NEW o \in DOMAIN s.checked
                 PROVE  /\ update(o) \in OpportunityRows /\ update(o).trend = opportunities[o].trend
                        /\ update(o).score = opportunities[o].score /\ update(o).peak = opportunities[o].peak
                        /\ update(o).history = opportunities[o].history
                        /\ update(o).events = opportunities[o].events \cup s.checked[o].events
      OBVIOUS
    <2> DEFINE condition == Updated(opportunities[o].condition, s.checked[o].condition, s.checked[o].verdict)
               events == opportunities[o].events \cup s.checked[o].events
    <2>1. /\ opportunities[o] \in OpportunityRows
          /\ s.checked[o].verdict \in Verdicts /\ s.checked[o].events \subseteq Events
      BY <1>1, <1>3 DEF CheckedSeen
    <2>2. condition \in Verdicts \cup {"pending"} /\ events \subseteq Events
      BY <2>1 DEF Updated, OpportunityRows
    <2>3. update(o) = [opportunities[o] EXCEPT !.condition = condition, !.events = events]
      OBVIOUS
    <2> HIDE DEF condition, update
    <2> QED
      BY <2>1, <2>2, <2>3 DEF OpportunityRows
  <1> HIDE DEF update
  <1>6. \A o \in DOMAIN opportunities :
            next(o) \in OpportunityRows \cup {None} /\ (next(o) = None <=> opportunities[o] = None)
    BY <1>1, <1>2, <1>3, <1>5 DEF Live
  <1>7. \A o \in Live(opportunities) :
            /\ next(o).trend = opportunities[o].trend /\ next(o).score = opportunities[o].score
            /\ next(o).peak = opportunities[o].peak /\ next(o).history = opportunities[o].history
            /\ next(o).events = opportunities[o].events
                                   \cup (IF o \in DOMAIN s.checked THEN s.checked[o].events ELSE {})
    BY <1>5
  <1> HIDE DEF next
  <1>8. opportunities' \in [1..Len(opportunities) -> OpportunityRows \cup {None}]
    BY <1>2, <1>4, <1>6
  <1>9. opportunities' \in Seq(OpportunityRows \cup {None}) /\ DOMAIN opportunities' = DOMAIN opportunities
    BY <1>2, <1>8, FunctionIsTable
  <1> QED
    BY <1>1, <1>3, <1>4, <1>6, <1>7, <1>9 DEF Live

\* After a pass that no generation has overlapped, a row tells of what is due.
LEMMA CheckedEvents ==
  ASSUME AnalysisInv, NEW r \in Requests, MonitorCommit(r), Calm, NEW o \in Live(opportunities)
  PROVE  LET h == opportunities'[o].history
             told == ScoreEvents(opportunities'[o].events)
         IN  /\ DueEvents(h) \subseteq told
             /\ \A e \in told : e.at <= Len(h) /\ (e.at = Len(h) => e \in DueEvents(h))
  <1> DEFINE s == requests[r].seen
             h == opportunities[o].history
  <1>1. /\ CheckedSeen(s) /\ opportunities'[o].history = h
        /\ opportunities'[o].events =
              opportunities[o].events \cup (IF o \in DOMAIN s.checked THEN s.checked[o].events ELSE {})
    BY CheckedRows
  <1>2. ScoreEvents(s.checked[o].events) = DueEvents(h) /\ o \in DOMAIN s.checked
    BY <1>1 DEF CheckedSeen
  <1>3. ScoreEvents(opportunities'[o].events) = ScoreEvents(opportunities[o].events) \cup DueEvents(h)
    BY <1>1, <1>2 DEF ScoreEvents
  <1>4. \A e \in ScoreEvents(opportunities[o].events) :
            e.at <= Len(h) /\ (e.at = Len(h) => e \in DueEvents(h))
    BY DEF AnalysisInv, EventsKept
  <1>5. \A e \in DueEvents(h) : e.at <= Len(h)
    <2>1. opportunities[o] \in OpportunityRows
      BY DEF AnalysisInv, AnalysisTables, Live
    <2>2. Len(h) \in Nat
      BY <2>1 DEF OpportunityRows
    <2> QED
      BY <2>2 DEF DueEvents
  <1> QED
    BY <1>1, <1>3, <1>4, <1>5

LEMMA MonitorCommitKeeps ==
  ASSUME AnalysisInv, NEW r \in Requests, MonitorCommit(r)
  PROVE  AnalysisInv'
  <1> DEFINE s == requests[r].seen
  <1>1. /\ CheckedSeen(s) /\ DOMAIN opportunities' = DOMAIN opportunities
        /\ opportunities' \in Seq(OpportunityRows \cup {None})
        /\ Live(opportunities') = Live(opportunities)
        /\ \A o \in Live(opportunities) :
              /\ opportunities'[o].trend = opportunities[o].trend
              /\ opportunities'[o].score = opportunities[o].score
              /\ opportunities'[o].peak = opportunities[o].peak
              /\ opportunities'[o].history = opportunities[o].history
    BY CheckedRows
  <1>2. Ends(r, "monitor", "gathered", "done") /\ UNCHANGED <<entityVars, trends>>
    BY DEF MonitorCommit
  <1>3. StepOf(r, "monitor", "done", None) /\ RequestsInv' /\ overlap' = overlap
    BY <1>2, LaterStep DEF AnalysisInv, EntitiesInv
  <1>4. EntitiesInv'
    BY <1>2, <1>3, QuietEntities DEF AnalysisInv
  <1>5. UNCHANGED <<entities, trends>>
    BY <1>2 DEF entityVars
  <1>6. AnalysisTables'
    <2>1. \A t \in Live(trends') : trends'[t].entity \in Live(entities')
      BY <1>5 DEF AnalysisInv, AnalysisTables
    <2>2. \A o \in Live(opportunities') : opportunities'[o].trend \in Live(trends')
      BY <1>1, <1>5 DEF AnalysisInv, AnalysisTables
    <2>3. trends' \in Seq(TrendRows \cup {None})
      BY <1>5 DEF AnalysisInv, AnalysisTables
    <2> QED
      BY <1>1, <2>1, <2>2, <2>3 DEF AnalysisTables
  <1>7. AnalysisSeen'
    <2>1. TablesGrow /\ TrendsQuiet /\ ScoresQuiet
      BY <1>1, <1>5 DEF TablesGrow, TrendsQuiet, ScoresQuiet
    <2>2. AnalysisSeenBy(r)'
      BY <1>3, EndedSeen DEF Kinds
    <2> QED
      BY <1>3, <2>1, <2>2, AnalysisSeenStays DEF AnalysisInv, EntitiesInv, StepOf
  <1>8. TrendsKept'
    BY <1>3, <1>5 DEF AnalysisInv, TrendsKept
  <1>9. OpportunitiesKept'
    <2>1. \A o \in Live(opportunities) : Kept(opportunities[o]) => Kept(opportunities'[o])
      BY <1>1 DEF Kept
    <2> QED
      BY <1>1, <1>3, <2>1 DEF AnalysisInv, OpportunitiesKept
  <1>10. EventsKept'
    BY <1>1, <1>3, CheckedEvents DEF EventsKept, Calm
  <1> QED
    BY <1>4, <1>6, <1>7, <1>8, <1>9, <1>10 DEF AnalysisInv

-----------------------------------------------------------------------------
(* A merge takes the trends of the duplicate and their opportunities away. *)

LEMMA CascadedRows ==
  ASSUME AnalysisInv, NEW r \in Requests, DecideCommit(r), Cascade
  PROVE  /\ trends' \in Seq(TrendRows \cup {None}) /\ DOMAIN trends' = DOMAIN trends
         /\ opportunities' \in Seq(OpportunityRows \cup {None})
         /\ DOMAIN opportunities' = DOMAIN opportunities
         /\ \A t \in Live(trends') : /\ t \in Live(trends) /\ trends'[t] = trends[t]
                                     /\ trends'[t].entity \in Live(entities')
         /\ \A o \in Live(opportunities') :
               /\ o \in Live(opportunities) /\ opportunities'[o] = opportunities[o]
               /\ opportunities'[o].trend \in Live(trends')
  <1>1. /\ trends \in Seq(TrendRows \cup {None}) /\ opportunities \in Seq(OpportunityRows \cup {None})
        /\ \A t \in Live(trends) : trends[t].entity \in Live(entities)
        /\ \A o \in Live(opportunities) : opportunities[o].trend \in Live(trends)
    BY DEF AnalysisInv, AnalysisTables
  <1>2. DOMAIN entities' = DOMAIN entities
    BY MergedRows DEF AnalysisInv
  <1>3. trends' = [t \in DOMAIN trends |-> IF t \in DeletedTrends THEN None ELSE trends[t]]
    BY DEF Cascade
  <1>4. opportunities' = [o \in DOMAIN opportunities |->
            IF opportunities[o] # None /\ opportunities[o].trend \in DeletedTrends THEN None
            ELSE opportunities[o]]
    BY DEF Cascade
  <1>5. trends' \in [1..Len(trends) -> TrendRows \cup {None}]
    BY <1>1, <1>3
  <1>6. trends' \in Seq(TrendRows \cup {None}) /\ DOMAIN trends' = DOMAIN trends
    BY <1>1, <1>5, FunctionIsTable
  <1>7. opportunities' \in [1..Len(opportunities) -> OpportunityRows \cup {None}]
    BY <1>1, <1>4
  <1>8. opportunities' \in Seq(OpportunityRows \cup {None}) /\ DOMAIN opportunities' = DOMAIN opportunities
    BY <1>1, <1>7, FunctionIsTable
  <1>9. \A t \in Live(trends') : t \in Live(trends) \ DeletedTrends /\ trends'[t] = trends[t]
    BY <1>3 DEF Live
  <1>10. \A t \in Live(trends') : trends'[t].entity \in Live(entities')
    BY <1>1, <1>2, <1>9 DEF DeletedTrends, Live
  <1>11. \A t \in Live(trends) \ DeletedTrends : t \in Live(trends')
    BY <1>3 DEF Live
  <1>12. \A o \in Live(opportunities') :
            /\ o \in Live(opportunities) /\ opportunities'[o] = opportunities[o]
            /\ opportunities[o].trend \notin DeletedTrends
    BY <1>4 DEF Live
  <1> QED
    BY <1>1, <1>6, <1>8, <1>9, <1>10, <1>11, <1>12

LEMMA MergeKeeps ==
  ASSUME AnalysisInv, NEW r \in Requests, DecideCommit(r), Cascade
  PROVE  AnalysisInv'
  <1>1. /\ trends' \in Seq(TrendRows \cup {None}) /\ DOMAIN trends' = DOMAIN trends
        /\ opportunities' \in Seq(OpportunityRows \cup {None})
        /\ DOMAIN opportunities' = DOMAIN opportunities
        /\ \A t \in Live(trends') : /\ t \in Live(trends) /\ trends'[t] = trends[t]
                                    /\ trends'[t].entity \in Live(entities')
        /\ \A o \in Live(opportunities') :
              /\ o \in Live(opportunities) /\ opportunities'[o] = opportunities[o]
              /\ opportunities'[o].trend \in Live(trends')
    BY CascadedRows
  <1>2. EntitiesInv'
    BY DecideCommitKeeps DEF AnalysisInv
  <1>3. Ends(r, "decide", "gathered", "done")
    BY DEF DecideCommit
  <1>4. StepOf(r, "decide", "done", None) /\ overlap' = overlap
    BY <1>3, LaterStep DEF AnalysisInv, EntitiesInv
  <1>5. DOMAIN entities' = DOMAIN entities
    BY MergedRows DEF AnalysisInv
  <1>6. AnalysisTables'
    BY <1>1 DEF AnalysisTables
  <1>7. AnalysisSeen'
    <2>1. TablesGrow /\ TrendsQuiet /\ ScoresQuiet
      BY <1>1, <1>5 DEF TablesGrow, TrendsQuiet, ScoresQuiet
    <2>2. AnalysisSeenBy(r)'
      BY <1>4, EndedSeen DEF Kinds
    <2> QED
      BY <1>4, <2>1, <2>2, AnalysisSeenStays DEF AnalysisInv, EntitiesInv, StepOf
  <1>8. TrendsKept'
    BY <1>1, <1>4 DEF AnalysisInv, TrendsKept
  <1>9. OpportunitiesKept'
    BY <1>1, <1>4 DEF AnalysisInv, OpportunitiesKept
  <1>10. EventsKept'
    BY <1>1, <1>4 DEF AnalysisInv, EventsKept, Calm
  <1> QED
    BY <1>2, <1>6, <1>7, <1>8, <1>9, <1>10 DEF AnalysisInv

-----------------------------------------------------------------------------
(* The theorems.                                                           *)

LEMMA AnalysisStarts ==
  ASSUME Init
  PROVE  AnalysisInv
  <1>1. \A r \in Requests : /\ requests[r].kind \in Kinds /\ requests[r].pc = "new"
                            /\ DOMAIN requests[r] = {"kind", "pc", "seen"}
    BY DEF Init
  <1>2. DOMAIN requests = Requests
    BY DEF Init
  <1>3. EntitiesInv
    BY <1>1, <1>2, EntitiesStart DEF Init
  <1>4. AnalysisTables /\ TrendsKept /\ OpportunitiesKept /\ EventsKept
    BY DEF Init, AnalysisTables, TrendsKept, OpportunitiesKept, EventsKept, Live
  <1>5. AnalysisSeen
    BY <1>1 DEF AnalysisSeen, AnalysisSeenBy, At
  <1> QED
    BY <1>3, <1>4, <1>5 DEF AnalysisInv

LEMMA AnalysisStutters ==
  ASSUME AnalysisInv, UNCHANGED vars
  PROVE  AnalysisInv'
  <1>1. EntitiesInv'
    BY DEF AnalysisInv, EntitiesInv, vars, entityVars, RequestsInv, TablesInv, SeenInv, SeenBy, MergesInv,
           GatheredInv, CollectSeen, DecideSeen, MergeSeen, UnderWay, At, Live, SignalsOf, AliasesOf
  <1>2. AnalysisTables' /\ TrendsKept' /\ OpportunitiesKept' /\ EventsKept'
    BY DEF AnalysisInv, vars, entityVars, analysisVars, AnalysisTables, TrendsKept, OpportunitiesKept,
           EventsKept, Calm, Live
  <1>3. AnalysisSeen'
    BY DEF AnalysisInv, vars, entityVars, analysisVars, AnalysisSeen, AnalysisSeenBy, At, EvaluateSeen,
           GenerateSeen, MonitorSeen, CheckedSeen, Calm, Live
  <1> QED
    BY <1>1, <1>2, <1>3 DEF AnalysisInv

LEMMA AnalysisSteps ==
  ASSUME AnalysisInv, [Next]_vars
  PROVE  AnalysisInv'
  <1>1. CASE UNCHANGED vars
    BY <1>1, AnalysisStutters
  <1>2. CASE Next
    <2>1. PICK r \in Requests :
              \/ (Collect(r) \/ CollectCommit(r) \/ CollectFails(r)) /\ UNCHANGED analysisVars
              \/ (Decide(r) \/ DecideGather(r) \/ DecideClashes(r) \/ DecideFails(r)) /\ UNCHANGED analysisVars
              \/ DecideCommit(r) /\ Cascade
              \/ LinkRefuses(r)
              \/ Evaluate(r) \/ EvaluateFails(r) \/ EvaluateCommit(r) \/ EvaluateLost(r)
              \/ Generate(r) \/ GenerateCommit(r) \/ GenerateFails(r)
              \/ Monitor(r) \/ MonitorCheck(r) \/ MonitorCommit(r) \/ MonitorFails(r)
      BY <1>2 DEF Next
    <2>2. CASE /\ UNCHANGED analysisVars
               /\ \/ Collect(r) \/ CollectCommit(r) \/ CollectFails(r)
                  \/ Decide(r) \/ DecideGather(r) \/ DecideClashes(r) \/ DecideFails(r)
      BY <2>2, EntityStepKeeps
    <2>3. CASE DecideCommit(r) /\ Cascade
      BY <2>3, MergeKeeps
    <2>4. CASE LinkRefuses(r)
      <3>1. Ends(r, "decide", "gathered", "failed") /\ UNCHANGED <<entityVars, analysisVars>>
        BY <2>4 DEF LinkRefuses
      <3> QED
        BY <3>1, LostKeeps DEF Kinds
    <2>5. CASE EvaluateFails(r) \/ EvaluateLost(r)
      <3>1. /\ \E pc : Ends(r, "evaluate", pc, "failed")
            /\ UNCHANGED <<entityVars, analysisVars>>
        BY <2>5 DEF EvaluateFails, EvaluateLost
      <3> QED
        BY <3>1, LostKeeps DEF Kinds
    <2>6. CASE GenerateFails(r)
      <3>1. Ends(r, "generate", "read", "failed") /\ UNCHANGED <<entityVars, analysisVars>>
        BY <2>6 DEF GenerateFails
      <3> QED
        BY <3>1, LostKeeps DEF Kinds
    <2>7. CASE MonitorFails(r)
      <3>1. Ends(r, "monitor", "gathered", "failed") /\ UNCHANGED <<entityVars, analysisVars>>
        BY <2>7 DEF MonitorFails
      <3> QED
        BY <3>1, LostKeeps DEF Kinds
    <2>8. CASE Evaluate(r) \/ EvaluateCommit(r)
      BY <2>8, EvaluateKeeps, EvaluateCommitKeeps
    <2>9. CASE Generate(r) \/ GenerateCommit(r)
      BY <2>9, GenerateKeeps, GenerateCommitKeeps
    <2>10. CASE Monitor(r) \/ MonitorCheck(r) \/ MonitorCommit(r)
      BY <2>10, MonitorKeeps, MonitorCheckKeeps, MonitorCommitKeeps
    <2> QED
      BY <2>1, <2>2, <2>3, <2>4, <2>5, <2>6, <2>7, <2>8, <2>9, <2>10
  <1> QED
    BY <1>1, <1>2

\* The tables, what the requests have seen of them, and the histories in them are
\* as the inductive invariant says, whatever overlaps.
THEOREM AnalysisInvariant == Spec => []AnalysisInv
  BY AnalysisStarts, AnalysisSteps, PTL DEF Spec

\* No reference is to a row that is gone: aliases, signals, trends and
\* opportunities belong to what is there (the foreign keys of models.py).
THEOREM AnalysisTypes == Spec => []TypeOK
  <1>1. AnalysisInv => TypeOK
    <2> SUFFICES ASSUME AnalysisInv
                 PROVE  TypeOK
      OBVIOUS
    <2>1. TypeOKEntities
      BY EntitiesTypes DEF AnalysisInv
    <2>2. \A r \in Requests : /\ requests[r].kind \in Kinds
                              /\ requests[r].pc \in {"new", "read", "gathered", "done", "failed"}
      BY DEF AnalysisInv, AnalysisSeen, AnalysisSeenBy
    <2>3. \A t \in Live(trends) : trends[t].state \in T!TrendStates /\ trends[t].entity \in Live(entities)
      <3>1. \A t \in Live(trends) : trends[t] \in TrendRows
        BY DEF AnalysisInv, AnalysisTables, Live
      <3> QED
        BY <3>1 DEF AnalysisInv, AnalysisTables, TrendRows
    <2>4. \A o \in Live(opportunities) : /\ opportunities[o].state \in A!OpportunityStates
                                         /\ opportunities[o].trend \in Live(trends)
      <3>1. \A o \in Live(opportunities) : opportunities[o] \in OpportunityRows
        BY DEF AnalysisInv, AnalysisTables, Live
      <3> QED
        BY <3>1 DEF AnalysisInv, AnalysisTables, OpportunityRows
    <2> QED
      BY <2>1, <2>2, <2>3, <2>4 DEF TypeOK
  <1> QED
    BY <1>1, AnalysisInvariant, PTL

\* One row per subject, and scores and peaks that are those of the history, as long
\* as no two evaluations, or two generations, overlap (_upsert_trend, _upsert).
THEOREM HistoryStays == Spec => []HistoryIsKept
  <1>1. AnalysisInv => HistoryIsKept
    <2> SUFFICES ASSUME AnalysisInv
                 PROVE  HistoryIsKept
      OBVIOUS
    <2>1. ASSUME {"evaluate"} \notin overlap, NEW e \in Live(entities)
          PROVE  Cardinality(TrendsOf(e)) <= 1
      <3>1. \A t, u \in TrendsOf(e) : t = u
        BY <2>1 DEF AnalysisInv, TrendsKept, TrendsOf
      <3>2. CASE TrendsOf(e) = {}
        <4>1. Cardinality({}) = 0
          BY FS_EmptySet
        <4> QED
          BY <3>2, <4>1
      <3>3. CASE TrendsOf(e) # {}
        <4>1. PICK t : TrendsOf(e) = {t}
          BY <3>1, <3>3
        <4>2. Cardinality({t}) = 1
          BY FS_Singleton
        <4> QED
          BY <4>1, <4>2
      <3> QED
        BY <3>2, <3>3
    <2>2. ASSUME {"evaluate"} \notin overlap, NEW t \in Live(trends)
          PROVE  trends[t].score = Last(trends[t].history) /\ trends[t].peak = Max(Range(trends[t].history))
      <3>1. Kept(trends[t]) /\ trends[t] \in TrendRows
        BY <2>2 DEF AnalysisInv, TrendsKept, AnalysisTables, Live
      <3>2. trends[t].history \in Seq(Int)
        BY <3>1 DEF TrendRows
      <3> QED
        BY <3>1, <3>2, KeptPeak
    <2>3. ASSUME {"generate"} \notin overlap, NEW o \in Live(opportunities)
          PROVE  /\ opportunities[o].score = Last(opportunities[o].history)
                 /\ opportunities[o].peak = Max(Range(opportunities[o].history))
      <3>1. Kept(opportunities[o]) /\ opportunities[o] \in OpportunityRows
        BY <2>3 DEF AnalysisInv, OpportunitiesKept, AnalysisTables, Live
      <3>2. opportunities[o].history \in Seq(Int)
        BY <3>1 DEF OpportunityRows
      <3> QED
        BY <3>1, <3>2, KeptPeak
    <2> QED
      BY <2>1, <2>2, <2>3 DEF HistoryIsKept
  <1> QED
    BY <1>1, AnalysisInvariant, PTL

\* What was taken for one thing is never taken for two, however requests overlap
\* (resolve_entity, apply_decision, the cascades of entity_aliases).
THEOREM NamesRemainTogether == Spec => NamesStayTogether
  <1>1. AnalysisInv /\ [Next]_vars => [KeptTogether]_entityVars
    <2> SUFFICES ASSUME AnalysisInv, Next
                 PROVE  [KeptTogether]_entityVars
      BY DEF vars
    <2>1. PICK r \in Requests :
              \/ CollectCommit(r) \/ DecideCommit(r) \/ UNCHANGED entityVars
      BY DEF Next, Collect, CollectFails, Decide, DecideGather, DecideClashes, DecideFails, LinkRefuses,
             Evaluate, EvaluateFails, EvaluateCommit, EvaluateLost, Generate, GenerateCommit, GenerateFails,
             Monitor, MonitorCheck, MonitorCommit, MonitorFails
    <2> QED
      BY <2>1, CollectTogether, MergeTogether DEF AnalysisInv
  <1>2. Spec => [][KeptTogether]_entityVars
    BY <1>1, AnalysisInvariant, PTL DEF Spec
  <1> QED
    BY <1>2 DEF NamesStayTogether, KeptTogether

MovesTold ==
    overlap' \cap {{"generate"}, {"monitor", "generate"}} = {} =>
        \A r \in Requests :
            At(r, "monitor", "gathered") /\ requests'[r].pc = "done" =>
                \A o \in Live(opportunities) :
                    LET h == opportunities'[o].history
                        n == Len(h)
                        told == {e \in opportunities'[o].events : e.at = n /\ e.kind # "confirmation_met"}
                    IN  IF n > 1 /\ Moved(h[n - 1], h[n])
                        THEN \E e \in told : e.old = h[n - 1] /\ e.new = h[n] /\ told = {e}
                        ELSE told = {}

LEMMA PassTells ==
  ASSUME AnalysisInv, NEW r \in Requests, MonitorCommit(r)
  PROVE  MovesTold
  <1>1. Ends(r, "monitor", "gathered", "done")
    BY DEF MonitorCommit
  <1>2. StepOf(r, "monitor", "done", None) /\ overlap' = overlap
    BY <1>1, LaterStep DEF AnalysisInv, EntitiesInv
  <1>3. SUFFICES ASSUME Calm, NEW o \in Live(opportunities)
                 PROVE  LET h == opportunities'[o].history
                            n == Len(h)
                            told == {e \in opportunities'[o].events : e.at = n /\ e.kind # "confirmation_met"}
                        IN  IF n > 1 /\ Moved(h[n - 1], h[n])
                            THEN \E e \in told : e.old = h[n - 1] /\ e.new = h[n] /\ told = {e}
                            ELSE told = {}
    BY <1>2 DEF MovesTold, Calm
  <1> DEFINE h == opportunities'[o].history
             n == Len(h)
             told == {e \in opportunities'[o].events : e.at = n /\ e.kind # "confirmation_met"}
  <1>4. /\ DueEvents(h) \subseteq ScoreEvents(opportunities'[o].events)
        /\ \A e \in ScoreEvents(opportunities'[o].events) : e.at = n => e \in DueEvents(h)
    BY <1>3, CheckedEvents
  <1>5. \A e \in DueEvents(h) : e.at = n
    BY DEF DueEvents
  <1>6. told = DueEvents(h)
    BY <1>4, <1>5 DEF ScoreEvents
  <1> HIDE DEF told
  <1>7. IF n > 1 /\ Moved(h[n - 1], h[n])
        THEN \E e \in told : e.old = h[n - 1] /\ e.new = h[n] /\ told = {e}
        ELSE told = {}
    BY <1>6 DEF DueEvents
  <1> QED
    BY <1>7 DEF told

\* A pass that no generation overlaps records the last change of score, if it is
\* large enough, and no other (monitor_all, _last_snapshot, detect_changes).
THEOREM RecordedMovesHappened == Spec => EventsAreMoves
  <1>1. AnalysisInv /\ [Next]_vars => [MovesTold]_vars
    <2> SUFFICES ASSUME AnalysisInv, Next, UNCHANGED vars => FALSE
                 PROVE  MovesTold
      OBVIOUS
    <2>1. CASE \E r \in Requests : MonitorCommit(r)
      BY <2>1, PassTells
    <2>2. CASE \A r \in Requests : ~MonitorCommit(r)
      <3> SUFFICES ASSUME NEW r \in Requests, At(r, "monitor", "gathered"), requests'[r].pc = "done"
                   PROVE  FALSE
        BY DEF MovesTold
      <3>1. RequestsInv
        BY DEF AnalysisInv, EntitiesInv
      <3>2. PICK q \in Requests :
                \/ Ends(q, "collect", "read", "done") \/ Ends(q, "decide", "gathered", "done")
                \/ Ends(q, "evaluate", "read", "done") \/ Ends(q, "generate", "read", "done")
                \/ \E kind, pc : Ends(q, kind, pc, "failed")
                \/ \E kind, seen : Reads(q, kind, seen) \/ ReadsOn(q, kind, seen)
        <4>1. PICK q \in Requests :
                  \/ CollectCommit(q) \/ DecideCommit(q) \/ EvaluateCommit(q) \/ GenerateCommit(q)
                  \/ CollectFails(q) \/ DecideClashes(q) \/ DecideFails(q) \/ LinkRefuses(q)
                  \/ EvaluateFails(q) \/ EvaluateLost(q) \/ GenerateFails(q) \/ MonitorFails(q)
                  \/ Collect(q) \/ Decide(q) \/ DecideGather(q) \/ Evaluate(q) \/ Generate(q)
                  \/ Monitor(q) \/ MonitorCheck(q)
          BY <2>2 DEF Next
        <4>2. CASE CollectCommit(q) \/ DecideCommit(q) \/ EvaluateCommit(q) \/ GenerateCommit(q)
          BY <4>2 DEF CollectCommit, DecideCommit, EvaluateCommit, GenerateCommit
        <4>3. CASE \/ CollectFails(q) \/ DecideClashes(q) \/ DecideFails(q) \/ LinkRefuses(q)
                   \/ EvaluateFails(q) \/ EvaluateLost(q) \/ GenerateFails(q) \/ MonitorFails(q)
          BY <4>3 DEF CollectFails, DecideClashes, DecideFails, LinkRefuses, EvaluateFails, EvaluateLost,
             GenerateFails, MonitorFails
        <4>4. CASE Collect(q) \/ Decide(q) \/ DecideGather(q)
          BY <4>4 DEF Collect, Decide, DecideGather
        <4>5. CASE Evaluate(q)
          BY <4>5 DEF Evaluate
        <4>6. CASE Generate(q)
          <5>1. PICK judged :
                    LET kept == {t \in {u \in Live(trends) : trends[u].state \in A!EligibleTrendStates} :
                                    A!Stored(judged[t])}
                    IN  Reads(q, "generate",
                              [judged |-> [t \in kept |-> judged[t]],
                               rows |-> Copy(opportunities, UNION {OpportunitiesOf(t) : t \in kept})])
            BY <4>6 DEF Generate
          <5> QED
            BY <5>1
        <4>7. CASE Monitor(q) \/ MonitorCheck(q)
          BY <4>7 DEF Monitor, MonitorCheck
        <4> QED
          BY <4>1, <4>2, <4>3, <4>4, <4>5, <4>6, <4>7
      <3>3. r # q => requests'[r] = requests[r]
        BY <3>1, <3>2 DEF RequestsInv, Ends, Reads, ReadsOn
      <3>4. r = q
        BY <3>3 DEF At
      <3> QED
        BY <3>1, <3>2, <3>4 DEF RequestsInv, Ends, Reads, ReadsOn, At
    <2> QED
      BY <2>1, <2>2
  <1>2. Spec => [][MovesTold]_vars
    BY <1>1, AnalysisInvariant, PTL DEF Spec
  <1> QED
    BY <1>2 DEF EventsAreMoves, MovesTold
=============================================================================
