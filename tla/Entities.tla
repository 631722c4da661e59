------------------------------- MODULE Entities ------------------------------
(***************************************************************************)
(* Entity resolution and its review (services/entities.py, the decision    *)
(* endpoint in api/v1/trends.py, the signal of a record in                 *)
(* services/ingestion.py) on the tables they share.                        *)
(*                                                                         *)
(* A request is one database transaction of one actor.  It reads rows in   *)
(* one or two steps and keeps what it read; its last step writes and       *)
(* commits, or fails and leaves no trace.  In between others commit: what  *)
(* was read may be gone, and only the constraints of the tables say so.    *)
(* A table is a sequence of rows, numbered as they are inserted, None when *)
(* deleted.  All entities are of one type, names are normalised: a name is *)
(* a record [letters, words].                                              *)
(***************************************************************************)
EXTENDS Integers, Sequences, FiniteSets, SequencesExt, FiniteSetsExt, Functions

CONSTANTS None, Requests,
          Mentions      \* what sources report: records [name, id, source]

VARIABLES
    entities,     \* rows [name, id]
    aliases,      \* the entity of each known name
    candidates,   \* rows [name, target, created, decision]: the review queue
    signals,      \* rows [entity, source, seen]: with the mentions it was observed by
    requests,     \* [kind, pc, seen]: seen is what the request has read
    overlap       \* history: the kinds of requests that were under way together

entityVars == <<entities, aliases, candidates, signals>>

Live(table) == {i \in DOMAIN table : table[i] # None}

-----------------------------------------------------------------------------
(* Requests.                                                               *)

At(r, kind, pc) == requests[r].kind = kind /\ requests[r].pc = pc
UnderWay(r) == requests[r].pc \in {"read", "gathered"}

Reads(r, kind, seen) ==
    /\ At(r, kind, "new")
    /\ requests' = [requests EXCEPT ![r].pc = "read", ![r].seen = seen]
    /\ overlap' = overlap \cup {{kind, requests[q].kind} : q \in {p \in Requests : UnderWay(p)}}

ReadsOn(r, kind, seen) ==
    /\ At(r, kind, "read")
    /\ requests' = [requests EXCEPT ![r].pc = "gathered", ![r].seen = seen]
    /\ UNCHANGED overlap

Ends(r, kind, pc, how) ==
    /\ At(r, kind, pc)
    /\ requests' = [requests EXCEPT ![r].pc = how, ![r].seen = None]
    /\ UNCHANGED overlap

-----------------------------------------------------------------------------
(* Resolution: proof merges, resemblance only asks.                        *)

\* In hundredths.
Similarity(a, b) ==
    LET both == a.words \cap b.words
        jaccard == (100 * Cardinality(both)) \div Cardinality(a.words \cup b.words)
    IN  IF a = b THEN 100
        ELSE IF a.letters = b.letters THEN 95
        ELSE IF a.words = b.words THEN 90
        ELSE Max({jaccard, IF both \in {a.words, b.words} THEN 60 ELSE 0})

ReviewThreshold == 60

\* The three most alike at most; the model has no more than three names.
FindSimilar(name) ==
    {e \in Live(entities) :
        entities[e].name # name /\ Similarity(name, entities[e].name) >= ReviewThreshold}

FindByIdentifier(m) == {e \in Live(entities) : m.id # None /\ entities[e].id = m.id}

FindByAlias(name) ==
    IF name \in DOMAIN aliases THEN {aliases[name]}
    ELSE {e \in Live(entities) : entities[e].name = name}

Ruling(name, e) ==
    LET rows == {c \in Live(candidates) : candidates[c].name = name /\ candidates[c].target = e}
    IN  IF rows = {} THEN None ELSE candidates[CHOOSE c \in rows : TRUE].decision

MostAlike(name, found) ==
    {e \in found : \A f \in found :
        Similarity(name, entities[e].name) >= Similarity(name, entities[f].name)}

\* What one mention may be resolved to: rows of equal standing come in any order.
ResolveEntity(m) ==
    LET similar == FindSimilar(m.name)
        ruled(d) == {e \in similar : Ruling(m.name, e) \in d}
        asked == similar \ ruled({"rejected", "keep_separate"})
        result(on, e, target) == [on |-> on, entity |-> e, target |-> target]
    IN  IF FindByIdentifier(m) # {}
        THEN {result("identifier", e, None) : e \in FindByIdentifier(m)}
        ELSE IF FindByAlias(m.name) # {}
        THEN {result("alias", e, None) : e \in FindByAlias(m.name)}
        ELSE IF ruled({"confirmed"}) # {}
        THEN {result("human_confirmed", e, None) : e \in MostAlike(m.name, ruled({"confirmed"}))}
        ELSE IF asked = {} THEN {result("created", None, None)}
        ELSE {result("created", None, IF Ruling(m.name, e) = None THEN e ELSE None) :
                 e \in MostAlike(m.name, asked)}

SignalOf(e, source) ==
    LET rows == {s \in DOMAIN signals : signals[s].entity = e /\ signals[s].source = source}
    IN  IF rows = {} THEN None ELSE CHOOSE s \in rows : TRUE

\* What the collection of a mention has read, and what it is going to write.
Resolved(m, o) ==
    [mention |-> m, on |-> o.on, entity |-> o.entity, target |-> o.target,
     learns |-> o.entity # None /\ m.id # None /\ entities[o.entity].id = None,
     names |-> o.on \in {"identifier", "human_confirmed"} /\ m.name \notin DOMAIN aliases,
     signal |-> IF o.entity = None THEN None ELSE SignalOf(o.entity, m.source)]

\* One record of a source run: the entity, its signal, an observation.
Collect(r) ==
    /\ \E m \in Mentions : \E o \in ResolveEntity(m) : Reads(r, "collect", Resolved(m, o))
    /\ UNCHANGED entityVars

\* What the unique and foreign keys refuse, and the rows an update misses.
CollectConflicts(s) ==
    \/ s.on = "created" /\ FindByAlias(s.mention.name) # {}
    \/ s.target # None /\ s.target \notin Live(entities)
    \/ s.names /\ s.mention.name \in DOMAIN aliases
    \/ (s.names \/ s.learns \/ s.signal = None) /\ s.on # "created" /\ s.entity \notin Live(entities)
    \/ s.signal = None /\ s.on # "created" /\ SignalOf(s.entity, s.mention.source) # None

CollectCommit(r) ==
    LET s == requests[r].seen
        m == s.mention
        new == Len(entities) + 1
        e == IF s.on = "created" THEN new ELSE s.entity
    IN  /\ Ends(r, "collect", "read", "done")
        /\ ~CollectConflicts(s)
        /\ entities' = IF s.on = "created" THEN Append(entities, [name |-> m.name, id |-> m.id])
                       ELSE IF s.learns THEN [entities EXCEPT ![e].id = m.id] ELSE entities
        /\ aliases' = IF s.on = "created" \/ s.names
                      THEN [n \in DOMAIN aliases \cup {m.name} |-> IF n = m.name THEN e ELSE aliases[n]]
                      ELSE aliases
        /\ candidates' = IF s.target = None THEN candidates
                         ELSE Append(candidates, [name |-> m.name, target |-> s.target,
                                                  created |-> new, decision |-> "pending"])
        /\ signals' = IF s.signal = None
                      THEN Append(signals, [entity |-> e, source |-> m.source, seen |-> {m}])
                      ELSE [signals EXCEPT ![s.signal].seen = @ \cup {m}]

CollectFails(r) ==
    /\ Ends(r, "collect", "read", "failed")
    /\ CollectConflicts(requests[r].seen)
    /\ UNCHANGED entityVars

-----------------------------------------------------------------------------
(* A person rules on a candidate; a confirmation merges.                   *)

Rulings == {"confirmed", "rejected", "keep_separate"}

\* decide_match: what is no longer pending is refused, without a lock.
Decide(r) ==
    /\ \E c \in Live(candidates), d \in Rulings :
          /\ candidates[c].decision = "pending"
          /\ Reads(r, "decide", [candidate |-> c, decision |-> d, created |-> candidates[c].created,
                                 survivor |-> candidates[c].target, duplicate |-> None])
    /\ UNCHANGED entityVars

Merges(s) == s.decision = "confirmed" /\ s.created # None
                /\ {s.survivor, s.created} \subseteq Live(entities)

\* A merge that is under way locks the rows it has moved and the survivor.
Gathered == {s \in {requests[r].seen : r \in {q \in Requests :
                       At(q, "decide", "gathered")}} : s.duplicate # None}

SignalsOf(e) == {s \in DOMAIN signals : signals[s].entity = e}
\* Mutant: only the name the entity was created by is moved.
AliasesOfName(e) == {n \in DOMAIN aliases : aliases[n] = e /\ e \in Live(entities) /\ entities[e].name = n}
AliasesOf(e) == {n \in DOMAIN aliases : aliases[n] = e}

\* Moving the signals may meet one of the same source at the survivor.
SignalsClash(survivor, duplicate) ==
    \E s \in SignalsOf(duplicate) : SignalOf(survivor, signals[s].source) # None

\* apply_decision up to the deletion of the duplicate.
DecideGather(r) ==
    LET s == requests[r].seen
    IN  /\ At(r, "decide", "read")
        /\ Merges(s) => \A t \in Gathered : t.duplicate # s.created
        /\ Merges(s) => ~SignalsClash(s.survivor, s.created)
        /\ ReadsOn(r, "decide",
               [candidate |-> s.candidate, decision |-> s.decision, survivor |-> s.survivor,
                duplicate |-> IF Merges(s) THEN s.created ELSE None,
                signals |-> IF Merges(s) THEN SignalsOf(s.created) ELSE {},
                aliases |-> IF Merges(s) THEN AliasesOf(s.created) ELSE {},
                id |-> IF Merges(s) /\ entities[s.survivor].id = None THEN entities[s.created].id ELSE None])
        /\ UNCHANGED entityVars

DecideClashes(r) ==
    /\ Ends(r, "decide", "read", "failed")
    /\ Merges(requests[r].seen)
    /\ SignalsClash(requests[r].seen.survivor, requests[r].seen.created)
    /\ UNCHANGED entityVars

DecideConflicts(s) ==
    \/ s.candidate \notin Live(candidates)
    \/ s.duplicate # None /\ (s.survivor \notin Live(entities) \/ ~(SignalsOf(s.duplicate) \subseteq s.signals))

\* What refers to the deleted duplicate is deleted with it, or forgets it.
CandidateAfter(c, s) ==
    LET row == candidates[c]
        ruled == IF c = s.candidate THEN [row EXCEPT !.decision = s.decision] ELSE row
    IN  IF row = None \/ (row.target = s.duplicate /\ s.duplicate # None) THEN None
        ELSE IF row.created = s.duplicate THEN [ruled EXCEPT !.created = None] ELSE ruled

DecideCommit(r) ==
    LET s == requests[r].seen
        kept == {n \in DOMAIN aliases : n \in s.aliases \/ aliases[n] # s.duplicate}
    IN  /\ Ends(r, "decide", "gathered", "done")
        /\ ~DecideConflicts(s)
        /\ \A t \in Gathered : t.survivor # s.duplicate
        /\ candidates' = [c \in DOMAIN candidates |-> CandidateAfter(c, s)]
        /\ aliases' = [n \in kept |-> IF n \in s.aliases THEN s.survivor ELSE aliases[n]]
        /\ signals' = [i \in DOMAIN signals |->
               IF i \in s.signals THEN [signals[i] EXCEPT !.entity = s.survivor] ELSE signals[i]]
        /\ entities' = [e \in DOMAIN entities |->
               IF e = s.duplicate THEN None
               ELSE IF e = s.survivor /\ s.id # None THEN [entities[e] EXCEPT !.id = s.id]
               ELSE entities[e]]

DecideFails(r) ==
    /\ Ends(r, "decide", "gathered", "failed")
    /\ DecideConflicts(requests[r].seen)
    /\ UNCHANGED entityVars

-----------------------------------------------------------------------------
TypeOKEntities ==
    /\ \A e \in Live(entities) : entities[e].id \in {m.id : m \in Mentions} \cup {None}
    /\ \A n \in DOMAIN aliases : aliases[n] \in Live(entities)
    /\ \A c \in Live(candidates) : candidates[c].decision \in Rulings \cup {"pending"}
    /\ \A s \in DOMAIN signals : signals[s].entity \in Live(entities) /\ signals[s].seen \subseteq Mentions

(***************************************************************************)
(* The inductive invariant of these tables.                                *)
(***************************************************************************)
Names == {m.name : m \in Mentions}
Ids == {m.id : m \in Mentions} \cup {None}
EntityRows == [name : Names, id : Ids]
CandidateRows == [name : Names, target : Nat, created : Nat \cup {None}, decision : Rulings \cup {"pending"}]
SignalRows == [entity : Nat, source : {m.source : m \in Mentions}, seen : SUBSET Mentions]

ASSUME NoneAssumption == None \notin Nat \cup EntityRows \cup CandidateRows

\* Every reference is to a row that is there, and every entity was seen.
TablesInv ==
    /\ entities \in Seq(EntityRows \cup {None})
    /\ candidates \in Seq(CandidateRows \cup {None})
    /\ signals \in Seq(SignalRows)
    /\ aliases = [n \in DOMAIN aliases |-> aliases[n]]
    /\ \A n \in DOMAIN aliases : aliases[n] \in Live(entities)
    /\ \A c \in Live(candidates) :
          /\ candidates[c].target \in Live(entities)
          /\ candidates[c].created # None => candidates[c].created \in Live(entities)
          /\ candidates[c].created # candidates[c].target
    /\ \A s \in DOMAIN signals : signals[s].entity \in Live(entities)
    /\ \A e \in Live(entities) : SignalsOf(e) # {}

\* What a collection or a ruling has read was there when it read it.
CollectSeen(s) ==
    /\ s.mention \in Mentions /\ s.names \in BOOLEAN /\ s.learns \in BOOLEAN
    /\ s.on = "created" <=> s.entity = None
    /\ s.on = "created" => s.signal = None /\ ~s.learns /\ ~s.names
    /\ s.entity # None => s.entity \in DOMAIN entities
    /\ s.target # None => s.on = "created" /\ s.target \in DOMAIN entities
    /\ s.signal # None => s.signal \in DOMAIN signals

DecideSeen(s) ==
    /\ s.candidate \in DOMAIN candidates /\ s.decision \in Rulings
    /\ s.survivor \in DOMAIN entities
    /\ s.created # None => s.created \in DOMAIN entities
    /\ s.created # s.survivor

\* The rows a merge has gathered stay with the duplicate until it commits.
MergeSeen(s) ==
    /\ s.candidate \in DOMAIN candidates /\ s.decision \in Rulings
    /\ s.survivor \in DOMAIN entities /\ s.survivor # s.duplicate
    /\ s.id \in Ids
    /\ s.duplicate = None => s.signals = {} /\ s.aliases = {} /\ s.id = None
    /\ s.duplicate # None => s.duplicate \in Live(entities)
    /\ \A n \in s.aliases : n \in DOMAIN aliases /\ aliases[n] = s.duplicate
    /\ \A i \in s.signals : i \in DOMAIN signals /\ signals[i].entity = s.duplicate

SeenBy(r) ==
    /\ At(r, "collect", "read") => CollectSeen(requests[r].seen)
    /\ At(r, "decide", "read") => DecideSeen(requests[r].seen)
    /\ At(r, "decide", "gathered") => MergeSeen(requests[r].seen)

SeenInv == \A r \in Requests : SeenBy(r)

\* Two merges under way take different entities away.
MergesInv ==
    \A q, r \in Requests :
        q # r /\ At(q, "decide", "gathered") /\ At(r, "decide", "gathered")
              /\ requests[q].seen.duplicate # None =>
            requests[q].seen.duplicate # requests[r].seen.duplicate

\* A merge that is going to succeed has gathered every name of its duplicate,
\* unless a collection was under way at the same time.
GatheredInv ==
    {"collect", "decide"} \notin overlap =>
        \A r \in Requests :
            LET s == requests[r].seen
            IN  At(r, "decide", "gathered") /\ s.duplicate # None /\ SignalsOf(s.duplicate) \subseteq s.signals
                    => AliasesOf(s.duplicate) \subseteq s.aliases

\* Requests are records, and the overlap of two that are under way is on record.
RequestsInv ==
    /\ DOMAIN requests = Requests
    /\ \A r \in Requests : DOMAIN requests[r] = {"kind", "pc", "seen"}
    /\ \A q, r \in Requests :
          q # r /\ UnderWay(q) /\ UnderWay(r) => {requests[q].kind, requests[r].kind} \in overlap

EntitiesInv == RequestsInv /\ TablesInv /\ SeenInv /\ MergesInv /\ GatheredInv

-----------------------------------------------------------------------------
\* Names that were taken for one thing are never taken for two again, a name that
\* was known stays known, and an observation stays with the name it was collected
\* under: whatever is merged, by whom, in which order, and whoever collects
\* meanwhile.  Only a merge that overlaps a collection may lose a name, which was
\* added to the duplicate after its names were gathered (resolve_entity,
\* apply_decision, the cascades of entity_aliases).
NamesStayTogether ==
    [][LET staying == DOMAIN aliases \cap DOMAIN aliases'
       IN  /\ \A n \in staying, o \in staying : aliases[n] = aliases[o] => aliases'[n] = aliases'[o]
           /\ {"collect", "decide"} \notin overlap => staying = DOMAIN aliases
           /\ \A s \in DOMAIN signals, n \in staying :
                 /\ s \in DOMAIN signals' /\ signals[s].seen \subseteq signals'[s].seen
                 /\ signals[s].entity = aliases[n] => signals'[s].entity = aliases'[n]]_entityVars

\* What decide_match promises: "Decisions are kept, not overwritten", "remembered
\* forever".
RulingsAreKept ==
    [][\A c \in Live(candidates) :
          candidates[c].decision # "pending" =>
              c \in Live(candidates') /\ candidates'[c].decision = candidates[c].decision]_entityVars
=============================================================================
