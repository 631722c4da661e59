------------------------------- MODULE Clusters ------------------------------
(***************************************************************************)
(* How entities are grouped into topics (build_clusters in                 *)
(* services/topics.py), one step for each turn of its loops.  words maps   *)
(* an entity to the set of the words of its name, seen a pair of entities  *)
(* to the number of records they share.  The order in which the code goes  *)
(* through groups and pairs is left open.                                  *)
(***************************************************************************)
EXTENDS Integers, FiniteSets, FiniteSetsExt

CONSTANTS Names,        \* the entities that may be stored
          NameWords,    \* the words of their names
          Together      \* what seen may be
ASSUME ClustersAssumption ==
    IsFiniteSet(Names) /\ \A s \in Together : DOMAIN s \subseteq Names \X Names

VARIABLES words, seen,
          build,        \* where a rebuild is
          groups,       \* the groups of shared words that are not joined to a class yet
          classes,      \* the classes of the union-find
          pairs         \* the pairs that are not joined yet
clustersVars == <<words, seen, build, groups, classes, pairs>>

MinCoOccurrence == 3
MaxClusterSize == 12

Entities == DOMAIN words
With(t) == {e \in Entities : t \in words[e]}

\* MAX_TOKEN_SHARE is 0.4, with a floor of three.
Distinctive ==
    LET limit == Max({3, (4 * Cardinality(Entities)) \div 10})
    IN  {t \in UNION {words[e] : e \in Entities} : Cardinality(With(t)) \in 2..limit}

\* TOKEN_GROUP_MERGE is 0.5: half of the two together is in both.
Overlapping(a, b) == 2 * Cardinality(a \cap b) >= Cardinality(a \cup b)

\* Mutant: only one class is joined.
UniteOne(set) ==
    LET touched == CHOOSE c \in classes : c \cap set # {}
    IN  (classes \ {touched}) \cup {touched \cup set}

\* union of the union-find: everything that shares a member with the set is one class.
Unite(set) ==
    LET touched == {c \in classes : c \cap set # {}}
    IN  (classes \ touched) \cup {UNION touched}

-----------------------------------------------------------------------------
\* An entity is stored with the name it is found under.
Store(e, name) ==
    /\ build \in {"idle", "done"} /\ e \notin Entities
    /\ words' = [k \in Entities \cup {e} |-> IF k = e THEN name ELSE words[k]]
    /\ build' = "idle" /\ groups' = {} /\ classes' = {} /\ pairs' = {}
    /\ UNCHANGED seen

\* One group for each distinctive word, and every entity a class of its own.  Pairs
\* count when they are seen together often and share a distinctive word.
Begin ==
    /\ build = "idle" /\ build' = "merge"
    /\ groups' = {With(t) : t \in Distinctive}
    /\ classes' = {{e} : e \in Entities}
    /\ pairs' = {p \in DOMAIN seen : /\ seen[p] >= MinCoOccurrence
                                     /\ p[1] \in Entities /\ p[2] \in Entities
                                     /\ words[p[1]] \cap words[p[2]] \cap Distinctive # {}}
    /\ UNCHANGED <<words, seen>>

Merge(a, b) ==
    /\ build = "merge" /\ a # b /\ Overlapping(a, b)
    /\ groups' = (groups \ {a, b}) \cup {a \cup b}
    /\ UNCHANGED <<words, seen, build, classes, pairs>>

Merged ==
    /\ build = "merge" /\ \A a, b \in groups : a = b \/ ~Overlapping(a, b)
    /\ build' = "unite"
    /\ UNCHANGED <<words, seen, groups, classes, pairs>>

UniteGroup(group) ==
    /\ build = "unite"
    /\ classes' = Unite(group) /\ groups' = groups \ {group}
    /\ UNCHANGED <<words, seen, build, pairs>>

UnitePair(p) ==
    /\ build = "unite" /\ groups = {}
    /\ classes' = Unite({p[1], p[2]}) /\ pairs' = pairs \ {p}
    /\ UNCHANGED <<words, seen, build, groups>>

Grouped ==
    /\ build = "unite" /\ groups = {} /\ pairs = {}
    /\ build' = "done"
    /\ UNCHANGED <<words, seen, groups, classes, pairs>>

ClustersInit ==
    /\ words = [e \in {} |-> {}] /\ seen \in Together
    /\ build = "idle" /\ groups = {} /\ classes = {} /\ pairs = {}

ClustersNext ==
    \/ \E e \in Names, name \in SUBSET NameWords : Store(e, name)
    \/ Begin \/ Merged \/ Grouped
    \/ \E a, b \in groups : Merge(a, b)
    \/ \E group \in groups : UniteGroup(group)
    \/ \E p \in pairs : UnitePair(p)

ClustersSpec == ClustersInit /\ [][ClustersNext]_clustersVars

-----------------------------------------------------------------------------
(* What becomes of the classes.                                            *)

\* The words a topic may be named by.  When no word is common to all, up to three
\* that at least 60% share: equals are taken in the order of a set of strings,
\* which differs from one process to the next.
SharedWords(members) ==
    LET common == {t \in Distinctive : members \subseteq With(t)}
        count(t) == Cardinality(With(t) \cap members)
        frequent == {t \in Distinctive : 10 * count(t) >= 6 * Cardinality(members)}
        chosen == {s \in SUBSET frequent :
                     /\ Cardinality(s) = Min({3, Cardinality(frequent)})
                     /\ \A t \in s, u \in frequent \ s : count(t) >= count(u)}
    IN  IF common # {} THEN {common} ELSE chosen \ {{}}

\* Every outcome a call may have: the clusters, each with the words naming it.
Outcomes ==
    LET kept == {c \in classes : Cardinality(c) \in 2..MaxClusterSize /\ SharedWords(c) # {}}
    IN  {f \in [kept -> SUBSET Distinctive] : \A c \in kept : f[c] \in SharedWords(c)}

\* rebuild_topics keeps one topic for each set of words, and only ever adds members.
Rebuild(topics, clusters) ==
    [n \in DOMAIN topics \cup {clusters[c] : c \in DOMAIN clusters} |->
        (IF n \in DOMAIN topics THEN topics[n] ELSE {})
        \cup UNION {c \in DOMAIN clusters : clusters[c] = n}]

-----------------------------------------------------------------------------
(* Properties.                                                             *)

\* Reference: whoever shares a distinctive word with a member is a member too.
Closed(s) == \A t \in Distinctive : With(t) \cap s # {} => With(t) \subseteq s

\* The chains of names each of which shares a distinctive word with the next.
Chains ==
    LET closed == {s \in SUBSET Entities : s # {} /\ Closed(s)}
    IN  {s \in closed : \A u \in closed : u \subseteq s => u = s}

\* The topics are exactly the chains of shared distinctive words: joining groups
\* that overlap and pairs that are often seen together, as build_clusters does,
\* neither adds nor loses a member; and whichever words a rebuild names them by,
\* no two of its clusters end up in one topic row.
TopicsAreChains ==
    build = "done" =>
        /\ classes = Chains
        /\ \A o \in Outcomes :
              LET topics == Rebuild([n \in {} |-> {}], o)
              IN  {topics[n] : n \in DOMAIN topics} = DOMAIN o
=============================================================================
