------------------------- MODULE AlertDispatchProofs --------------------------
(***************************************************************************)
(* Proofs about AlertDispatch, for every number of users, rules, runs,     *)
(* hours and changes.                                                      *)
(***************************************************************************)
EXTENDS AlertDispatch, TLAPS

\* The row of the condition has one holder.
HoldInv == \A r, o \in Runs : HoldsRow(r) /\ HoldsRow(o) => r = o

\* What a run has in hand is of rules that are not in their cooldown, and is
\* about events no rule has been told of.
Hand(r) ==
    /\ staged[r] # {} \/ fired[r] # {} => pc[r] \in {"rules", "deliver"}
    /\ mine[r] # {} => pc[r] = "deliver"
    /\ pc[r] = "deliver" => ~Cooling(rule[r], r)
    /\ \A x \in mine[r] : x.rule = rule[r]
    /\ \A x \in staged[r] : x.rule \in fired[r]
    /\ \A u \in fired[r] : ~Cooling(u, r) /\ \E x \in staged[r] : x.rule = u
    /\ \A x \in mine[r] \cup staged[r] :
          x.at = at[r] /\ x.run = number[r] /\ ~Told(x.rule, x.event)
HandInv == \A r \in Runs : Hand(r)

\* What is stored: a rule's last alert is the one it says it is, and an event
\* was told under one run.
StoreInv ==
    /\ \A x \in rows : lastFired[x.rule] # None /\ x.at <= lastFired[x.rule]
    /\ \A x, y \in rows : x.rule = y.rule /\ x.event = y.event => x.run = y.run
    /\ FiredMeansTold
    /\ CooldownRespected

\* A message that counts is on record, or its row is in a run's hands.
Key(x) == <<x.rule, x.event, x.run>>
MessageInv ==
    \A m \in inbox \ undone :
        \/ \E x \in rows : Key(x) = m
        \/ \E r \in Runs : \E x \in mine[r] \cup staged[r] : Key(x) = m

\* A run answers for its own events until it has told them or let them go.
Answered(r, u, e) ==
    \/ Told(u, e)
    \/ <<u, e>> \in skips[r]
    \/ e \in window[r] /\ u \in left[r]
    \/ e \in window[r] /\ pc[r] = "deliver" /\ rule[r] = u
          /\ (e \in todo[r] \/ \E x \in mine[r] : x.rule = u /\ x.event = e)
    \/ \E x \in staged[r] : x.rule = u /\ x.event = e
Answers(r) ==
    /\ \A e \in derived[r] : e.at = at[r]
    /\ pc[r] \in {"rules", "deliver"} =>
          \A e \in derived[r], u \in Rules :
              e.kind \in Triggers[u] => Answered(r, u, e)
AnswerInv == \A r \in Runs : Answers(r)

\* A run's number is its own, and its events carry it.
NumberInv ==
    /\ \A e \in events : e.run <= runs
    /\ \A r \in Runs :
          pc[r] # "idle" =>
             /\ number[r] <= runs
             /\ \A e \in events : e.run # number[r]
             /\ \A o \in Runs \ {r} : pc[o] # "idle" => number[o] # number[r]
    /\ \A r \in Runs : \A e \in derived[r] : e.run = number[r] /\ pc[r] # "idle"

\* A run that found the condition met anew has the event that says so, one.
Checked(r) == pc[r] \in {"flush", "load", "rules", "deliver"}
Verdict(r) ==
    /\ Checked(r) /\ seen[r] /\ ~loaded[r] => \E e \in derived[r] : e.kind = "met"
    /\ \A e \in derived[r] :
          e.kind = "met" => Checked(r) /\ seen[r] /\ ~loaded[r]
    /\ \A d, e \in derived[r] : d.kind = "met" /\ e.kind = "met" => d = e
VerdictInv == \A r \in Runs : Verdict(r)

\* The scheduled runs take turns, and what they derive is of the past.
LockedMet(d) == d.kind = "met" /\ d.locked
TurnInv == \A r \in Scheduled : pc[r] # "idle" => lock = r
FactInv ==
    /\ \A r \in Runs : \A d \in derived[r] :
          /\ d.kind = "met" => d.fact <= rises /\ d.scoring <= scorings
          /\ d.locked <=> r \in Scheduled
    /\ \A d \in events : LockedMet(d) => d.fact <= rises /\ d.scoring <= scorings

\* What they announced of the current rise still shows in the condition, or was
\* undercut; who saw no rise saw the measure after it fell again; and who
\* announces a rise again does so because it was undercut.
ShowsInv ==
    \A d \in events :
        LockedMet(d) /\ d.fact = rises /\ d.scoring = scorings =>
            condition \/ ~holds \/ <<rises, scorings>> \in undercut
FallInv ==
    \A r \in Scheduled, d \in events :
        Checked(r) /\ ~seen[r] /\ LockedMet(d) /\ d.fact = rises => ~holds
AgainInv ==
    \A r \in Scheduled : \A d \in derived[r], e \in events :
        /\ d.kind = "met" /\ LockedMet(e)
        /\ d.fact = e.fact /\ d.scoring = e.scoring
        => <<d.fact, d.scoring>> \in undercut

-----------------------------------------------------------------------------
(***************************************************************************)
(* Types.                                                                  *)
(***************************************************************************)
LEMMA Hours == /\ CooldownHours \in Nat /\ LookbackHours \in Nat /\ StepHours \in Nat
               /\ EventLimit \in Nat /\ MaxHours \in Nat /\ MaxRuns \in Nat
               /\ MaxChanges \in Nat
  BY HoursAssumption

LEMMA NoRuleType == NoRule \in Rules
  BY RulesAssumption DEF NoRule

LEMMA NoneIsNoHour == None \notin Nat /\ None \notin Runs
  BY RunsAssumption

LEMMA TypeInit == Init => TypeOK
  <1> SUFFICES ASSUME Init PROVE TypeOK
    OBVIOUS
  <1> USE DEF Init
  <1>1. 0 \in 0..MaxHours /\ 0 \in 0..MaxChanges /\ 0 \in 0..MaxRuns
    BY Hours
  <1>2. /\ clock \in 0..MaxHours /\ at \in [Runs -> 0..MaxHours]
        /\ number \in [Runs -> 0..MaxRuns] /\ based \in [Runs -> 0..MaxChanges]
        /\ rises \in 0..MaxChanges /\ scorings \in 0..MaxChanges /\ runs \in 0..MaxRuns
    BY <1>1
  <1>3. rule \in [Runs -> Rules] /\ pc \in [Runs -> Places] /\ lock \in Scheduled \cup {None}
        /\ lastFired \in [Rules -> (0..MaxHours) \cup {None}]
    BY NoRuleType DEF Places
  <1>4. /\ window \in [Runs -> SUBSET Events] /\ derived \in [Runs -> SUBSET Events]
        /\ todo \in [Runs -> SUBSET Events] /\ left \in [Runs -> SUBSET Rules]
        /\ fired \in [Runs -> SUBSET Rules]
    OBVIOUS
  <1>5. /\ mine \in [Runs -> SUBSET Rows] /\ staged \in [Runs -> SUBSET Rows]
        /\ skips \in [Runs -> SUBSET (Rules \X Events)]
    OBVIOUS
  <1>6. /\ holds \in BOOLEAN /\ moved \in BOOLEAN /\ condition \in BOOLEAN
        /\ loaded \in [Runs -> BOOLEAN] /\ seen \in [Runs -> BOOLEAN]
    OBVIOUS
  <1>7. /\ events \subseteq Events /\ rows \subseteq Rows /\ inbox \subseteq Messages
        /\ undone \subseteq Messages /\ excused \subseteq Rules \X Events
        /\ undercut \subseteq (0..MaxChanges) \X (0..MaxChanges)
    OBVIOUS
  <1>8. \A r \in Runs : pc[r] # "idle" => number[r] # 0
    OBVIOUS
  <1> QED
    BY <1>2, <1>3, <1>4, <1>5, <1>6, <1>7, <1>8 DEF TypeOK

LEMMA TypeWorld ==
  ASSUME TypeOK, World
  PROVE  TypeOK'
  <1> USE DEF TypeOK, storeVars, sentVars, readVars, ruleVars
  <1>1. CASE Tick
    <2>1. clock' \in 0..MaxHours
      BY <1>1, Hours DEF Tick
    <2> QED
      BY <1>1, <2>1 DEF Tick
  <1>2. CASE Measure
    <2>1. rises' \in 0..MaxChanges /\ holds' \in BOOLEAN
      BY <1>2, Hours DEF Measure
    <2> QED
      BY <1>2, <2>1 DEF Measure
  <1>3. CASE Rescore
    <2>1. scorings' \in 0..MaxChanges
      BY <1>3, Hours DEF Rescore
    <2> QED
      BY <1>3, <2>1 DEF Rescore
  <1> QED
    BY <1>1, <1>2, <1>3 DEF World

LEMMA TypeBegin ==
  ASSUME TypeOK, NEW r \in Runs, Begin(r)
  PROVE  TypeOK'
  <1> USE DEF TypeOK, storeVars, sentVars, worldVars, ruleVars
  <1>1. runs' \in 0..MaxRuns /\ runs' # 0
    BY Hours DEF Begin
  <1>2. pc' \in [Runs -> Places] /\ number' \in [Runs -> 0..MaxRuns] /\ at' \in [Runs -> 0..MaxHours]
    BY <1>1 DEF Begin, Places
  <1>3. \A o \in Runs : pc'[o] # "idle" => number'[o] # 0
    BY <1>1 DEF Begin
  <1> QED
    BY <1>1, <1>2, <1>3 DEF Begin

LEMMA EventType ==
  ASSUME TypeOK, NEW r \in Runs, pc[r] # "idle", NEW kind \in Kinds, NEW fact \in 0..MaxChanges
  PROVE  Event(kind, fact, r) \in Events
  <1>1. number[r] \in 1..MaxRuns
    BY Hours DEF TypeOK
  <1> QED
    BY <1>1 DEF TypeOK, Event, Events

LEMMA TypeRead ==
  ASSUME TypeOK, NEW r \in Runs, Check(r) \/ Flush(r)
  PROVE  TypeOK'
  <1> USE DEF TypeOK, worldVars, storeVars, sentVars, ruleVars
  <1>1. CASE Check(r)
    <2>1. Event("met", rises, r) \in Events
      BY <1>1, EventType DEF Check, Kinds
    <2>2. derived' \in [Runs -> SUBSET Events]
      BY <1>1, <2>1 DEF Check
    <2>3. pc' \in [Runs -> Places] /\ \A o \in Runs : pc'[o] # "idle" => pc[o] # "idle"
      BY <1>1 DEF Check, Places
    <2> QED
      BY <1>1, <2>2, <2>3 DEF Check
  <1>2. CASE Flush(r)
    <2>1. Event("score", scorings, r) \in Events
      BY <1>2, EventType DEF Flush, Kinds
    <2>2. derived' \in [Runs -> SUBSET Events]
      BY <1>2, <2>1 DEF Flush
    <2>3. pc' \in [Runs -> Places] /\ \A o \in Runs : pc'[o] # "idle" => pc[o] # "idle"
      BY <1>2 DEF Flush, Places
    <2> QED
      BY <1>2, <2>2, <2>3 DEF Flush
  <1> QED
    BY <1>1, <1>2

LEMMA RecentType ==
  ASSUME TypeOK, NEW r \in Runs
  PROVE  Recent(r) \subseteq Events
  BY DEF TypeOK, Recent

LEMMA MissedType ==
  ASSUME NEW u \in Rules, NEW E \in SUBSET Events
  PROVE  Missed(u, E) \subseteq Rules \X Events
  BY DEF Missed, Untold, Matching

LEMMA NeglectedType ==
  ASSUME TypeOK, NEW r \in Runs, NEW W, NEW ready
  PROVE  Neglected(r, W, ready) \subseteq Rules \X Events
  BY RecentType DEF Neglected

LEMMA TypeLoad ==
  ASSUME TypeOK, NEW r \in Runs, Load(r)
  PROVE  TypeOK'
  <1> USE DEF TypeOK, worldVars, storeVars, sentVars
  <1>1. PICK W \in Newest(Recent(r)), ready \in SUBSET Rules :
          /\ window' = [window EXCEPT ![r] = W]
          /\ left' = [left EXCEPT ![r] = IF W = {} THEN {} ELSE ready]
          /\ skips' = [skips EXCEPT ![r] = Neglected(r, W, ready)]
    BY DEF Load
  <1>2. W \subseteq Events
    BY RecentType DEF Newest
  <1>3. Neglected(r, W, ready) \subseteq Rules \X Events
    BY <1>2, NeglectedType
  <1>4. /\ window' \in [Runs -> SUBSET Events] /\ left' \in [Runs -> SUBSET Rules]
        /\ skips' \in [Runs -> SUBSET (Rules \X Events)]
    BY <1>1, <1>2, <1>3
  <1>5. pc' \in [Runs -> Places] /\ \A o \in Runs : pc'[o] # "idle" => pc[o] # "idle"
    BY DEF Load, Places
  <1> QED
    BY <1>4, <1>5 DEF Load

LEMMA TypeRules ==
  ASSUME TypeOK, NEW r \in Runs, StartRule(r) \/ EndRule(r) \/ FailRule(r)
  PROVE  TypeOK'
  <1> USE DEF TypeOK, worldVars, storeVars, sentVars, readVars
  <1>1. \A o \in Runs : pc'[o] # "idle" => pc[o] # "idle"
    BY DEF StartRule, EndRule, FailRule
  <1>2. pc' \in [Runs -> Places]
    BY DEF StartRule, EndRule, FailRule, Places
  <1>3. CASE StartRule(r)
    <2>1. PICK u \in left[r] :
             /\ left' = [left EXCEPT ![r] = @ \ {u}]
             /\ IF Cooling(u, r)
                THEN /\ skips' = [skips EXCEPT ![r] = @ \cup Missed(u, window[r])]
                     /\ UNCHANGED <<pc, rule, todo>>
                ELSE /\ rule' = [rule EXCEPT ![r] = u]
                     /\ todo' = [todo EXCEPT ![r] = Matching(u, window[r])]
                     /\ pc' = [pc EXCEPT ![r] = "deliver"]
                     /\ UNCHANGED skips
      BY <1>3 DEF StartRule
    <2>2. u \in Rules /\ Missed(u, window[r]) \subseteq Rules \X Events
      BY MissedType
    <2>3. Matching(u, window[r]) \subseteq Events
      BY DEF Matching
    <2> QED
      BY <1>1, <1>2, <1>3, <2>1, <2>2, <2>3 DEF StartRule
  <1>4. CASE EndRule(r)
    BY <1>1, <1>2, <1>4 DEF EndRule
  <1>5. CASE FailRule(r)
    <2>1. Missed(rule[r], window[r]) \subseteq Rules \X Events
      BY MissedType
    <2>2. Arrived(mine[r]) \subseteq Messages
      BY DEF Arrived
    <2> QED
      BY <1>1, <1>2, <1>5, <2>1, <2>2 DEF FailRule
  <1> QED
    BY <1>3, <1>4, <1>5

LEMMA TypeDeliver ==
  ASSUME TypeOK, NEW r \in Runs, Deliver(r)
  PROVE  TypeOK'
  <1> USE DEF TypeOK, worldVars, storeVars, readVars
  <1>1. number[r] \in 1..MaxRuns
    BY Hours DEF Deliver
  <1>2. ASSUME NEW e \in Events, NEW o \in Outcomes \cup {<<"none", 0>>}
        PROVE  Row(r, e, o[1]) \in Rows /\ Message(r, e) \in Messages
    <2>1. o[1] \in {"none", "sent", "suppressed"}
      BY DEF Outcomes
    <2> QED
      BY <1>1, <2>1 DEF Row, Rows, Message, Messages
  <1>3. mine' \in [Runs -> SUBSET Rows] /\ inbox' \subseteq Messages
        /\ todo' \in [Runs -> SUBSET Events]
    BY <1>2 DEF Deliver
  <1> QED
    BY <1>3 DEF Deliver

LEMMA TypeReset ==
  ASSUME TypeOK, NEW r \in Runs, Reset(r)
  PROVE  /\ pc' \in [Runs -> Places] /\ \A o \in Runs : pc'[o] # "idle" => number'[o] # 0
         /\ lock' \in Scheduled \cup {None}
         /\ at' \in [Runs -> 0..MaxHours] /\ number' \in [Runs -> 0..MaxRuns]
         /\ loaded' \in [Runs -> BOOLEAN]
         /\ seen' \in [Runs -> BOOLEAN] /\ based' \in [Runs -> 0..MaxChanges]
         /\ derived' \in [Runs -> SUBSET Events] /\ window' \in [Runs -> SUBSET Events]
         /\ left' \in [Runs -> SUBSET Rules] /\ rule' \in [Runs -> Rules]
         /\ todo' \in [Runs -> SUBSET Events] /\ mine' \in [Runs -> SUBSET Rows]
         /\ staged' \in [Runs -> SUBSET Rows] /\ fired' \in [Runs -> SUBSET Rules]
         /\ skips' \in [Runs -> SUBSET (Rules \X Events)]
         /\ UNCHANGED <<worldVars, inbox, runs>>
  BY Hours, NoRuleType DEF TypeOK, Reset, Places

LEMMA TypeEnd ==
  ASSUME TypeOK, NEW r \in Runs, Commit(r) \/ Abort(r)
  PROVE  TypeOK'
  <1>1. Reset(r)
    BY DEF Commit, Abort
  <1>2. CASE Commit(r)
    <2>1. condition' \in BOOLEAN
      BY <1>2 DEF TypeOK, Commit, Verdicts
    <2>2. undercut' \subseteq (0..MaxChanges) \X (0..MaxChanges)
      BY <1>2 DEF TypeOK, Commit
    <2>3. /\ events' \subseteq Events /\ rows' \subseteq Rows
          /\ lastFired' \in [Rules -> (0..MaxHours) \cup {None}]
          /\ excused' \subseteq Rules \X Events /\ undone' = undone
      BY <1>2 DEF TypeOK, Commit
    <2> QED
      BY <1>1, <2>1, <2>2, <2>3, TypeReset DEF TypeOK, worldVars
  <1>3. CASE Abort(r)
    <2>1. undone' \subseteq Messages
      BY <1>3 DEF TypeOK, Abort, Arrived
    <2> QED
      BY <1>1, <1>3, <2>1, TypeReset DEF TypeOK, Abort, worldVars, storeVars
  <1> QED
    BY <1>2, <1>3

LEMMA TypeStep == TypeOK /\ [Next]_vars => TypeOK'
  <1> SUFFICES ASSUME TypeOK, [Next]_vars PROVE TypeOK'
    OBVIOUS
  <1>1. CASE UNCHANGED vars
    BY <1>1 DEF TypeOK, vars
  <1> QED
    BY <1>1, TypeWorld, TypeBegin, TypeRead, TypeLoad, TypeRules, TypeDeliver, TypeEnd
       DEF Next, Step

\* Every quantity keeps its type: a run's now, its number, the rows and the
\* messages it makes, the events it derives.
THEOREM AlertTypes == Spec => []TypeOK
  BY TypeInit, TypeStep, PTL DEF Spec

-----------------------------------------------------------------------------
(***************************************************************************)
(* What a step of one run leaves to the others, and one holder of the row. *)
(***************************************************************************)
Act(r) == Begin(r) \/ Step(r) \/ FailRule(r) \/ Abort(r)

LEMMA Others ==
  ASSUME TypeOK, NEW r \in Runs, Act(r), NEW o \in Runs \ {r}
  PROVE  /\ pc'[o] = pc[o] /\ at'[o] = at[o] /\ number'[o] = number[o]
         /\ loaded'[o] = loaded[o] /\ seen'[o] = seen[o]
         /\ derived'[o] = derived[o] /\ window'[o] = window[o] /\ left'[o] = left[o]
         /\ rule'[o] = rule[o] /\ todo'[o] = todo[o] /\ mine'[o] = mine[o]
         /\ staged'[o] = staged[o] /\ fired'[o] = fired[o] /\ skips'[o] = skips[o]
  <1> USE DEF TypeOK, storeVars, sentVars, worldVars, readVars, ruleVars
  <1>1. CASE Begin(r)     BY <1>1 DEF Begin
  <1>2. CASE Check(r)     BY <1>2 DEF Check
  <1>3. CASE Flush(r)     BY <1>3 DEF Flush
  <1>4. CASE Load(r)      BY <1>4 DEF Load
  <1>5. CASE StartRule(r) BY <1>5 DEF StartRule
  <1>6. CASE Deliver(r)   BY <1>6 DEF Deliver
  <1>7. CASE EndRule(r)   BY <1>7 DEF EndRule
  <1>8. CASE FailRule(r)  BY <1>8 DEF FailRule
  <1>9. CASE Commit(r) \/ Abort(r)
    <2>1. Reset(r)
      BY <1>9 DEF Commit, Abort
    <2> QED
      BY <2>1 DEF Reset
  <1> QED
    BY <1>1, <1>2, <1>3, <1>4, <1>5, <1>6, <1>7, <1>8, <1>9 DEF Act, Step

\* Only a commit touches what is stored, and only it and a rescoring the
\* condition.
LEMMA Stored ==
  ASSUME NEW r \in Runs, Act(r), ~Commit(r)
  PROVE  UNCHANGED storeVars
  BY DEF Act, Begin, Step, Check, Flush, Load, StartRule, Deliver, EndRule, FailRule,
         Abort, storeVars, readVars, ruleVars

LEMMA StillWorld ==
  ASSUME NEW r \in Runs, Act(r)
  PROVE  UNCHANGED worldVars
  BY DEF Act, Begin, Step, Check, Flush, Load, StartRule, Deliver, EndRule, FailRule,
         Abort, Commit, Reset, worldVars

LEMMA HoldStep == TypeOK /\ HoldInv /\ [Next]_vars => HoldInv'
  <1> SUFFICES ASSUME TypeOK, HoldInv, [Next]_vars PROVE HoldInv'
    OBVIOUS
  <1>1. CASE World \/ UNCHANGED vars
    BY <1>1 DEF HoldInv, HoldsRow, World, Tick, Measure, Rescore, vars
  <1>2. ASSUME NEW r \in Runs, Act(r)
        PROVE  HoldInv'
    <2>1. \A o \in Runs \ {r} : HoldsRow(o)' <=> HoldsRow(o)
      BY <1>2, Others DEF HoldsRow
    <2>2. HoldsRow(r)' => HoldsRow(r) \/ \A o \in Runs : ~HoldsRow(o)
      <3>1. CASE Begin(r) \/ Check(r)
        BY <3>1 DEF Begin, Check, HoldsRow, TypeOK
      <3>2. CASE Flush(r)
        BY <3>2 DEF Flush
      <3>3. CASE Load(r) \/ StartRule(r) \/ Deliver(r) \/ EndRule(r) \/ FailRule(r)
        BY <3>3 DEF Load, StartRule, Deliver, EndRule, FailRule, HoldsRow
      <3>4. CASE Commit(r) \/ Abort(r)
        <4>1. Reset(r)
          BY <3>4 DEF Commit, Abort
        <4> QED
          BY <4>1 DEF Reset, HoldsRow, TypeOK
      <3> QED
        BY <1>2, <3>1, <3>2, <3>3, <3>4 DEF Act, Step
    <2> QED
      BY <2>1, <2>2 DEF HoldInv
  <1> QED
    BY <1>1, <1>2 DEF Next, Act

-----------------------------------------------------------------------------
(***************************************************************************)
(* What a run has in hand, and what it stores.                             *)
(***************************************************************************)
LEMMA HandOfOthers ==
  ASSUME TypeOK, HoldInv, HandInv, NEW r \in Runs, Act(r), NEW o \in Runs \ {r}
  PROVE  Hand(o)'
  <1>1. Hand(o)
    BY DEF HandInv
  <1>2. CASE Commit(r)
    <2>1. HoldsRow(r) /\ ~HoldsRow(o)
      BY <1>2 DEF Commit, HoldsRow, HoldInv
    <2>2. mine[o] = {} /\ staged[o] = {} /\ fired[o] = {} /\ pc[o] # "deliver"
      BY <1>1, <2>1 DEF Hand, HoldsRow
    <2> QED
      BY <2>2, Others DEF Hand
  <1>3. CASE ~Commit(r)
    BY <1>1, <1>3, Others, Stored DEF Hand, Cooling, Told, storeVars
  <1> QED
    BY <1>2, <1>3

LEMMA HandOwn ==
  ASSUME TypeOK, HandInv, NEW r \in Runs, Act(r)
  PROVE  Hand(r)'
  <1> USE DEF TypeOK, storeVars, worldVars, readVars, ruleVars
  <1>1. Hand(r)
    BY DEF HandInv
  <1>2. CASE Begin(r) \/ Check(r) \/ Flush(r) \/ Load(r)
    <2>1. mine[r] = {} /\ staged[r] = {} /\ fired[r] = {} /\ pc'[r] # "deliver"
      BY <1>1, <1>2 DEF Hand, Begin, Check, Flush, Load
    <2>2. mine'[r] = {} /\ staged'[r] = {} /\ fired'[r] = {}
      BY <1>2, <2>1 DEF Begin, Check, Flush, Load
    <2> QED
      BY <2>1, <2>2 DEF Hand
  <1>3. CASE StartRule(r)
    <2>1. mine[r] = {} /\ pc'[r] \in {"rules", "deliver"}
      BY <1>1, <1>3 DEF Hand, StartRule
    <2>2. pc'[r] = "deliver" => ~Cooling(rule'[r], r)
      BY <1>3 DEF StartRule
    <2>3. UNCHANGED <<mine, staged, fired, at, number, rows, lastFired>>
      BY <1>3 DEF StartRule
    <2> QED
      BY <1>1, <2>1, <2>2, <2>3 DEF Hand, Cooling, Told
  <1>4. CASE Deliver(r)
    <2>1. UNCHANGED <<pc, rule, staged, fired, at, number, rows, lastFired>>
      BY <1>4 DEF Deliver
    <2>2. \A x \in mine'[r] :
             \/ x \in mine[r]
             \/ x.rule = rule[r] /\ x.at = at[r] /\ x.run = number[r]
                   /\ ~Told(x.rule, x.event)
      BY <1>4 DEF Deliver, Row
    <2>3. pc[r] = "deliver"
      BY <1>4 DEF Deliver
    <2> QED
      BY <1>1, <2>1, <2>2, <2>3 DEF Hand, Cooling, Told
  <1>5. CASE EndRule(r)
    <2>1. UNCHANGED <<rule, at, number, rows, lastFired>> /\ pc[r] = "deliver"
      BY <1>5 DEF EndRule
    <2>2. /\ mine'[r] = {} /\ pc'[r] = "rules" /\ staged'[r] = staged[r] \cup mine[r]
          /\ fired'[r] = IF mine[r] # {} THEN fired[r] \cup {rule[r]} ELSE fired[r]
      BY <1>5 DEF EndRule
    <2>3. \A u \in fired'[r] : ~Cooling(u, r) /\ \E x \in staged'[r] : x.rule = u
      BY <1>1, <2>1, <2>2 DEF Hand
    <2>4. \A x \in staged'[r] : x.rule \in fired'[r]
      BY <1>1, <2>2 DEF Hand
    <2>5. \A x \in staged'[r] :
             x.at = at[r] /\ x.run = number[r] /\ ~Told(x.rule, x.event)
      BY <1>1, <2>2 DEF Hand
    <2> QED
      BY <2>1, <2>2, <2>3, <2>4, <2>5 DEF Hand, Cooling, Told
  <1>6. CASE FailRule(r)
    <2>1. UNCHANGED <<rule, staged, fired, at, number, rows, lastFired>>
      BY <1>6 DEF FailRule
    <2>2. mine'[r] = {} /\ pc'[r] = "rules"
      BY <1>6 DEF FailRule
    <2> QED
      BY <1>1, <2>1, <2>2 DEF Hand, Cooling, Told
  <1>7. CASE Commit(r) \/ Abort(r)
    <2>1. Reset(r)
      BY <1>7 DEF Commit, Abort
    <2>2. mine'[r] = {} /\ staged'[r] = {} /\ fired'[r] = {} /\ pc'[r] = "idle"
      BY <2>1 DEF Reset
    <2> QED
      BY <2>2 DEF Hand
  <1> QED
    BY <1>2, <1>3, <1>4, <1>5, <1>6, <1>7 DEF Act, Step

LEMMA HandStep == TypeOK /\ HoldInv /\ HandInv /\ [Next]_vars => HandInv'
  <1> SUFFICES ASSUME TypeOK, HoldInv, HandInv, [Next]_vars PROVE HandInv'
    OBVIOUS
  <1>1. CASE World \/ UNCHANGED vars
    BY <1>1 DEF HandInv, Hand, Cooling, Told, World, Tick, Measure, Rescore, vars,
                readVars, ruleVars, storeVars
  <1>2. ASSUME NEW r \in Runs, Act(r)
        PROVE  HandInv'
    BY <1>2, HandOfOthers, HandOwn DEF HandInv
  <1> QED
    BY <1>1, <1>2 DEF Next, Act

LEMMA Hourly ==
  ASSUME TypeOK
  PROVE  /\ \A x \in rows : x.rule \in Rules /\ x.at \in Nat
         /\ \A u \in Rules : lastFired[u] # None => lastFired[u] \in Nat
         /\ \A r \in Runs : at[r] \in Nat
         /\ \A r \in Runs : \A x \in staged[r] : x.rule \in Rules
  BY Hours DEF TypeOK, Rows

LEMMA StoreCommit ==
  ASSUME TypeOK, HandInv, StoreInv, NEW r \in Runs, Commit(r)
  PROVE  StoreInv'
  <1>1. Hand(r)
    BY DEF HandInv
  <1>2. /\ rows' = rows \cup staged[r]
        /\ lastFired' = [u \in Rules |-> IF u \in fired[r] THEN at[r] ELSE lastFired[u]]
        /\ fired[r] \subseteq Rules
    BY DEF Commit, TypeOK
  <1>3. \A x \in staged[r] : /\ x.rule \in fired[r] /\ x.at = at[r] /\ x.run = number[r]
                             /\ ~Told(x.rule, x.event)
    BY <1>1 DEF Hand
  <1>4. \A u \in fired[r] :
           lastFired[u] # None => at[r] >= lastFired[u] + CooldownHours
    BY <1>1, <1>2, Hourly, Hours DEF Hand, Cooling
  <1>5. \A x \in rows : x.rule \in fired[r] => x.at + CooldownHours <= at[r]
    BY <1>4, Hourly, Hours DEF StoreInv
  <1>6. \A x \in rows' : lastFired'[x.rule] # None /\ x.at <= lastFired'[x.rule]
    <2> SUFFICES ASSUME NEW x \in rows'
                 PROVE  lastFired'[x.rule] # None /\ x.at <= lastFired'[x.rule]
      OBVIOUS
    <2>1. CASE x.rule \in fired[r]
      <3>1. lastFired'[x.rule] = at[r] /\ at[r] \in Nat
        BY <1>2, <2>1, Hourly
      <3>2. x.at <= at[r]
        BY <1>2, <1>3, <1>5, <2>1, <3>1, Hourly, Hours
      <3> QED
        BY <3>1, <3>2, NoneIsNoHour
    <2>2. CASE x.rule \notin fired[r]
      <3>1. x \in rows /\ x.rule \in Rules
        BY <1>2, <1>3, <2>2, Hourly
      <3> QED
        BY <1>2, <2>2, <3>1 DEF StoreInv
    <2> QED
      BY <2>1, <2>2
  <1>7. \A x, y \in rows' : x.rule = y.rule /\ x.event = y.event => x.run = y.run
    BY <1>2, <1>3 DEF StoreInv, Told
  <1>8. FiredMeansTold'
    <2> SUFFICES ASSUME NEW u \in Rules, lastFired'[u] # None
                 PROVE  \E x \in rows' : x.rule = u /\ x.at = lastFired'[u]
      BY DEF FiredMeansTold
    <2>1. CASE u \in fired[r]
      BY <1>1, <1>2, <1>3, <2>1 DEF Hand
    <2>2. CASE u \notin fired[r]
      BY <1>2, <2>2 DEF StoreInv, FiredMeansTold
    <2> QED
      BY <2>1, <2>2
  <1>9. CooldownRespected'
    <2> SUFFICES ASSUME NEW x \in rows', NEW y \in rows', x.rule = y.rule, x.at < y.at
                 PROVE  y.at >= x.at + CooldownHours
      BY DEF CooldownRespected
    <2>1. CASE x \in rows /\ y \in rows
      BY <2>1 DEF StoreInv, CooldownRespected
    <2>2. CASE x \in rows /\ y \in staged[r]
      BY <1>3, <1>5, <2>2, Hourly, Hours
    <2>3. CASE x \in staged[r] /\ y \in rows
      BY <1>3, <1>5, <2>3, Hourly, Hours
    <2>4. CASE x \in staged[r] /\ y \in staged[r]
      BY <1>3, <2>4, Hourly
    <2> QED
      BY <1>2, <2>1, <2>2, <2>3, <2>4
  <1> QED
    BY <1>6, <1>7, <1>8, <1>9 DEF StoreInv

LEMMA StoreStep == TypeOK /\ HandInv /\ StoreInv /\ [Next]_vars => StoreInv'
  <1> SUFFICES ASSUME TypeOK, HandInv, StoreInv, [Next]_vars PROVE StoreInv'
    OBVIOUS
  <1>1. CASE World \/ UNCHANGED vars
    BY <1>1 DEF StoreInv, FiredMeansTold, CooldownRespected, World, Tick, Measure,
                Rescore, vars, storeVars
  <1>2. ASSUME NEW r \in Runs, Act(r)
        PROVE  StoreInv'
    <2>1. CASE Commit(r)
      BY <2>1, StoreCommit
    <2>2. CASE ~Commit(r)
      BY <1>2, <2>2, Stored DEF StoreInv, FiredMeansTold, CooldownRespected, storeVars
    <2> QED
      BY <2>1, <2>2
  <1> QED
    BY <1>1, <1>2 DEF Next, Act

StoreIInv == TypeOK /\ HoldInv /\ HandInv /\ StoreInv

LEMMA StoreInit == Init => StoreIInv
  <1> SUFFICES ASSUME Init PROVE StoreIInv
    OBVIOUS
  <1>1. HoldInv /\ HandInv
    BY DEF Init, HoldInv, HoldsRow, HandInv, Hand
  <1>2. StoreInv
    BY DEF Init, StoreInv, FiredMeansTold, CooldownRespected
  <1> QED
    BY <1>1, <1>2, TypeInit DEF StoreIInv

LEMMA StoreHolds == Spec => []StoreIInv
  <1>1. StoreIInv /\ [Next]_vars => StoreIInv'
    BY TypeStep, HoldStep, HandStep, StoreStep DEF StoreIInv
  <1> QED
    BY <1>1, StoreInit, PTL DEF Spec

\* Two runs that alerted on a rule are at least its cooldown apart, whatever runs
\* overlap and however they end: a run reads last_fired_at under the row of the
\* condition, which it holds until it commits.
THEOREM CooldownKept == Spec => []CooldownRespected
  <1>1. StoreIInv => CooldownRespected
    BY DEF StoreIInv, StoreInv
  <1> QED
    BY <1>1, StoreHolds, PTL

\* last_fired_at is the time of an alert on record: what was rolled back with a
\* rule's savepoint or with the run silences nothing.
THEOREM SilenceIsTold == Spec => []FiredMeansTold
  <1>1. StoreIInv => FiredMeansTold
    BY DEF StoreIInv, StoreInv
  <1> QED
    BY <1>1, StoreHolds, PTL

-----------------------------------------------------------------------------
(***************************************************************************)
(* Messages.                                                               *)
(***************************************************************************)
LEMMA MessageAct ==
  ASSUME TypeOK, HandInv, MessageInv, NEW r \in Runs, Act(r)
  PROVE  MessageInv'
  <1> SUFFICES ASSUME NEW m \in inbox', m \notin undone'
               PROVE  \/ \E x \in rows' : Key(x) = m
                      \/ \E o \in Runs : \E x \in mine'[o] \cup staged'[o] : Key(x) = m
    BY DEF MessageInv, Key
  <1> USE DEF TypeOK, storeVars, worldVars, readVars, ruleVars, sentVars
  <1>1. rows \subseteq rows'
    BY Stored DEF Commit
  <1>2. ASSUME NEW o \in Runs, o # r, NEW x \in mine[o] \cup staged[o], Key(x) = m
        PROVE  \E y \in mine'[o] \cup staged'[o] : Key(y) = m
    BY <1>2, Others
  <1>3. CASE Begin(r) \/ Check(r) \/ Flush(r) \/ Load(r) \/ StartRule(r)
    <2>1. UNCHANGED <<inbox, undone, mine, staged>>
      BY <1>3 DEF Begin, Check, Flush, Load, StartRule
    <2> QED
      BY <1>1, <2>1 DEF MessageInv
  <1>4. CASE Deliver(r)
    <2>1. UNCHANGED <<undone, staged>> /\ mine[r] \subseteq mine'[r]
      BY <1>4 DEF Deliver
    <2>2. CASE m \in inbox
      BY <1>1, <1>2, <2>1, <2>2 DEF MessageInv
    <2>3. CASE m \notin inbox
      <3>1. PICK e \in todo[r], o \in Outcomes \cup {<<"none", 0>>} :
               /\ mine' = [mine EXCEPT ![r] = @ \cup {Row(r, e, o[1])}]
               /\ m = Message(r, e)
        BY <1>4, <2>3 DEF Deliver
      <3>2. Key(Row(r, e, o[1])) = Message(r, e)
        BY DEF Row, Message, Key
      <3> QED
        BY <3>1, <3>2
    <2> QED
      BY <2>2, <2>3
  <1>5. CASE EndRule(r)
    <2>1. UNCHANGED <<inbox, undone>> /\ staged'[r] = staged[r] \cup mine[r]
      BY <1>5 DEF EndRule
    <2> QED
      BY <1>1, <1>2, <2>1 DEF MessageInv
  <1>6. CASE FailRule(r)
    <2>1. inbox' = inbox /\ staged' = staged /\ undone' = undone \cup Arrived(mine[r])
      BY <1>6 DEF FailRule
    <2>2. m \in inbox /\ m \notin undone /\ \A x \in mine[r] : Key(x) # m
      BY <2>1 DEF Arrived, Key
    <2> QED
      BY <1>1, <1>2, <2>1, <2>2 DEF MessageInv
  <1>7. CASE Commit(r)
    <2>1. mine[r] = {}
      BY <1>7 DEF HandInv, Hand, Commit
    <2>2. inbox' = inbox /\ undone' = undone /\ rows' = rows \cup staged[r]
      BY <1>7 DEF Commit, Reset
    <2> QED
      BY <1>1, <1>2, <2>1, <2>2 DEF MessageInv
  <1>8. CASE Abort(r)
    <2>1. inbox' = inbox /\ undone' = undone \cup Arrived(mine[r] \cup staged[r])
      BY <1>8 DEF Abort, Reset
    <2>2. m \in inbox /\ m \notin undone /\ \A x \in mine[r] \cup staged[r] : Key(x) # m
      BY <2>1 DEF Arrived, Key
    <2> QED
      BY <1>1, <1>2, <2>2 DEF MessageInv
  <1> QED
    BY <1>3, <1>4, <1>5, <1>6, <1>7, <1>8 DEF Act, Step

LEMMA MessageStep == TypeOK /\ HandInv /\ MessageInv /\ [Next]_vars => MessageInv'
  <1> SUFFICES ASSUME TypeOK, HandInv, MessageInv, [Next]_vars PROVE MessageInv'
    OBVIOUS
  <1>1. CASE World \/ UNCHANGED vars
    BY <1>1 DEF MessageInv, Key, World, Tick, Measure, Rescore, vars, storeVars,
                sentVars, ruleVars
  <1> QED
    BY <1>1, MessageAct DEF Next, Act

LEMMA MessagesOnce == StoreIInv /\ MessageInv => NoDuplicateWithoutRollback
  <1> SUFFICES ASSUME StoreIInv, MessageInv,
                      NEW a \in inbox \ undone, NEW b \in inbox \ undone,
                      a[1] = b[1], a[2] = b[2]
               PROVE  a = b
    BY DEF NoDuplicateWithoutRollback
  <1> USE DEF StoreIInv
  <1>1. ASSUME NEW r \in Runs, NEW x \in mine[r] \cup staged[r]
        PROVE  HoldsRow(r) /\ x.run = number[r] /\ ~Told(x.rule, x.event)
    BY <1>1 DEF HandInv, Hand, HoldsRow
  <1>2. ASSUME NEW r \in Runs, NEW x \in mine[r] \cup staged[r],
               NEW o \in Runs, NEW y \in mine[o] \cup staged[o]
        PROVE  x.run = y.run
    BY <1>1, <1>2 DEF HoldInv
  <1>3. ASSUME NEW r \in Runs, NEW x \in mine[r] \cup staged[r], NEW y \in rows,
               x.rule = y.rule, x.event = y.event
        PROVE  FALSE
    BY <1>1, <1>3 DEF Told
  <1>4. CASE \E x \in rows : Key(x) = a
    <2>1. PICK x \in rows : Key(x) = a
      BY <1>4
    <2>2. \E y \in rows : Key(y) = b
      BY <1>3, <2>1 DEF MessageInv, Key
    <2> QED
      BY <2>1, <2>2 DEF StoreInv, Key
  <1>5. CASE \E r \in Runs : \E x \in mine[r] \cup staged[r] : Key(x) = a
    <2>1. PICK r \in Runs : \E x \in mine[r] \cup staged[r] : Key(x) = a
      BY <1>5
    <2>2. PICK x \in mine[r] \cup staged[r] : Key(x) = a
      BY <2>1
    <2>3. \E o \in Runs : \E y \in mine[o] \cup staged[o] : Key(y) = b
      BY <1>3, <2>2 DEF MessageInv, Key
    <2> QED
      BY <1>2, <2>2, <2>3 DEF Key
  <1> QED
    BY <1>4, <1>5 DEF MessageInv

\* A message of a rule about an event arrives once, or the rows of the earlier one
\* were rolled back: the key on the rows holds every run that looks back over the
\* event, and only one run at a time sends.
THEOREM MessageSentOnce == Spec => []NoDuplicateWithoutRollback
  <1>1. Init => MessageInv
    BY DEF Init, MessageInv
  <1>2. StoreIInv /\ MessageInv /\ [Next]_vars => MessageInv'
    BY MessageStep DEF StoreIInv
  <1>3. Spec => []MessageInv
    BY <1>1, <1>2, StoreHolds, PTL DEF Spec
  <1> QED
    BY <1>3, MessagesOnce, StoreHolds, PTL

-----------------------------------------------------------------------------
(***************************************************************************)
(* Whose events they are.                                                  *)
(***************************************************************************)
LEMMA NumberTypes ==
  ASSUME TypeOK
  PROVE  /\ runs \in Nat /\ \A r \in Runs : number[r] \in Nat
         /\ \A e \in events : e.run \in Nat
         /\ \A r \in Runs : at[r] \in Nat
  BY Hours DEF TypeOK, Events

LEMMA NumberAct ==
  ASSUME TypeOK, NumberInv, NEW r \in Runs, Act(r)
  PROVE  NumberInv'
  <1> USE NumberTypes DEF TypeOK, storeVars, worldVars, readVars, ruleVars
  <1>1. CASE Begin(r)
    <2>1. /\ UNCHANGED <<events, derived>> /\ runs' = runs + 1 /\ pc[r] = "idle"
          /\ number' = [number EXCEPT ![r] = runs + 1]
          /\ pc' = [pc EXCEPT ![r] = "check"]
      BY <1>1 DEF Begin
    <2>2. derived[r] = {}
      BY <2>1 DEF NumberInv
    <2> QED
      BY <2>1, <2>2 DEF NumberInv
  <1>2. CASE Check(r) \/ Flush(r) \/ Load(r)
    <2>1. /\ UNCHANGED <<events, runs, number>> /\ pc[r] # "idle" /\ pc'[r] # "idle"
          /\ \A o \in Runs \ {r} : pc'[o] = pc[o] /\ derived'[o] = derived[o]
      BY <1>2 DEF Check, Flush, Load
    <2>2. \A e \in derived'[r] : e.run = number[r]
      BY <1>2 DEF NumberInv, Check, Flush, Load, Event
    <2> QED
      BY <2>1, <2>2 DEF NumberInv
  <1>3. CASE StartRule(r) \/ Deliver(r) \/ EndRule(r) \/ FailRule(r)
    <2>1. /\ UNCHANGED <<events, runs, number, derived>>
          /\ \A o \in Runs : pc'[o] # "idle" <=> pc[o] # "idle"
      BY <1>3 DEF StartRule, Deliver, EndRule, FailRule
    <2> QED
      BY <2>1 DEF NumberInv
  <1>4. CASE Commit(r)
    <2>1. Reset(r) /\ events' = events \cup derived[r] /\ pc[r] # "idle"
      BY <1>4 DEF Commit
    <2>2. runs' = runs /\ pc'[r] = "idle" /\ derived'[r] = {}
      BY <2>1 DEF Reset
    <2>3. \A o \in Runs \ {r} : pc'[o] = pc[o] /\ number'[o] = number[o]
                                 /\ derived'[o] = derived[o]
      BY <2>1 DEF Reset
    <2> QED
      BY <2>1, <2>2, <2>3 DEF NumberInv
  <1>5. CASE Abort(r)
    <2>1. Reset(r) /\ events' = events
      BY <1>5 DEF Abort
    <2>2. runs' = runs /\ pc'[r] = "idle" /\ derived'[r] = {}
      BY <2>1 DEF Reset
    <2>3. \A o \in Runs \ {r} : pc'[o] = pc[o] /\ number'[o] = number[o]
                                 /\ derived'[o] = derived[o]
      BY <2>1 DEF Reset
    <2> QED
      BY <2>1, <2>2, <2>3 DEF NumberInv
  <1> QED
    BY <1>1, <1>2, <1>3, <1>4, <1>5 DEF Act, Step

LEMMA NumberStep == TypeOK /\ NumberInv /\ [Next]_vars => NumberInv'
  <1>1. NumberInv /\ (World \/ UNCHANGED vars) => NumberInv'
    BY DEF NumberInv, World, Tick, Measure, Rescore, vars, storeVars, readVars
  <1> QED
    BY <1>1, NumberAct DEF Next, Act

-----------------------------------------------------------------------------
(***************************************************************************)
(* No event is lost silently.                                              *)
(***************************************************************************)
LEMMA ToldStays ==
  ASSUME NEW r \in Runs, Act(r), NEW u, NEW e, Told(u, e)
  PROVE  Told(u, e)'
  BY Stored DEF Commit, storeVars, Told

LEMMA AnswersOfOthers ==
  ASSUME TypeOK, AnswerInv, NEW r \in Runs, Act(r), NEW o \in Runs \ {r}
  PROVE  Answers(o)'
  <1>1. Answers(o)
    BY DEF AnswerInv
  <1>2. ASSUME NEW e \in derived[o], NEW u \in Rules, Answered(o, u, e)
        PROVE  Answered(o, u, e)'
    BY <1>2, ToldStays, Others DEF Answered
  <1> QED
    BY <1>1, <1>2, Others DEF Answers

LEMMA AnswersEarly ==
  ASSUME TypeOK, NumberInv, AnswerInv, NEW r \in Runs, Begin(r) \/ Check(r) \/ Flush(r)
  PROVE  Answers(r)'
  <1> USE DEF TypeOK, storeVars, worldVars, ruleVars
  <1>1. pc'[r] \notin {"rules", "deliver"}
    BY DEF Begin, Check, Flush
  <1>2. \A e \in derived'[r] : e.at = at'[r]
    <2>1. CASE Begin(r)
      <3>1. derived'[r] = {}
        BY <2>1 DEF Begin, NumberInv
      <3> QED
        BY <3>1
    <2>2. CASE Check(r)
      BY <2>2 DEF Check, Event
    <2>3. CASE Flush(r)
      BY <2>3 DEF Flush, Event, AnswerInv, Answers
    <2> QED
      BY <2>1, <2>2, <2>3
  <1> QED
    BY <1>1, <1>2 DEF Answers

LEMMA AnswersLoad ==
  ASSUME TypeOK, AnswerInv, NEW r \in Runs, Load(r)
  PROVE  Answers(r)'
  <1> USE DEF TypeOK, storeVars, worldVars
  <1>1. PICK W \in Newest(Recent(r)), ready \in SUBSET Rules :
          /\ window' = [window EXCEPT ![r] = W]
          /\ left' = [left EXCEPT ![r] = IF W = {} THEN {} ELSE ready]
          /\ skips' = [skips EXCEPT ![r] = Neglected(r, W, ready)]
    BY DEF Load
  <1>2. UNCHANGED <<derived, at, rows>>
    BY DEF Load
  <1>3. \A e \in derived[r] : e.at = at[r]
    BY DEF AnswerInv, Answers
  <1>4. Lookback(r) \in Nat
    BY Hours DEF Lookback
  <1>5. derived[r] \subseteq Recent(r)
    BY <1>3, <1>4, NumberTypes DEF Recent
  <1>6. ASSUME NEW e \in derived[r], NEW u \in Rules, e.kind \in Triggers[u]
        PROVE  Answered(r, u, e)'
    <2>1. CASE Told(u, e)
      BY <1>2, <2>1 DEF Answered, Told
    <2>2. CASE ~Told(u, e) /\ u \in ready /\ e \in W
      <3>1. window'[r] = W /\ left'[r] = ready
        BY <1>1, <2>2
      <3> QED
        BY <2>2, <3>1 DEF Answered
    <2>3. CASE ~Told(u, e) /\ (u \notin ready \/ e \notin W)
      <3>1. e \in Untold(u, Recent(r))
        BY <1>5, <1>6, <2>3 DEF Untold, Matching
      <3>2. <<u, e>> \in Neglected(r, W, ready)
        BY <1>5, <2>3, <3>1 DEF Neglected
      <3> QED
        BY <1>1, <3>2 DEF Answered
    <2> QED
      BY <2>1, <2>2, <2>3
  <1> QED
    BY <1>2, <1>3, <1>6 DEF Answers

LEMMA AnswersRules ==
  ASSUME TypeOK, AnswerInv, NEW r \in Runs,
         StartRule(r) \/ Deliver(r) \/ EndRule(r) \/ FailRule(r)
  PROVE  Answers(r)'
  <1> USE DEF TypeOK, storeVars, worldVars, readVars
  <1>1. UNCHANGED <<derived, at, rows, window>> /\ pc[r] \in {"rules", "deliver"}
    BY DEF StartRule, Deliver, EndRule, FailRule
  <1>2. ASSUME NEW e \in derived[r], NEW u \in Rules, e.kind \in Triggers[u]
        PROVE  Answered(r, u, e)'
    <2>1. Answered(r, u, e)
      BY <1>1, <1>2 DEF AnswerInv, Answers
    <2>2. CASE Told(u, e)
      BY <1>1, <2>2 DEF Answered, Told
    <2>3. CASE StartRule(r)
      <3>1. PICK v \in left[r] :
               /\ left' = [left EXCEPT ![r] = @ \ {v}]
               /\ IF Cooling(v, r)
                  THEN /\ skips' = [skips EXCEPT ![r] = @ \cup Missed(v, window[r])]
                       /\ UNCHANGED <<pc, rule, todo>>
                  ELSE /\ rule' = [rule EXCEPT ![r] = v]
                       /\ todo' = [todo EXCEPT ![r] = Matching(v, window[r])]
                       /\ pc' = [pc EXCEPT ![r] = "deliver"]
                       /\ UNCHANGED skips
        BY <2>3 DEF StartRule
      <3>2. pc[r] = "rules" /\ staged' = staged /\ skips[r] \subseteq skips'[r]
        BY <2>3, <3>1 DEF StartRule
      <3>3. CASE u = v /\ e \in window[r] /\ ~Told(u, e)
        <4>1. e \in Matching(v, window[r]) /\ <<u, e>> \in Missed(v, window[r])
          BY <1>2, <3>3 DEF Matching, Missed, Untold
        <4> QED
          BY <1>1, <3>1, <3>3, <4>1 DEF Answered
      <3>4. CASE ~(u = v /\ e \in window[r])
        BY <1>1, <2>1, <3>1, <3>2, <3>4 DEF Answered, Told
      <3> QED
        BY <2>2, <3>3, <3>4
    <2>4. CASE Deliver(r) /\ ~Told(u, e)
      <3>1. UNCHANGED <<pc, left, rule, staged, skips>> /\ mine[r] \subseteq mine'[r]
        BY <2>4 DEF Deliver
      <3>2. PICK d \in todo[r] :
               /\ todo' = [todo EXCEPT ![r] = @ \ {d}]
               /\ \/ Told(rule[r], d)
                  \/ \E o \in Outcomes \cup {<<"none", 0>>} :
                        mine' = [mine EXCEPT ![r] = @ \cup {Row(r, d, o[1])}]
        BY <2>4 DEF Deliver
      <3>3. \A o : Row(r, d, o).rule = rule[r] /\ Row(r, d, o).event = d
        BY DEF Row
      <3>4. ~Told(rule[r], d) => \E x \in mine'[r] : x.rule = rule[r] /\ x.event = d
        BY <3>2, <3>3
      <3>5. CASE rule[r] = u /\ d = e
        BY <1>1, <2>1, <2>4, <3>1, <3>2, <3>4, <3>5 DEF Answered
      <3>6. CASE ~(rule[r] = u /\ d = e)
        BY <1>1, <2>1, <2>4, <3>1, <3>2, <3>4, <3>6 DEF Answered
      <3> QED
        BY <3>5, <3>6
    <2>5. CASE EndRule(r) /\ ~Told(u, e)
      <3>1. /\ UNCHANGED <<left, skips>> /\ todo[r] = {}
            /\ staged'[r] = staged[r] \cup mine[r]
        BY <2>5 DEF EndRule
      <3> QED
        BY <1>1, <2>1, <2>5, <3>1 DEF Answered
    <2>6. CASE FailRule(r) /\ ~Told(u, e)
      <3>1. /\ UNCHANGED <<left, staged>> /\ pc[r] = "deliver"
            /\ skips'[r] = skips[r] \cup Missed(rule[r], window[r])
        BY <2>6 DEF FailRule
      <3>2. CASE rule[r] = u /\ e \in window[r]
        <4>1. <<u, e>> \in Missed(rule[r], window[r])
          BY <1>2, <2>6, <3>2 DEF Missed, Untold, Matching
        <4> QED
          BY <3>1, <4>1 DEF Answered
      <3>3. CASE ~(rule[r] = u /\ e \in window[r])
        BY <1>1, <2>1, <2>6, <3>1, <3>3 DEF Answered
      <3> QED
        BY <3>2, <3>3
    <2> QED
      BY <2>2, <2>3, <2>4, <2>5, <2>6
  <1> QED
    BY <1>1, <1>2 DEF Answers, AnswerInv

LEMMA AnswersEnd ==
  ASSUME TypeOK, NEW r \in Runs, Commit(r) \/ Abort(r)
  PROVE  Answers(r)'
  <1>1. Reset(r)
    BY DEF Commit, Abort
  <1>2. pc'[r] = "idle" /\ derived'[r] = {}
    BY <1>1 DEF Reset, TypeOK
  <1> QED
    BY <1>2 DEF Answers

LEMMA AnswerStep == TypeOK /\ NumberInv /\ AnswerInv /\ [Next]_vars => AnswerInv'
  <1> SUFFICES ASSUME TypeOK, NumberInv, AnswerInv, [Next]_vars PROVE AnswerInv'
    OBVIOUS
  <1>1. CASE World \/ UNCHANGED vars
    BY <1>1 DEF AnswerInv, Answers, Answered, Told, World, Tick, Measure, Rescore, vars,
                storeVars, readVars, ruleVars
  <1>2. ASSUME NEW r \in Runs, Act(r)
        PROVE  AnswerInv'
    <2>1. Answers(r)'
      BY <1>2, AnswersEarly, AnswersLoad, AnswersRules, AnswersEnd DEF Act, Step
    <2> QED
      BY <1>2, <2>1, AnswersOfOthers DEF AnswerInv
  <1> QED
    BY <1>1, <1>2 DEF Next, Act

LEMMA LossStep ==
  TypeOK /\ AnswerInv /\ HandInv /\ NoSilentLoss /\ [Next]_vars => NoSilentLoss'
  <1> SUFFICES ASSUME TypeOK, AnswerInv, HandInv, NoSilentLoss, [Next]_vars
               PROVE  NoSilentLoss'
    OBVIOUS
  <1>1. CASE World \/ UNCHANGED vars
    BY <1>1 DEF NoSilentLoss, Told, World, Tick, Measure, Rescore, vars, storeVars
  <1>2. ASSUME NEW r \in Runs, Act(r), ~Commit(r)
        PROVE  NoSilentLoss'
    BY <1>2, Stored DEF NoSilentLoss, Told, storeVars
  <1>3. ASSUME NEW r \in Runs, Commit(r)
        PROVE  NoSilentLoss'
    <2>1. /\ events' = events \cup derived[r] /\ rows' = rows \cup staged[r]
          /\ excused' = excused \cup skips[r] /\ pc[r] = "rules" /\ left[r] = {}
      BY <1>3 DEF Commit
    <2>2. ASSUME NEW e \in derived[r], NEW u \in Rules, e.kind \in Triggers[u]
          PROVE  Told(u, e)' \/ <<u, e>> \in excused'
      <3>1. Answered(r, u, e)
        BY <2>1, <2>2 DEF AnswerInv, Answers
      <3> QED
        BY <2>1, <3>1 DEF Answered, Told
    <2> QED
      BY <2>1, <2>2 DEF NoSilentLoss, Told
  <1> QED
    BY <1>1, <1>2, <1>3 DEF Next, Act

LEMMA NumberHolds == Spec => []NumberInv
  <1>1. Init => NumberInv
    BY DEF Init, NumberInv
  <1> QED
    BY <1>1, NumberStep, AlertTypes, PTL DEF Spec

\* A stored event reaches every rule that asks for its kind, unless a committed run
\* let it go for a reason: the cooldown, the limit on events, an owner that could
\* not be prepared, or a rule that failed.
THEOREM NothingLostSilently == Spec => []NoSilentLoss
  <1>1. Init => AnswerInv /\ NoSilentLoss
    BY DEF Init, AnswerInv, Answers, NoSilentLoss
  <1>2. Spec => []AnswerInv
    BY <1>1, AnswerStep, NumberHolds, AlertTypes, PTL DEF Spec
  <1>3. StoreIInv => TypeOK /\ HandInv
    BY DEF StoreIInv
  <1> QED
    BY <1>1, <1>2, <1>3, LossStep, StoreHolds, PTL DEF Spec

-----------------------------------------------------------------------------
(***************************************************************************)
(* The condition and its announcements.                                    *)
(***************************************************************************)
LEMMA VerdictAct ==
  ASSUME TypeOK, VerdictInv, NEW r \in Runs, Act(r)
  PROVE  VerdictInv'
  <1> USE DEF TypeOK, storeVars, worldVars, readVars, ruleVars
  <1>1. \A o \in Runs \ {r} : Verdict(o)'
    BY Others DEF VerdictInv, Verdict, Checked
  <1>2. Verdict(r)
    BY DEF VerdictInv
  <1>3. CASE Begin(r)
    <2>1. UNCHANGED <<derived, seen, loaded>> /\ pc[r] = "idle" /\ pc'[r] = "check"
      BY <1>3 DEF Begin
    <2> QED
      BY <1>1, <1>2, <2>1 DEF VerdictInv, Verdict, Checked
  <1>4. CASE Check(r)
    <2>1. /\ pc'[r] = "flush" /\ seen'[r] = holds /\ loaded'[r] = condition
          /\ derived'[r] = IF holds /\ ~condition THEN {Event("met", rises, r)} ELSE {}
      BY <1>4 DEF Check
    <2>2. Event("met", rises, r).kind = "met"
      BY DEF Event
    <2>3. Verdict(r)'
      BY <2>1, <2>2 DEF Verdict, Checked
    <2> QED
      BY <1>1, <2>3 DEF VerdictInv
  <1>5. CASE Flush(r)
    <2>1. /\ UNCHANGED <<seen, loaded>> /\ pc[r] = "flush" /\ pc'[r] = "load"
          /\ derived'[r] = derived[r] \cup
                             (IF moved THEN {Event("score", scorings, r)} ELSE {})
      BY <1>5 DEF Flush
    <2>2. Event("score", scorings, r).kind # "met"
      BY DEF Event
    <2>3. Verdict(r)'
      BY <1>2, <2>1, <2>2 DEF Verdict, Checked
    <2> QED
      BY <1>1, <2>3 DEF VerdictInv
  <1>6. CASE Load(r) \/ StartRule(r) \/ Deliver(r) \/ EndRule(r) \/ FailRule(r)
    <2>1. UNCHANGED <<derived, seen, loaded>> /\ Checked(r) /\ Checked(r)'
      BY <1>6 DEF Load, StartRule, Deliver, EndRule, FailRule, Checked
    <2> QED
      BY <1>1, <1>2, <2>1 DEF VerdictInv, Verdict
  <1>7. CASE Commit(r) \/ Abort(r)
    <2>1. Reset(r)
      BY <1>7 DEF Commit, Abort
    <2>2. pc'[r] = "idle" /\ derived'[r] = {}
      BY <2>1 DEF Reset
    <2> QED
      BY <1>1, <2>2 DEF VerdictInv, Verdict, Checked
  <1> QED
    BY <1>3, <1>4, <1>5, <1>6, <1>7 DEF Act, Step

LEMMA VerdictStep == TypeOK /\ VerdictInv /\ [Next]_vars => VerdictInv'
  <1>1. VerdictInv /\ (World \/ UNCHANGED vars) => VerdictInv'
    BY DEF VerdictInv, Verdict, Checked, World, Tick, Measure, Rescore, vars, readVars
  <1> QED
    BY <1>1, VerdictAct DEF Next, Act

LEMMA VerdictHolds == Spec => []VerdictInv
  <1>1. Init => VerdictInv
    BY DEF Init, VerdictInv, Verdict, Checked
  <1> QED
    BY <1>1, VerdictStep, AlertTypes, PTL DEF Spec

LEMMA AnnouncedStep ==
  ASSUME TypeOK, NumberInv, VerdictInv, [Next]_vars, ~condition, condition'
  PROVE  \E e \in events' \ events : e.kind = "met"
  <1>1. ~World /\ ~UNCHANGED vars
    BY DEF World, Tick, Measure, Rescore, vars, storeVars
  <1>2. PICK r \in Runs : Act(r)
    BY <1>1 DEF Next, Act
  <1>3. Commit(r)
    BY <1>2, Stored DEF storeVars
  <1>4. seen[r] /\ ~loaded[r]
    BY <1>3 DEF Commit, Verdicts, TypeOK
  <1>5. pc[r] = "rules" /\ events' = events \cup derived[r]
    BY <1>3 DEF Commit
  <1>6. PICK e \in derived[r] : e.kind = "met"
    BY <1>4, <1>5 DEF VerdictInv, Verdict, Checked
  <1>7. e \notin events
    BY <1>5 DEF NumberInv
  <1> QED
    BY <1>5, <1>6, <1>7

\* A stored condition turns to MET in the transaction that stores the event saying
\* so: the verdict is written when it changes, and what changed it was compared
\* with the same loaded state that made the event.
THEOREM TurnsAreAnnounced == Spec => MetIsAnnounced
  <1>1. TypeOK /\ NumberInv /\ VerdictInv /\ [Next]_vars =>
          [~condition /\ condition' => \E e \in events' \ events : e.kind = "met"]_vars
    BY AnnouncedStep
  <1> QED
    BY <1>1, AlertTypes, NumberHolds, VerdictHolds, PTL DEF Spec, MetIsAnnounced

-----------------------------------------------------------------------------
(***************************************************************************)
(* The scheduled runs announce a rise once.                                *)
(***************************************************************************)
RiseInv == TurnInv /\ FactInv /\ ShowsInv /\ FallInv /\ AgainInv

LEMMA RiseTypes ==
  ASSUME TypeOK
  PROVE  /\ rises \in Nat /\ scorings \in Nat
         /\ \A d \in events : d.fact \in Nat /\ d.scoring \in Nat /\ d.locked \in BOOLEAN
         /\ \A r \in Runs : \A d \in derived[r] :
                d.fact \in Nat /\ d.scoring \in Nat /\ d.locked \in BOOLEAN
  BY Hours DEF TypeOK, Events

LEMMA RunKinds ==
  /\ Scheduled \subseteq Runs
  /\ \A r \in Runs \ Scheduled : r \notin Scheduled \cup {None}
  BY RunsAssumption DEF Runs

LEMMA RiseWorld ==
  ASSUME TypeOK, RiseInv, World
  PROVE  RiseInv'
  <1> USE RiseTypes, RunKinds DEF TypeOK, RiseInv, storeVars, readVars
  <1>1. UNCHANGED <<pc, lock, events, derived, seen, undercut>>
    BY DEF World, Tick, Measure, Rescore
  <1>2. TurnInv'
    BY <1>1 DEF TurnInv
  <1>3. rises' >= rises /\ scorings' >= scorings /\ rises' \in Nat /\ scorings' \in Nat
    BY DEF World, Tick, Measure, Rescore
  <1>4. FactInv'
    BY <1>1, <1>3 DEF FactInv, LockedMet
  <1>5. AgainInv'
    BY <1>1 DEF AgainInv, LockedMet
  <1>6. ShowsInv' /\ FallInv'
    <2>1. CASE Tick
      BY <1>1, <2>1 DEF Tick, ShowsInv, FallInv, LockedMet, Checked
    <2>2. CASE Measure /\ holds
      BY <1>1, <2>2 DEF Measure, ShowsInv, FallInv, LockedMet, Checked
    <2>3. CASE Measure /\ ~holds
      <3>1. \A d \in events : LockedMet(d) => d.fact # rises'
        BY <2>3 DEF Measure, FactInv
      <3> QED
        BY <1>1, <3>1 DEF ShowsInv, FallInv, LockedMet
    <2>4. CASE Rescore
      <3>1. \A d \in events : LockedMet(d) => d.scoring # scorings'
        BY <2>4 DEF Rescore, FactInv
      <3>2. UNCHANGED <<holds, rises>>
        BY <2>4 DEF Rescore
      <3> QED
        BY <1>1, <3>1, <3>2 DEF ShowsInv, FallInv, LockedMet, Checked
    <2> QED
      BY <2>1, <2>2, <2>3, <2>4 DEF World
  <1> QED
    BY <1>2, <1>4, <1>5, <1>6

LEMMA TurnAct ==
  ASSUME TypeOK, TurnInv, NEW r \in Runs, Act(r)
  PROVE  TurnInv'
  <1> USE RunKinds DEF TypeOK, storeVars, worldVars, readVars, ruleVars, sentVars
  <1>1. CASE Begin(r)
    <2>1. CASE r \in Scheduled
      <3>1. \A o \in Scheduled : pc[o] = "idle"
        BY <1>1, <2>1, NoneIsNoHour DEF Begin, TurnInv
      <3> QED
        BY <1>1, <2>1, <3>1 DEF Begin, TurnInv
    <2>2. CASE r \notin Scheduled
      BY <1>1, <2>2 DEF Begin, TurnInv
    <2> QED
      BY <2>1, <2>2
  <1>2. CASE Check(r) \/ Flush(r) \/ Load(r) \/ StartRule(r) \/ Deliver(r) \/ EndRule(r)
             \/ FailRule(r)
    <2>1. lock' = lock /\ pc[r] # "idle" /\ \A o \in Runs \ {r} : pc'[o] = pc[o]
      BY <1>2 DEF Check, Flush, Load, StartRule, Deliver, EndRule, FailRule
    <2> QED
      BY <2>1 DEF TurnInv
  <1>3. CASE Commit(r) \/ Abort(r)
    <2>1. Reset(r)
      BY <1>3 DEF Commit, Abort
    <2>2. /\ lock' = (IF lock = r THEN None ELSE lock) /\ pc'[r] = "idle"
          /\ \A o \in Runs \ {r} : pc'[o] = pc[o]
      BY <2>1 DEF Reset
    <2> QED
      BY <2>2 DEF TurnInv
  <1> QED
    BY <1>1, <1>2, <1>3, Others DEF Act, Step

LEMMA FactAct ==
  ASSUME TypeOK, FactInv, NEW r \in Runs, Act(r)
  PROVE  FactInv'
  <1> USE RiseTypes DEF TypeOK, storeVars, worldVars, readVars, ruleVars
  <1>1. UNCHANGED <<rises, scorings>> /\ events' \subseteq events \cup derived[r]
    BY StillWorld, Stored DEF Commit
  <1>2. \A d \in events' : LockedMet(d) => d.fact <= rises /\ d.scoring <= scorings
    BY <1>1 DEF FactInv, LockedMet
  <1>3. \A o \in Runs \ {r} : derived'[o] = derived[o]
    BY Others
  <1>4. \A d \in derived'[r] :
           /\ d.kind = "met" => d.fact <= rises /\ d.scoring <= scorings
           /\ d.locked <=> r \in Scheduled
    <2>1. CASE Check(r)
      BY <2>1 DEF Check, Event
    <2>2. CASE Flush(r)
      <3>1. \A d \in derived'[r] : d \in derived[r] \/ d = Event("score", scorings, r)
        BY <2>2 DEF Flush
      <3>2. /\ Event("score", scorings, r).kind = "score"
            /\ Event("score", scorings, r).locked <=> r \in Scheduled
        BY DEF Event
      <3> QED
        BY <3>1, <3>2 DEF FactInv
    <2>3. CASE Begin(r) \/ Load(r) \/ StartRule(r) \/ Deliver(r) \/ EndRule(r) \/ FailRule(r)
      <3>1. derived' = derived
        BY <2>3 DEF Begin, Load, StartRule, Deliver, EndRule, FailRule
      <3> QED
        BY <3>1 DEF FactInv
    <2>4. CASE Commit(r) \/ Abort(r)
      <3>1. Reset(r)
        BY <2>4 DEF Commit, Abort
      <3>2. derived'[r] = {}
        BY <3>1 DEF Reset
      <3> QED
        BY <3>2
    <2> QED
      BY <2>1, <2>2, <2>3, <2>4 DEF Act, Step
  <1> QED
    BY <1>1, <1>2, <1>3, <1>4 DEF FactInv, LockedMet

\* A step that neither checks, nor ends a run, leaves the rises as they are.
LEMMA RiseQuiet ==
  ASSUME TypeOK, RiseInv, VerdictInv, NEW r \in Runs,
         \/ Begin(r) \/ Flush(r) \/ Load(r) \/ StartRule(r) \/ Deliver(r)
         \/ EndRule(r) \/ FailRule(r)
  PROVE  ShowsInv' /\ FallInv' /\ AgainInv'
  <1> USE DEF TypeOK, RiseInv, storeVars, worldVars, readVars, ruleVars
  <1>1. UNCHANGED <<events, undercut, condition, holds, rises, scorings, seen>>
    BY DEF Begin, Flush, Load, StartRule, Deliver, EndRule, FailRule
  <1>2. \A o \in Runs : Checked(o)' <=> Checked(o)
    BY DEF Begin, Flush, Load, StartRule, Deliver, EndRule, FailRule, Checked
  <1>3. \A o \in Runs : \A d \in derived'[o] : d.kind = "met" => d \in derived[o]
    <2>1. Event("score", scorings, r).kind # "met"
      BY DEF Event
    <2> QED
      BY <2>1 DEF Begin, Flush, Load, StartRule, Deliver, EndRule, FailRule
  <1>4. ShowsInv'
    BY <1>1 DEF ShowsInv, LockedMet
  <1>5. FallInv'
    BY <1>1, <1>2, RunKinds DEF FallInv, LockedMet
  <1>6. AgainInv'
    BY <1>1, <1>3, RunKinds DEF AgainInv, LockedMet
  <1> QED
    BY <1>4, <1>5, <1>6

LEMMA RiseCheck ==
  ASSUME TypeOK, RiseInv, NEW r \in Runs, Check(r)
  PROVE  ShowsInv' /\ FallInv' /\ AgainInv'
  <1> USE DEF TypeOK, RiseInv, storeVars, worldVars
  <1>1. UNCHANGED <<events, undercut, condition, holds, rises, scorings>>
    BY DEF Check
  <1>2. /\ seen'[r] = holds
        /\ derived'[r] = IF holds /\ ~condition THEN {Event("met", rises, r)} ELSE {}
        /\ \A o \in Runs \ {r} : pc'[o] = pc[o] /\ seen'[o] = seen[o]
                                 /\ derived'[o] = derived[o]
    BY DEF Check
  <1>3. ShowsInv'
    BY <1>1 DEF ShowsInv, LockedMet
  <1>4. FallInv'
    BY <1>1, <1>2, RunKinds DEF FallInv, LockedMet, Checked
  <1>5. AgainInv'
    <2> SUFFICES ASSUME NEW o \in Scheduled, NEW d \in derived'[o], NEW e \in events,
                        d.kind = "met", LockedMet(e), d.fact = e.fact, d.scoring = e.scoring
                 PROVE  <<d.fact, d.scoring>> \in undercut
      BY <1>1 DEF AgainInv, LockedMet
    <2>1. CASE o # r
      BY <1>2, <2>1, RunKinds DEF AgainInv
    <2>2. CASE o = r
      <3>1. holds /\ ~condition /\ d.fact = rises /\ d.scoring = scorings
        BY <1>2, <2>2 DEF Event
      <3> QED
        BY <3>1 DEF ShowsInv
    <2> QED
      BY <2>1, <2>2
  <1> QED
    BY <1>3, <1>4, <1>5

LEMMA RiseAbort ==
  ASSUME TypeOK, RiseInv, NEW r \in Runs, Abort(r)
  PROVE  ShowsInv' /\ FallInv' /\ AgainInv'
  <1> USE DEF TypeOK, RiseInv, storeVars, worldVars
  <1>1. Reset(r)
    BY DEF Abort
  <1>2. UNCHANGED <<events, undercut, condition, holds, rises, scorings>>
    BY <1>1 DEF Abort, Reset
  <1>3. /\ pc'[r] = "idle" /\ derived'[r] = {}
        /\ \A o \in Runs \ {r} : pc'[o] = pc[o] /\ seen'[o] = seen[o]
                                 /\ derived'[o] = derived[o]
    BY <1>1 DEF Reset
  <1>4. ShowsInv'
    BY <1>2 DEF ShowsInv, LockedMet
  <1>5. FallInv'
    BY <1>2, <1>3, RunKinds DEF FallInv, LockedMet, Checked
  <1>6. AgainInv'
    BY <1>2, <1>3, RunKinds DEF AgainInv, LockedMet
  <1> QED
    BY <1>4, <1>5, <1>6

LEMMA RiseCommit ==
  ASSUME TypeOK, RiseInv, VerdictInv, NEW r \in Runs, Commit(r)
  PROVE  ShowsInv' /\ FallInv' /\ AgainInv'
  <1> USE RunKinds DEF TypeOK, RiseInv, worldVars
  <1>1. Reset(r) /\ Checked(r)
    BY DEF Commit, Checked
  <1>2. /\ UNCHANGED <<holds, rises, scorings>> /\ pc'[r] = "idle" /\ derived'[r] = {}
        /\ \A o \in Runs \ {r} : pc'[o] = pc[o] /\ seen'[o] = seen[o]
                                 /\ derived'[o] = derived[o]
    BY <1>1 DEF Reset
  <1>3. events' = events \cup derived[r] /\ undercut \subseteq undercut'
    BY DEF Commit
  <1>4. \A d \in derived[r] : LockedMet(d) => r \in Scheduled /\ seen[r] /\ ~loaded[r]
    BY DEF FactInv, LockedMet, VerdictInv, Verdict
  <1>5. ASSUME NEW o \in Scheduled, o # r, pc[o] # "idle"
        PROVE  \A d \in derived[r] : ~LockedMet(d)
    BY <1>1, <1>4, <1>5 DEF TurnInv, Checked
  <1>6. ShowsInv'
    <2> SUFFICES ASSUME NEW d \in events', LockedMet(d), d.fact = rises, d.scoring = scorings,
                        ~condition', holds
                 PROVE  <<rises, scorings>> \in undercut'
      BY <1>2 DEF ShowsInv, LockedMet
    <2>1. CASE d \in derived[r]
      BY <1>4, <2>1 DEF Commit, Verdicts
    <2>2. CASE d \in events /\ condition
      <3>1. CASE r \notin Scheduled
        BY <2>2, <3>1 DEF Commit
      <3>2. CASE r \in Scheduled
        <4>1. ~seen[r]
          BY <2>2 DEF Commit, Verdicts
        <4> QED
          BY <1>1, <2>2, <3>2, <4>1 DEF FallInv
      <3> QED
        BY <3>1, <3>2
    <2>3. CASE d \in events /\ ~condition
      BY <1>3, <2>3 DEF ShowsInv
    <2> QED
      BY <1>3, <2>1, <2>2, <2>3
  <1>7. FallInv'
    <2> SUFFICES ASSUME NEW o \in Scheduled, NEW d \in events', Checked(o)', ~seen'[o],
                        LockedMet(d), d.fact = rises
                 PROVE  ~holds
      BY <1>2 DEF FallInv, LockedMet
    <2>1. o # r /\ Checked(o) /\ ~seen[o] /\ pc[o] # "idle"
      BY <1>2 DEF Checked
    <2>2. d \in events
      BY <1>3, <1>5, <2>1
    <2> QED
      BY <2>1, <2>2 DEF FallInv
  <1>8. AgainInv'
    <2> SUFFICES ASSUME NEW o \in Scheduled, NEW d \in derived'[o], NEW e \in events',
                        d.kind = "met", LockedMet(e), d.fact = e.fact, d.scoring = e.scoring
                 PROVE  <<d.fact, d.scoring>> \in undercut'
      BY DEF AgainInv, LockedMet
    <2>1. o # r /\ d \in derived[o]
      BY <1>2
    <2>2. pc[o] # "idle"
      BY <2>1 DEF VerdictInv, Verdict, Checked
    <2>3. e \in events
      BY <1>3, <1>5, <2>1, <2>2
    <2> QED
      BY <1>3, <2>1, <2>3 DEF AgainInv
  <1> QED
    BY <1>6, <1>7, <1>8

LEMMA RiseStep == TypeOK /\ VerdictInv /\ RiseInv /\ [Next]_vars => RiseInv'
  <1> SUFFICES ASSUME TypeOK, VerdictInv, RiseInv, [Next]_vars PROVE RiseInv'
    OBVIOUS
  <1>1. CASE UNCHANGED vars
    BY <1>1 DEF RiseInv, TurnInv, FactInv, ShowsInv, FallInv, AgainInv, LockedMet,
                Checked, vars
  <1>2. CASE World
    BY <1>2, RiseWorld
  <1>3. ASSUME NEW r \in Runs, Act(r)
        PROVE  RiseInv'
    <2>1. TurnInv' /\ FactInv'
      BY <1>3, TurnAct, FactAct DEF RiseInv
    <2>2. ShowsInv' /\ FallInv' /\ AgainInv'
      BY <1>3, RiseQuiet, RiseCheck, RiseAbort, RiseCommit DEF Act, Step
    <2> QED
      BY <2>1, <2>2 DEF RiseInv
  <1> QED
    BY <1>1, <1>2, <1>3 DEF Next, Act

LEMMA OnceStep ==
  TypeOK /\ VerdictInv /\ RiseInv /\ MetOnce /\ [Next]_vars => MetOnce'
  <1> SUFFICES ASSUME TypeOK, VerdictInv, RiseInv, MetOnce, [Next]_vars,
                      NEW d \in events', NEW e \in events', LockedMet(d), LockedMet(e),
                      d.fact = e.fact, d.scoring = e.scoring, d # e
               PROVE  <<d.fact, d.scoring>> \in undercut'
    BY DEF MetOnce, LockedMet
  <1>1. CASE World \/ UNCHANGED vars
    <2>1. UNCHANGED <<events, undercut>>
      BY <1>1 DEF World, Tick, Measure, Rescore, vars, storeVars
    <2> QED
      BY <2>1 DEF MetOnce, LockedMet
  <1>2. ASSUME NEW r \in Runs, Act(r), ~Commit(r)
        PROVE  <<d.fact, d.scoring>> \in undercut'
    BY <1>2, Stored DEF MetOnce, LockedMet, storeVars
  <1>3. ASSUME NEW r \in Runs, Commit(r)
        PROVE  <<d.fact, d.scoring>> \in undercut'
    <2>1. events' = events \cup derived[r] /\ undercut \subseteq undercut'
      BY <1>3 DEF Commit
    <2>2. CASE d \in events /\ e \in events
      BY <2>1, <2>2 DEF MetOnce, LockedMet
    <2>3. CASE d \in derived[r] /\ e \in derived[r]
      BY <2>3 DEF VerdictInv, Verdict, LockedMet
    <2>4. CASE d \in derived[r] /\ e \in events
      BY <2>1, <2>4 DEF RiseInv, FactInv, AgainInv, LockedMet
    <2>5. CASE d \in events /\ e \in derived[r]
      BY <2>1, <2>5 DEF RiseInv, FactInv, AgainInv, LockedMet
    <2> QED
      BY <2>1, <2>2, <2>3, <2>4, <2>5
  <1> QED
    BY <1>1, <1>2, <1>3 DEF Next, Act

\* The scheduled runs announce a rise over the threshold once under a scoring,
\* however many workers there are and however long a run takes, unless a run
\* without the lock wrote an older verdict over theirs.
THEOREM RiseAnnouncedOnce == Spec => []MetOnce
  <1>1. Init => RiseInv /\ MetOnce
    BY RunKinds DEF Init, RiseInv, TurnInv, FactInv, ShowsInv, FallInv, AgainInv, MetOnce
  <1>2. Spec => []RiseInv
    BY <1>1, RiseStep, VerdictHolds, AlertTypes, PTL DEF Spec
  <1> QED
    BY <1>1, <1>2, OnceStep, VerdictHolds, AlertTypes, PTL DEF Spec
=============================================================================
