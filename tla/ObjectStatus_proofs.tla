------------------------ MODULE ObjectStatus_proofs ------------------------
(***************************************************************************)
(* Proofs about the status of one object, for any condition types and any  *)
(* bounds: what the methods do to a list of conditions, and what follows   *)
(* for phase and times.                                                    *)
(***************************************************************************)
EXTENDS ObjectStatus, TLAPS

----------------------------------------------------------------------------
(* A list of conditions without a second entry of a type. *)

Single(conds) ==
  /\ conds \in Seq(Condition)
  /\ \A i, j \in DOMAIN conds : conds[i].type = conds[j].type => i = j

\* The loops find the only entry there is.
LEMMA FindsTheEntry ==
  ASSUME NEW conds, Single(conds), NEW i \in DOMAIN conds
  PROVE  /\ Has(conds, conds[i].type)
         /\ First(conds, conds[i].type) = i
         /\ GetCondition(conds, conds[i].type) = conds[i]
<1>. DEFINE t == conds[i].type
            Is(k) == /\ k \in DOMAIN conds /\ conds[k].type = t
                     /\ \A j \in 1..(k - 1) : conds[j].type # t
<1>1. DOMAIN conds = 1..Len(conds) /\ Len(conds) \in Nat
  BY DEF Single
<1>2. \A j \in 1..(i - 1) : j \in DOMAIN conds /\ j # i
  BY <1>1
<1>3. Is(i)
  BY <1>2 DEF Single
<1>4. \A k : Is(k) => k = i
  BY DEF Single
<1>5. First(conds, t) = i
  BY <1>3, <1>4 DEF First
<1>6. Has(conds, t)
  BY DEF Has
<1>. QED BY <1>5, <1>6 DEF GetCondition

\* The entry found is one of the list.
LEMMA EntryFound ==
  ASSUME NEW conds, Single(conds), NEW t, Has(conds, t)
  PROVE  /\ First(conds, t) \in DOMAIN conds /\ conds[First(conds, t)].type = t
         /\ GetCondition(conds, t) = conds[First(conds, t)]
         /\ GetCondition(conds, t) \in Condition
<1>1. PICK i \in DOMAIN conds : conds[i].type = t
  BY DEF Has
<1>2. First(conds, t) = i /\ GetCondition(conds, t) = conds[i]
  BY <1>1, FindsTheEntry
<1>3. conds[i] \in Condition
  BY DEF Single
<1>. QED BY <1>1, <1>2, <1>3

\* SetCondition replaces or adds the entry of its type and leaves the others.
LEMMA SetsOneEntry ==
  ASSUME NEW conds, Single(conds), now \in 1..MaxTime,
         NEW t \in ConditionTypes, NEW status \in Statuses, NEW reason \in Reasons
  PROVE  LET new == WithCondition(conds, t, status, reason)
             old == GetCondition(conds, t)
         IN /\ Single(new) /\ Has(new, t)
            /\ GetCondition(new, t) =
                 [type |-> t, status |-> status, reason |-> reason,
                  lastTransitionTime |-> IF Has(conds, t) /\ old.status = status
                                         THEN old.lastTransitionTime ELSE now]
            /\ \A u : u # t => /\ Has(new, u) <=> Has(conds, u)
                               /\ GetCondition(new, u) = GetCondition(conds, u)
<1>. DEFINE new == WithCondition(conds, t, status, reason)
            old == GetCondition(conds, t)
            entry == [type |-> t, status |-> status, reason |-> reason,
                      lastTransitionTime |-> IF Has(conds, t) /\ old.status = status
                                             THEN old.lastTransitionTime ELSE now]
<1>1. conds \in Seq(Condition) /\ DOMAIN conds = 1..Len(conds) /\ Len(conds) \in Nat
  BY DEF Single
<1>2. Has(conds, t) => old \in Condition
  BY EntryFound
<1>3. entry \in Condition
  BY <1>2 DEF Condition
\* At one place there is the new entry, at all others what there was.
<1>4. PICK at \in 1..(Len(conds) + 1) :
        /\ new \in Seq(Condition) /\ DOMAIN new = DOMAIN conds \cup {at}
        /\ new[at] = entry
        /\ \A i \in DOMAIN conds : i # at => new[i] = conds[i] /\ conds[i].type # t
        /\ at \in DOMAIN conds => conds[at].type = t
  <2>1. CASE Has(conds, t)
    <3> DEFINE at == First(conds, t)
    <3>1. at \in DOMAIN conds /\ conds[at].type = t /\ old = conds[at]
      BY <2>1, EntryFound
    <3>2. new = [conds EXCEPT ![at] = entry]
      BY <2>1 DEF WithCondition
    <3>3. \A i \in DOMAIN conds : i # at => conds[i].type # t
      BY <3>1 DEF Single
    <3> HIDE DEF at, new, entry, old
    <3>4. new \in Seq(Condition) /\ DOMAIN new = DOMAIN conds /\ new[at] = entry
          /\ \A i \in DOMAIN conds : i # at => new[i] = conds[i]
      BY <1>1, <1>3, <3>1, <3>2
    <3>5. at \in 1..(Len(conds) + 1)
      BY <1>1, <3>1
    <3>. QED BY <3>1, <3>3, <3>4, <3>5
  <2>2. CASE ~Has(conds, t)
    <3>1. new = Append(conds, entry)
      BY <2>2 DEF WithCondition
    <3>2. \A i \in DOMAIN conds : conds[i].type # t
      BY <2>2 DEF Has
    <3> HIDE DEF new, entry, old
    <3>3. /\ new \in Seq(Condition) /\ DOMAIN new = DOMAIN conds \cup {Len(conds) + 1}
          /\ new[Len(conds) + 1] = entry
          /\ \A i \in DOMAIN conds : new[i] = conds[i]
      BY <1>1, <1>3, <3>1
    <3>4. Len(conds) + 1 \notin DOMAIN conds /\ Len(conds) + 1 \in 1..(Len(conds) + 1)
      BY <1>1
    <3>. QED BY <3>2, <3>3, <3>4
  <2>. QED BY <2>1, <2>2
<1>5. entry.type = t
  OBVIOUS
<1> HIDE DEF new, entry, old
<1>6. Single(new)
  BY <1>4, <1>5 DEF Single
<1>7. Has(new, t) /\ GetCondition(new, t) = entry
  BY <1>4, <1>5, <1>6, FindsTheEntry
<1>8. ASSUME NEW u, u # t
      PROVE  /\ Has(new, u) <=> Has(conds, u)
             /\ GetCondition(new, u) = GetCondition(conds, u)
  <2>1. Has(new, u) <=> Has(conds, u)
    BY <1>4, <1>5, <1>8 DEF Has
  <2>2. CASE Has(conds, u)
    <3>1. PICK i \in DOMAIN conds : conds[i].type = u
      BY <2>2 DEF Has
    <3>2. i \in DOMAIN new /\ new[i] = conds[i]
      BY <1>4, <1>8, <3>1
    <3>. QED BY <1>6, <2>1, <3>1, <3>2, FindsTheEntry
  <2>3. CASE ~Has(conds, u)
    BY <2>1, <2>3 DEF GetCondition
  <2>. QED BY <2>1, <2>2, <2>3
<1>. QED BY <1>6, <1>7, <1>8 DEF new, entry, old

\* The same of the actions that set a condition.
LEMMA SetsStatus ==
  ASSUME Single(conditions), now \in 1..MaxTime,
         NEW t \in ConditionTypes, NEW status \in Statuses, NEW reason \in Reasons,
         SetCondition(t, status, reason)
  PROVE  /\ Single(conditions') /\ Has(conditions', t)
         /\ GetCondition(conditions', t) =
              [type |-> t, status |-> status, reason |-> reason,
               lastTransitionTime |->
                 IF Has(conditions, t) /\ GetCondition(conditions, t).status = status
                 THEN GetCondition(conditions, t).lastTransitionTime ELSE now]
         /\ \A u : u # t => /\ Has(conditions', u) <=> Has(conditions, u)
                            /\ GetCondition(conditions', u) = GetCondition(conditions, u)
<1>1. conditions' = WithCondition(conditions, t, status, reason)
  BY DEF SetCondition
<1>. QED BY <1>1, SetsOneEntry

----------------------------------------------------------------------------
(* The inductive invariant. *)

\* The phase is that of the conditions, or nothing has been written yet.
PhaseFollows ==
  \/ phase = UpdatedPhase(conditions)
  \/ phase = Unwritten /\ ~Has(conditions, "Ready")

Inv == TypeOK /\ OneEntryPerType /\ PhaseFollows

LEMMA InvSingle == Inv => Single(conditions)
BY DEF Inv, TypeOK, OneEntryPerType, Single

\* A write of the status, whichever condition it is about.
LEMMA WriteKeepsInv ==
  ASSUME Inv, NEW t \in ConditionTypes, NEW status \in Statuses, NEW reason \in Reasons,
         SetCondition(t, status, reason), observedGeneration' \in {observedGeneration, generation},
         UNCHANGED <<deleting, generation, now>>
  PROVE  Inv'
<1>1. Single(conditions')
  BY InvSingle, SetsStatus DEF Inv, TypeOK
<1>2. phase' = UpdatedPhase(conditions')
  BY DEF SetCondition
<1>3. phase' \in Phases
  BY <1>2 DEF UpdatedPhase, Phases
<1>4. observedGeneration' \in 0..generation
  BY DEF Inv, TypeOK
<1>. QED BY <1>1, <1>2, <1>3, <1>4 DEF Inv, TypeOK, OneEntryPerType, PhaseFollows, Single

LEMMA NextInv == Inv /\ [Next]_vars => Inv'
<1>. SUFFICES ASSUME Inv, [Next]_vars PROVE Inv'
  OBVIOUS
<1>. USE StatusAssumption DEF Statuses, Reasons
<1>1. CASE ReportReady
  BY <1>1, WriteKeepsInv DEF ReportReady, Observe
<1>2. CASE ReportTerminating
  BY <1>2, WriteKeepsInv DEF ReportTerminating, Observe
<1>3. CASE \E t \in ConditionTypes : ReportOther(t)
  <2>1. PICK t \in ConditionTypes : ReportOther(t)
    BY <1>3
  <2>2. PICK status \in Statuses : SetCondition(t, status, "SetupComplete")
    BY <2>1 DEF ReportOther
  <2>. QED BY <2>1, <2>2, WriteKeepsInv DEF ReportOther
<1>4. CASE ChangeSpec \/ Delete \/ Tick \/ UNCHANGED vars
  <2>1. conditions' = conditions /\ phase' = phase
    BY <1>4 DEF ChangeSpec, Delete, Tick, vars
  <2>2. now' \in 1..MaxTime
    BY <1>4 DEF ChangeSpec, Delete, Tick, vars, Inv, TypeOK
  <2>3. generation' \in 1..MaxGeneration /\ observedGeneration' \in 0..generation'
    BY <1>4 DEF ChangeSpec, Delete, Tick, vars, Inv, TypeOK
  <2>4. deleting' \in BOOLEAN
    BY <1>4 DEF ChangeSpec, Delete, Tick, vars, Inv, TypeOK
  <2>. QED BY <2>1, <2>2, <2>3, <2>4 DEF Inv, TypeOK, OneEntryPerType, PhaseFollows
<1>. QED BY <1>1, <1>2, <1>3, <1>4 DEF Next

LEMMA Invariant == Spec => []Inv
<1>1. ASSUME Init PROVE Inv
  <2>1. /\ generation \in 1..MaxGeneration /\ observedGeneration \in 0..generation
        /\ now \in 1..MaxTime
    BY <1>1, StatusAssumption DEF Init
  <2>2. conditions \in Seq(Condition) /\ DOMAIN conditions = {}
    BY <1>1 DEF Init
  <2>3. deleting \in BOOLEAN /\ phase = Unwritten
    BY <1>1 DEF Init
  <2>. QED BY <2>1, <2>2, <2>3 DEF Inv, TypeOK, OneEntryPerType, PhaseFollows, Has
<1>. QED BY <1>1, NextInv, PTL DEF Spec

----------------------------------------------------------------------------
(* What follows from it. *)

\* The status of an object is well typed, and the generation it reports is one
\* the object has had.
THEOREM TypeCorrect == Spec => []TypeOK
<1>1. Inv => TypeOK
  BY DEF Inv
<1>. QED BY <1>1, Invariant, PTL

\* However conditions are set, SetCondition leaves one entry of a type.
THEOREM EntriesAreUnique == Spec => []OneEntryPerType
<1>1. Inv => OneEntryPerType
  BY DEF Inv
<1>. QED BY <1>1, Invariant, PTL

\* The phase that is printed tells the Ready condition, although updatePhase runs
\* after every condition.
THEOREM PhaseIsRight == Spec => []PhaseTells
<1>1. ASSUME Inv PROVE PhaseTells
  <2> DEFINE ready == GetCondition(conditions, "Ready")
             Some(status, reasons) ==
               \E i \in DOMAIN conditions : /\ conditions[i].type = "Ready"
                                            /\ conditions[i].status = status
                                            /\ conditions[i].reason \in reasons
  <2>1. Single(conditions)
    BY <1>1, InvSingle
  <2>2. \A i \in DOMAIN conditions : conditions[i].type = "Ready" => conditions[i] = ready
    BY <2>1, FindsTheEntry
  <2>3. CASE Has(conditions, "Ready")
    <3>1. /\ ready \in Condition
          /\ \E i \in DOMAIN conditions : conditions[i].type = "Ready" /\ conditions[i] = ready
      BY <2>1, <2>3, EntryFound
    <3>2. \A status, reasons : Some(status, reasons) <=> ready.status = status /\ ready.reason \in reasons
      BY <2>2, <3>1
    <3>3. phase = UpdatedPhase(conditions)
      BY <1>1, <2>3 DEF Inv, PhaseFollows
    <3>4. ready.status \in Statuses /\ ready.reason \in Reasons
      BY <3>1 DEF Condition
    <3> HIDE DEF Some
    <3>5. /\ phase = "Ready" <=> Some("True", Reasons)
          /\ phase = "Terminating" <=> Some("False", {"Deleting"})
      BY <3>2, <3>3, <3>4 DEF UpdatedPhase, Statuses, Reasons
    <3>. QED BY <3>5 DEF PhaseTells, Some
  <2>4. CASE ~Has(conditions, "Ready")
    <3>1. \A status, reasons : ~Some(status, reasons)
      BY <2>4 DEF Has
    <3>2. ready = NoCondition
      BY <2>4 DEF GetCondition
    <3>3. ready.status \notin {"True", "False"}
      <4>1. NoCondition.status = Unwritten
        BY DEF NoCondition, Unwritten
      <4>2. Unwritten \notin {"True", "False"}
        BY DEF Unwritten
      <4>. QED BY <3>2, <4>1, <4>2
    <3>4. UpdatedPhase(conditions) = "Unknown"
      BY <3>3 DEF UpdatedPhase
    <3>5. Unwritten \notin {"Ready", "Terminating"}
      BY DEF Unwritten
    <3>6. phase \notin {"Ready", "Terminating"}
      BY <1>1, <3>4, <3>5 DEF Inv, PhaseFollows
    <3>. QED BY <3>1, <3>6 DEF PhaseTells
  <2>. QED BY <2>3, <2>4
<1>. QED BY <1>1, Invariant, PTL

----------------------------------------------------------------------------
(* What a step does. *)

\* A step leaves the conditions and the phase alone or sets one condition.
LEMMA Steps ==
  ASSUME [Next]_vars
  PROVE  \/ conditions' = conditions /\ phase' = phase
         \/ \E t \in ConditionTypes, status \in Statuses, reason \in Reasons :
              SetCondition(t, status, reason)
<1>. USE StatusAssumption
<1>1. CASE ReportReady
  BY <1>1 DEF ReportReady, Statuses, Reasons
<1>2. CASE ReportTerminating
  BY <1>2 DEF ReportTerminating, Statuses, Reasons
<1>3. CASE \E t \in ConditionTypes : ReportOther(t)
  BY <1>3 DEF ReportOther, Reasons
<1>4. CASE ChangeSpec \/ Delete \/ Tick \/ UNCHANGED vars
  BY <1>4 DEF ChangeSpec, Delete, Tick, vars
<1>. QED BY <1>1, <1>2, <1>3, <1>4 DEF Next

\* The time of an entry changes with its status, whatever else is written, and no
\* entry is lost.
THEOREM TimesAreTransitions == Spec => TimesTransitions
<1>1. ASSUME Inv, [Next]_vars, NEW t \in ConditionTypes, Has(conditions, t)
      PROVE  LET old == GetCondition(conditions, t)
                 new == GetCondition(conditions', t)
             IN /\ Has(conditions', t)
                /\ new.lastTransitionTime = IF new.status = old.status
                                            THEN old.lastTransitionTime ELSE now
  <2>1. CASE conditions' = conditions
    BY <1>1, <2>1
  <2>2. ASSUME NEW u \in ConditionTypes, NEW status \in Statuses, NEW reason \in Reasons,
               SetCondition(u, status, reason)
        PROVE  LET old == GetCondition(conditions, t)
                   new == GetCondition(conditions', t)
               IN /\ Has(conditions', t)
                  /\ new.lastTransitionTime = IF new.status = old.status
                                              THEN old.lastTransitionTime ELSE now
    <3>1. Single(conditions) /\ now \in 1..MaxTime
      BY <1>1, InvSingle DEF Inv, TypeOK
    <3>2. CASE t = u
      BY <1>1, <2>2, <3>1, <3>2, SetsStatus
    <3>3. CASE t # u
      BY <1>1, <2>2, <3>1, <3>3, SetsStatus
    <3>. QED BY <3>2, <3>3
  <2>. QED BY <1>1, <2>1, <2>2, Steps
<1>2. Inv /\ [Next]_vars =>
        [\A t \in ConditionTypes : Has(conditions, t) =>
           /\ Has(conditions', t)
           /\ LET old == GetCondition(conditions, t)
                  new == GetCondition(conditions', t)
              IN new.lastTransitionTime = IF new.status = old.status
                                          THEN old.lastTransitionTime ELSE now]_vars
  BY <1>1
<1>. QED BY <1>2, Invariant, PTL DEF Spec, TimesTransitions

----------------------------------------------------------------------------
(* The short form of ManagedObject. *)

\* What Short says of the Ready condition.
ShortReady(conds) ==
  CASE GetCondition(conds, "Ready").status = "True"  -> "True"
    [] GetCondition(conds, "Ready").status = "False" -> "Terminating"
    [] OTHER                                         -> "Unset"

\* The short form of a status.
ShortOf(gone, seen, ready) ==
  [Managed!NewObject({"s"}, TRUE) EXCEPT !.deleting = gone, !.observed = seen, !.ready = ready]

\* Field by field.
Tells(x, gone, seen, ready) ==
  /\ x \in Managed!Object
  /\ x.deleting = gone /\ x.observed = seen /\ x.ready = ready
  /\ x.present = TRUE /\ x.finalizer = FALSE /\ x.held = TRUE
  /\ x.owners = {"s"} /\ x.namespace = FALSE /\ x.members = {}

LEMMA ShortTells ==
  ASSUME NEW gone \in BOOLEAN, NEW seen \in BOOLEAN, NEW ready \in Managed!ReadyCondition
  PROVE  /\ Tells(ShortOf(gone, seen, ready), gone, seen, ready)
         /\ \A x : Tells(x, gone, seen, ready) => x = ShortOf(gone, seen, ready)
<1> DEFINE new == Managed!NewObject({"s"}, TRUE)
<1>1. /\ new \in Managed!Object
      /\ new.present = TRUE /\ new.finalizer = FALSE /\ new.held = TRUE
      /\ new.owners = {"s"} /\ new.namespace = FALSE /\ new.members = {}
  BY DEF Managed!NewObject, Managed!Object, Managed!ReadyCondition
<1>2. ShortOf(gone, seen, ready) =
        [new EXCEPT !.deleting = gone, !.observed = seen, !.ready = ready]
  BY DEF ShortOf
<1> HIDE DEF new
<1>3. Tells(ShortOf(gone, seen, ready), gone, seen, ready)
  BY <1>1, <1>2 DEF Tells, Managed!Object
<1>4. ASSUME NEW x, NEW y, Tells(x, gone, seen, ready), Tells(y, gone, seen, ready)
      PROVE  x = y
  BY <1>4 DEF Tells, Managed!Object
<1>. QED BY <1>3, <1>4

\* What the operators of ManagedObject make of it.
LEMMA ShortSteps ==
  ASSUME NEW gone \in BOOLEAN, NEW seen \in BOOLEAN, NEW ready \in Managed!ReadyCondition
  PROVE  LET x == ShortOf(gone, seen, ready) IN
         /\ \A c \in Managed!ReadyCondition : Managed!SetReady(x, c) = ShortOf(gone, TRUE, c)
         /\ Managed!WithOwners(x, {"s"}) = ShortOf(gone, FALSE, ready)
         /\ gone = FALSE => Managed!Deleted(x) = ShortOf(TRUE, FALSE, ready)
         /\ Managed!IsReady(x) <=> gone = FALSE /\ seen = TRUE /\ ready = "True"
<1> DEFINE x == ShortOf(gone, seen, ready)
<1>1. Tells(x, gone, seen, ready)
  BY ShortTells
<1> HIDE DEF x
<1>2. ASSUME NEW c \in Managed!ReadyCondition
      PROVE  Managed!SetReady(x, c) = ShortOf(gone, TRUE, c)
  <2>1. Tells(Managed!SetReady(x, c), gone, TRUE, c)
    BY <1>1 DEF Tells, Managed!SetReady, Managed!Object
  <2>. QED BY <2>1, ShortTells
<1>3. Managed!WithOwners(x, {"s"}) = ShortOf(gone, FALSE, ready)
  <2>1. Tells(Managed!WithOwners(x, {"s"}), gone, FALSE, ready)
    BY <1>1 DEF Tells, Managed!WithOwners, Managed!Object
  <2>. QED BY <2>1, ShortTells
<1>4. ASSUME gone = FALSE PROVE Managed!Deleted(x) = ShortOf(TRUE, FALSE, ready)
  <2> DEFINE y == [x EXCEPT !.deleting = TRUE, !.observed = FALSE]
  <2>1. Tells(y, TRUE, FALSE, ready)
    BY <1>1 DEF Tells, Managed!Object
  <2> HIDE DEF y
  <2>2. Managed!Settled(y) = y
    BY <2>1 DEF Tells, Managed!Settled
  <2>3. Managed!Deleted(x) = Managed!Settled(y)
    BY <1>1, <1>4 DEF Tells, Managed!Deleted, y
  <2>. QED BY <2>1, <2>2, <2>3, ShortTells
<1>5. Managed!IsReady(x) <=> gone = FALSE /\ seen = TRUE /\ ready = "True"
  BY <1>1 DEF Tells, Managed!IsReady
<1>. QED BY <1>2, <1>3, <1>4, <1>5 DEF x

\* Short is the short form of the status, now and after the step.
LEMMA ShortIs ==
  /\ \E seen \in BOOLEAN : /\ seen = (generation = observedGeneration)
                           /\ Short = ShortOf(deleting, seen, ShortReady(conditions))
  /\ \E seen \in BOOLEAN : /\ seen = (generation' = observedGeneration')
                           /\ Short' = ShortOf(deleting', seen, ShortReady(conditions'))
<1>1. Short = ShortOf(deleting, generation = observedGeneration, ShortReady(conditions))
  BY DEF Short, ShortOf, ShortReady
<1>2. Short' = ShortOf(deleting', generation' = observedGeneration', ShortReady(conditions'))
  BY DEF Short, ShortOf, ShortReady
<1>. QED BY <1>1, <1>2, Zenon

LEMMA ShortReadyType ==
  ASSUME NEW conds PROVE ShortReady(conds) \in Managed!ReadyCondition
BY DEF ShortReady, Managed!ReadyCondition

\* ManagedObject is a faithful short form: the status of every object is always one
\* it describes, and every write does what its operators do.
THEOREM ShortFormIsFaithful == Spec => Represents
<1>1. ASSUME Inv PROVE IsReady <=> Managed!IsReady(Short)
  <2>1. Single(conditions) /\ deleting \in BOOLEAN
    BY <1>1, InvSingle DEF Inv, TypeOK
  <2>2. (\E i \in DOMAIN conditions : conditions[i].type = "Ready" /\ conditions[i].status = "True")
          <=> ShortReady(conditions) = "True"
    <3>1. CASE Has(conditions, "Ready")
      BY <2>1, <3>1, EntryFound, FindsTheEntry DEF ShortReady
    <3>2. CASE ~Has(conditions, "Ready")
      <4>1. GetCondition(conditions, "Ready").status = Unwritten
        BY <3>2 DEF GetCondition, NoCondition, Unwritten
      <4>2. Unwritten \notin {"True", "False"}
        BY DEF Unwritten
      <4>. QED BY <3>2, <4>1, <4>2 DEF ShortReady, Has
    <3>. QED BY <3>1, <3>2
  <2>3. PICK seen \in BOOLEAN : /\ seen = (generation = observedGeneration)
                                /\ Short = ShortOf(deleting, seen, ShortReady(conditions))
    BY ShortIs
  <2>4. Managed!IsReady(Short) <=> deleting = FALSE /\ seen = TRUE /\ ShortReady(conditions) = "True"
    BY <2>1, <2>3, ShortSteps, ShortReadyType
  <2>. QED BY <2>1, <2>2, <2>3, <2>4 DEF IsReady
<1>2. ASSUME Inv, [Next]_vars
      PROVE  \/ ~deleting /\ Short' = Managed!SetReady(Short, "True")
             \/ deleting /\ Short' = Managed!SetReady(Short, "Terminating")
             \/ Short' = Managed!WithOwners(Short, {"s"})
             \/ Short' = Managed!Deleted(Short)
             \/ Short' = Short
  <2>a. Single(conditions) /\ now \in 1..MaxTime
    BY <1>2, InvSingle DEF Inv, TypeOK
  <2>b. deleting \in BOOLEAN /\ ShortReady(conditions) \in Managed!ReadyCondition
    BY <1>2, ShortReadyType DEF Inv, TypeOK
  <2>c. PICK seen \in BOOLEAN : /\ seen = (generation = observedGeneration)
                                /\ Short = ShortOf(deleting, seen, ShortReady(conditions))
    BY ShortIs
  <2>d. PICK next \in BOOLEAN : /\ next = (generation' = observedGeneration')
                                /\ Short' = ShortOf(deleting', next, ShortReady(conditions'))
    BY ShortIs
  <2>1. CASE ReportReady
    <3>1. GetCondition(conditions', "Ready").status = "True"
      BY <2>a, <2>1, SetsStatus, StatusAssumption DEF ReportReady, Statuses, Reasons
    <3>2. ShortReady(conditions') = "True"
      BY <3>1 DEF ShortReady
    <3>3. ~deleting /\ deleting' = deleting /\ next = TRUE
      BY <2>1, <2>d DEF ReportReady, Observe
    <3>4. Managed!SetReady(Short, "True") = ShortOf(deleting, TRUE, "True")
      BY <2>b, <2>c, ShortSteps DEF Managed!ReadyCondition
    <3>5. Short' = ShortOf(deleting, TRUE, "True")
      BY <2>d, <3>2, <3>3
    <3>. QED BY <3>3, <3>4, <3>5
  <2>2. CASE ReportTerminating
    <3>1. GetCondition(conditions', "Ready").status = "False"
      BY <2>a, <2>2, SetsStatus, StatusAssumption DEF ReportTerminating, Statuses, Reasons
    <3>2. ShortReady(conditions') = "Terminating"
      BY <3>1 DEF ShortReady
    <3>3. deleting /\ deleting' = deleting /\ next = TRUE
      BY <2>2, <2>d DEF ReportTerminating, Observe
    <3>4. Managed!SetReady(Short, "Terminating") = ShortOf(deleting, TRUE, "Terminating")
      BY <2>b, <2>c, ShortSteps DEF Managed!ReadyCondition
    <3>5. Short' = ShortOf(deleting, TRUE, "Terminating")
      BY <2>d, <3>2, <3>3
    <3>. QED BY <3>3, <3>4, <3>5
  <2>3. CASE \E t \in ConditionTypes : ReportOther(t)
    <3>1. PICK t \in ConditionTypes : ReportOther(t)
      BY <2>3
    <3>2. PICK status \in Statuses : SetCondition(t, status, "SetupComplete")
      BY <3>1 DEF ReportOther
    <3>3. GetCondition(conditions', "Ready") = GetCondition(conditions, "Ready")
      BY <2>a, <3>1, <3>2, SetsStatus DEF ReportOther, Reasons
    <3>4. ShortReady(conditions') = ShortReady(conditions)
      BY <3>3 DEF ShortReady
    <3>5. deleting' = deleting /\ next = seen
      BY <2>c, <2>d, <3>1 DEF ReportOther
    <3>. QED BY <2>c, <2>d, <3>4, <3>5
  <2>4. CASE ChangeSpec \/ Delete
    <3>1. ShortReady(conditions') = ShortReady(conditions)
      BY <2>4 DEF ChangeSpec, Delete
    <3>2. generation' # observedGeneration'
      BY <1>2, <2>4 DEF ChangeSpec, Delete, Inv, TypeOK
    <3>3. next = FALSE
      BY <2>d, <3>2
    <3>4. CASE deleting' = deleting
      <4>1. Managed!WithOwners(Short, {"s"}) = ShortOf(deleting, FALSE, ShortReady(conditions))
        BY <2>b, <2>c, ShortSteps
      <4>2. Short' = ShortOf(deleting, FALSE, ShortReady(conditions))
        BY <2>d, <3>1, <3>3, <3>4
      <4>. QED BY <4>1, <4>2
    <3>5. CASE deleting = FALSE /\ deleting' = TRUE
      <4>1. Managed!Deleted(Short) = ShortOf(TRUE, FALSE, ShortReady(conditions))
        BY <2>b, <2>c, <3>5, ShortSteps
      <4>2. Short' = ShortOf(TRUE, FALSE, ShortReady(conditions))
        BY <2>d, <3>1, <3>3, <3>5
      <4>. QED BY <4>1, <4>2
    <3>. QED BY <2>4, <2>b, <3>4, <3>5 DEF ChangeSpec, Delete
  <2>5. CASE Tick \/ UNCHANGED vars
    <3>1. ShortReady(conditions') = ShortReady(conditions)
      BY <2>5 DEF Tick, vars
    <3>2. deleting' = deleting /\ next = seen
      BY <2>5, <2>c, <2>d DEF Tick, vars
    <3>. QED BY <2>c, <2>d, <3>1, <3>2
  <2>. QED BY <1>2, <2>1, <2>2, <2>3, <2>4, <2>5 DEF Next
<1>3. Inv /\ [Next]_vars =>
        [\/ ~deleting /\ Short' = Managed!SetReady(Short, "True")
         \/ deleting /\ Short' = Managed!SetReady(Short, "Terminating")
         \/ Short' = Managed!WithOwners(Short, {"s"})
         \/ Short' = Managed!Deleted(Short)
         \/ Short' = Short]_vars
  BY <1>2
<1>. QED BY <1>1, <1>3, Invariant, PTL DEF Spec, Represents
=============================================================================
