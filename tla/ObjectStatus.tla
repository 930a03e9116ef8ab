---------------------------- MODULE ObjectStatus ----------------------------
(***************************************************************************)
(* The status of one object of Bulward: generations, conditions and phase, *)
(* as the methods SetCondition, GetCondition, updatePhase and IsReady of   *)
(* the API types and the controllers treat them.  Organization, Project,   *)
(* OrganizationRoleTemplate and ProjectRoleTemplate have the same methods. *)
(*                                                                         *)
(* The modules of the controllers use the short form in ManagedObject; the *)
(* property Represents says that it is a faithful one.                     *)
(***************************************************************************)
EXTENDS Naturals, Sequences

CONSTANTS ConditionTypes,   \* "Ready", and what other clients of the API types may add
          MaxGeneration,    \* bound on metadata.generation
          MaxTime           \* bound on the clock

ASSUME StatusAssumption ==
  /\ "Ready" \in ConditionTypes
  /\ MaxGeneration \in Nat \ {0}
  /\ MaxTime \in Nat \ {0}

VARIABLES
  deleting,             \* metadata.deletionTimestamp is set
  generation,           \* metadata.generation
  observedGeneration,   \* status.observedGeneration
  conditions,           \* status.conditions
  phase,                \* status.phase
  now                   \* the clock

vars == <<deleting, generation, observedGeneration, conditions, phase, now>>

Statuses  == {"True", "False", "Unknown"}
Reasons   == {"SetupComplete", "Deleting"}
Condition == [type : ConditionTypes, status : Statuses, reason : Reasons,
              lastTransitionTime : 1..MaxTime]
Phases    == {"Ready", "NotReady", "Unknown", "Terminating"}
Unwritten == ""

TypeOK ==
  /\ deleting \in BOOLEAN
  /\ generation \in 1..MaxGeneration
  /\ observedGeneration \in 0..generation
  /\ conditions \in Seq(Condition)
  /\ phase \in Phases \cup {Unwritten}
  /\ now \in 1..MaxTime

Init ==
  /\ deleting = FALSE
  /\ generation = 1 /\ observedGeneration = 0
  /\ conditions = <<>> /\ phase = Unwritten
  /\ now = 1

----------------------------------------------------------------------------
(* The methods. *)

\* Where the loops over the conditions stop: at the first entry of the type.
Has(conds, t) == \E i \in DOMAIN conds : conds[i].type = t
First(conds, t) ==
  CHOOSE i \in DOMAIN conds :
    conds[i].type = t /\ \A j \in 1..(i - 1) : conds[j].type # t

NoCondition == [type |-> "", status |-> "", reason |-> "", lastTransitionTime |-> 0]
GetCondition(conds, t) == IF Has(conds, t) THEN conds[First(conds, t)] ELSE NoCondition

\* Faulty: the Terminating reason is not looked at.
UpdatedPhaseAnyReason(conds) ==
  CASE GetCondition(conds, "Ready").status = "True"  -> "Ready"
    [] GetCondition(conds, "Ready").status = "False" -> "NotReady"
    [] OTHER                                         -> "Unknown"

\* updatePhase, deferred in SetCondition.
UpdatedPhase(conds) ==
  LET ready == GetCondition(conds, "Ready") IN
  CASE ready.status = "True"                                -> "Ready"
    [] ready.status = "False" /\ ready.reason = "Deleting"  -> "Terminating"
    [] ready.status = "False" /\ ready.reason # "Deleting"  -> "NotReady"
    [] OTHER                                                -> "Unknown"

\* Faulty: a condition is always added.
Added(conds, t, status, reason) ==
  Append(conds, [type |-> t, status |-> status, reason |-> reason, lastTransitionTime |-> now])

\* Faulty: the time of the last write.
WithConditionTouched(conds, t, status, reason) ==
  IF Has(conds, t)
  THEN [conds EXCEPT ![First(conds, t)] =
          [@ EXCEPT !.status = status, !.reason = reason, !.lastTransitionTime = now]]
  ELSE Append(conds, [type |-> t, status |-> status, reason |-> reason,
                      lastTransitionTime |-> now])

\* Faulty: the time is not filled in.
WithConditionUntimed(conds, t, status, reason) ==
  IF Has(conds, t)
  THEN [conds EXCEPT ![First(conds, t)] = [@ EXCEPT !.status = status, !.reason = reason]]
  ELSE Append(conds, [type |-> t, status |-> status, reason |-> reason,
                      lastTransitionTime |-> 0])

\* The entry of a type is replaced or added; its time changes with its status only.
WithCondition(conds, t, status, reason) ==
  LET old      == GetCondition(conds, t)
      At(time) == [type |-> t, status |-> status, reason |-> reason,
                   lastTransitionTime |-> time]
  IN IF Has(conds, t)
     THEN [conds EXCEPT ![First(conds, t)] =
             At(IF old.status = status THEN old.lastTransitionTime ELSE now)]
     ELSE Append(conds, At(now))

SetCondition(t, status, reason) ==
  /\ conditions' = WithCondition(conditions, t, status, reason)
  /\ phase' = UpdatedPhase(conditions')

IsReady ==
  /\ ~deleting
  /\ generation = observedGeneration
  /\ \E i \in DOMAIN conditions : conditions[i].type = "Ready" /\ conditions[i].status = "True"

----------------------------------------------------------------------------
(* The writers of the status. *)

\* Faulty: the generation is not reported.
ObserveNothing == UNCHANGED observedGeneration
Observe        == observedGeneration' = generation

\* The end of Reconcile.
ReportReady ==
  /\ ~deleting /\ ~IsReady
  /\ Observe
  /\ SetCondition("Ready", "True", "SetupComplete")
  /\ UNCHANGED <<deleting, generation, now>>

\* The condition at the top of handleDeletion.
NotYetTerminating ==
  LET ready == GetCondition(conditions, "Ready") IN
  \/ ready.status # "False"
  \/ ready.status = "False" /\ ready.reason # "Deleting"

ReportTerminating ==
  /\ deleting /\ NotYetTerminating
  /\ Observe
  /\ SetCondition("Ready", "False", "Deleting")
  /\ UNCHANGED <<deleting, generation, now>>

\* Another client of the API types sets a condition of its own.
ReportOther(t) ==
  /\ t # "Ready"
  /\ \E status \in Statuses : SetCondition(t, status, "SetupComplete")
  /\ UNCHANGED <<deleting, generation, observedGeneration, now>>

----------------------------------------------------------------------------
(* The API server and its users. *)

ChangeSpec ==
  /\ generation < MaxGeneration
  /\ generation' = generation + 1
  /\ UNCHANGED <<deleting, observedGeneration, conditions, phase, now>>

Delete ==
  /\ ~deleting /\ generation < MaxGeneration
  /\ deleting' = TRUE
  /\ generation' = generation + 1
  /\ UNCHANGED <<observedGeneration, conditions, phase, now>>

Tick ==
  /\ now < MaxTime
  /\ now' = now + 1
  /\ UNCHANGED <<deleting, generation, observedGeneration, conditions, phase>>

Next ==
  \/ ReportReady \/ ReportTerminating \/ \E t \in ConditionTypes : ReportOther(t)
  \/ ChangeSpec \/ Delete \/ Tick

Spec == Init /\ [][Next]_vars
----------------------------------------------------------------------------
(* Properties. *)

\* The printed phase says what the Ready conditions say, whichever condition
\* was written last (the comment on updatePhase).
PhaseTells ==
  LET Some(status, reasons) ==
        \E i \in DOMAIN conditions : /\ conditions[i].type = "Ready"
                                     /\ conditions[i].status = status
                                     /\ conditions[i].reason \in reasons
  IN /\ phase = "Ready" <=> Some("True", Reasons)
     /\ phase = "Terminating" <=> Some("False", {"Deleting"})

\* SetCondition replaces or adds: no type has two entries.
OneEntryPerType ==
  \A i, j \in DOMAIN conditions : conditions[i].type = conditions[j].type => i = j

\* "LastTransitionTime is the last time the condition transits from one status
\* to another", and no entry is lost.
TimesTransitions ==
  [][\A t \in ConditionTypes : Has(conditions, t) =>
       /\ Has(conditions', t)
       /\ LET old == GetCondition(conditions, t)
              new == GetCondition(conditions', t)
          IN new.lastTransitionTime = IF new.status = old.status
                                      THEN old.lastTransitionTime ELSE now]_vars

\* The object as ManagedObject describes it, and the steps it describes.
Managed == INSTANCE ManagedObject WITH Subjects <- {"s"}, OwnerSets <- {{"s"}}

Short ==
  [Managed!NewObject({"s"}, TRUE) EXCEPT
     !.deleting = deleting,
     !.observed = (generation = observedGeneration),
     !.ready    = CASE GetCondition(conditions, "Ready").status = "True"  -> "True"
                    [] GetCondition(conditions, "Ready").status = "False" -> "Terminating"
                    [] OTHER                                              -> "Unset"]

\* Every write of the status is a SetReady of ManagedObject, every write of the
\* rest what it says the server does, and IsReady is the same question.
Represents ==
  /\ [](IsReady <=> Managed!IsReady(Short))
  /\ [][\/ ~deleting /\ Short' = Managed!SetReady(Short, "True")
        \/ deleting /\ Short' = Managed!SetReady(Short, "Terminating")
        \/ Short' = Managed!WithOwners(Short, {"s"})
        \/ Short' = Managed!Deleted(Short)
        \/ Short' = Short]_vars
=============================================================================
