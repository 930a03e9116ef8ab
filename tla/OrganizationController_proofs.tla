------------------- MODULE OrganizationController_proofs -------------------
(***************************************************************************)
(* Proofs about the Organization controller, for any number of             *)
(* Organizations, Projects, templates and workers: types, the finalizer,   *)
(* what a step may never do, what an Organization that is declared ready   *)
(* has been given, the ownership of its namespace, and that the controller *)
(* rests only where it has nothing left to do.                             *)
(***************************************************************************)
EXTENDS OrganizationController, ManagedObject_proofs

----------------------------------------------------------------------------
(* The inductive invariant.  What follows is about one Organization o: what  *)
(* is stored, what the cache holds, and what the Reconcile call works on.   *)

\* An object that does not exist has none of the marks.
WellFormed(x) == ~x.present => ~x.finalizer /\ ~x.deleting /\ x.ready = "Unset"

\* A copy is outdated unless it equals the stored object.
CopiesKnown(o) ==
  /\ WellFormed(org[o]) /\ WellFormed(cache[o].org)
  /\ current[o] => obj[o] = org[o]
  /\ "Organization" \notin pending[o] => cache[o].org = org[o]

\* What the cache says about the finalizer still tells something of the
\* present: only this controller adds or removes it, one call at a time.
CacheTells(o) ==
  /\ cache[o].org.finalizer /\ ~cache[o].org.deleting => org[o].finalizer
  /\ cache[o].org.deleting => (org[o].finalizer => org[o].deleting)

\* What the step at which a call stands says about its copy and the rest.
CallTells(o) ==
  /\ pc[o] = "updateFinalizer" =>
       /\ obj[o].present /\ ~obj[o].deleting
       /\ current[o] => ~cache[o].org.deleting
  /\ pc[o] \in Provisioning =>
       /\ obj[o].present /\ obj[o].finalizer /\ ~obj[o].deleting
       /\ org[o].finalizer
  /\ pc[o] \in Removing =>
       /\ obj[o].present /\ obj[o].deleting
       /\ org[o].finalizer => org[o].deleting
       /\ cache[o].org.finalizer => cache[o].org.deleting

FinalizerInvOf(o) == CopiesKnown(o) /\ CacheTells(o) /\ CallTells(o)
FinalizerInv      == \A o \in Orgs : FinalizerInvOf(o)

----------------------------------------------------------------------------
(* Types. *)

\* The subjects that reconcileMembers collects are subjects.
LEMMA MembersTypes == \A v \in View : MembersIn(v) \in SUBSET Subjects
BY DEF MembersIn, View, Contents, ProjectView

LEMMA InitTypes == Init => TypeOK
<1>. SUFFICES ASSUME Init PROVE TypeOK
  OBVIOUS
<1>1. NoContents \in Contents
  BY DEF NoContents, Contents, NoProject, ProjectView
<1>. QED BY <1>1, ObjectTypes
  DEF Init, TypeOK, View, NamespacePhase, Steps

\* The ways in which the steps of a call act.
LEMMA ReturnTypes ==
  ASSUME TypeOK, NEW o \in Orgs, Return(o)
  PROVE  /\ pc' \in [Orgs -> Steps] /\ obj' \in [Orgs -> Object]
         /\ current' \in [Orgs -> BOOLEAN] /\ subjects' \in [Orgs -> SUBSET Subjects]
         /\ todo' \in [Orgs -> SUBSET Templates]
BY ObjectTypes DEF TypeOK, Return, Steps

LEMMA WriteTypes ==
  ASSUME TypeOK, NEW o \in Orgs, NEW new \in Object, NEW next \in Steps,
         Write(o, new, next)
  PROVE  /\ org' \in [Orgs -> Object] /\ pending' \in [Orgs -> SUBSET Kinds]
         /\ queue' \in SUBSET Orgs
         /\ pc' \in [Orgs -> Steps] /\ obj' \in [Orgs -> Object]
         /\ current' \in [Orgs -> BOOLEAN] /\ subjects' \in [Orgs -> SUBSET Subjects]
BY ReturnTypes DEF Accepts, TypeOK, Write, ReturnError, Goto, Notify, Kinds

LEMMA SetNamespaceTypes ==
  ASSUME TypeOK, NEW o \in Orgs, NEW phase \in NamespacePhase, SetNamespace(o, phase)
  PROVE  /\ ns' \in [Orgs -> NamespacePhase] /\ cache' \in [Orgs -> View]
         /\ pending' \in [Orgs -> SUBSET Kinds] /\ queue' \in SUBSET Orgs
<1>1. [cache EXCEPT ![o].ns = phase] \in [Orgs -> View]
  BY DEF TypeOK, View
<1>. QED BY <1>1 DEF Requests, TypeOK, SetNamespace, Notify, Kinds

\* The steps of a call.
LEMMA ControllerTypes ==
  ASSUME TypeOK, NEW o \in Orgs, Controller(o)
  PROVE  TypeOK'
<1>. USE ReturnTypes DEF apiVars, taskVars
<1>1. CASE Start(o)
  <2>1. cache[o].org \in Object
    BY DEF TypeOK, View
  <2>. QED BY <1>1, <2>1 DEF FirstStep, Start, TypeOK, Goto, Steps, Provisioning, Removing
<1>2. CASE UpdateFinalizer(o)
  <2>1. [obj[o] EXCEPT !.finalizer = TRUE] \in Object
    BY FieldTypes DEF TypeOK
  <2>2. "reconcileNamespace" \in Steps
    BY DEF Steps, Provisioning
  <2>. QED BY <1>2, <2>1, <2>2, WriteTypes DEF UpdateFinalizer, TypeOK
<1>3. CASE ReconcileNamespace(o)
  <2>1. {"listMembers", "updateNamespaceName"} \subseteq Steps /\ "active" \in NamespacePhase
    BY DEF Steps, Provisioning, NamespacePhase
  <2>. QED BY <1>3, <2>1, SetNamespaceTypes
           DEF ReconcileNamespace, TypeOK, Goto, ReturnError
<1>4. CASE UpdateNamespaceName(o)
  <2>1. [obj[o] EXCEPT !.namespace = TRUE] \in Object
    BY FieldTypes DEF TypeOK
  <2>2. "listMembers" \in Steps
    BY DEF Steps, Provisioning
  <2>. QED BY <1>4, <2>1, <2>2, WriteTypes DEF UpdateNamespaceName, TypeOK
<1>5. CASE ListMembers(o)
  <2>1. MembersIn(cache[o]) \in SUBSET Subjects
    BY MembersTypes DEF TypeOK
  <2>. QED BY <1>5, <2>1 DEF ListMembers, TypeOK, Goto, Steps, Provisioning
<1>6. CASE UpdateMembers(o)
  <2>1. [obj[o] EXCEPT !.members = subjects[o]] \in Object
    BY FieldTypes DEF TypeOK
  <2>2. "checkTemplates" \in Steps
    BY DEF Steps, Provisioning
  <2>. QED BY <1>6, <2>1, <2>2, WriteTypes DEF Accepts, UpdateMembers, TypeOK
<1>7. CASE CheckTemplate(o)
  BY <1>7 DEF CheckTemplate, TypeOK, Goto, Steps, Provisioning
<1>8. CASE UpdateReady(o)
  <2>1. SetReady(obj[o], "True") \in Object
    BY ObjectTypes DEF TypeOK, ReadyCondition
  <2>. QED BY <1>8, <2>1 DEF Accepts, UpdateReady, TypeOK, Notify, Kinds, ReturnError
<1>9. CASE UpdateTerminating(o)
  <2>1. SetReady(obj[o], "Terminating") \in Object
    BY ObjectTypes DEF TypeOK, ReadyCondition
  <2>2. "deleteObjects" \in Steps
    BY DEF Steps, Removing
  <2>. QED BY <1>9, <2>1, <2>2, WriteTypes DEF UpdateTerminating, TypeOK
<1>10. CASE DeleteObjects(o)
  <2>1. "removeFinalizer" \in Steps /\ "terminating" \in NamespacePhase
    BY DEF Steps, Removing, NamespacePhase
  <2>. QED BY <1>10, <2>1, SetNamespaceTypes DEF DeleteObjects, TypeOK, Goto
<1>11. CASE RemoveFinalizer(o)
  <2>1. WithoutFinalizer(obj[o]) \in Object
    BY ObjectTypes DEF TypeOK
  <2>. QED BY <1>11, <2>1 DEF Accepts, RemoveFinalizer, TypeOK, Notify, Kinds, ReturnError
<1>. QED
  BY <1>1, <1>2, <1>3, <1>4, <1>5, <1>6, <1>7, <1>8, <1>9, <1>10, <1>11
  DEF Controller, Continue

\* Informers, the namespace controller, users and faults.
LEMMA SurroundingTypes ==
  ASSUME TypeOK, NEW o \in Orgs,
         \/ \E kind \in Kinds : Deliver(o, kind)
         \/ PurgeNamespace(o) \/ RemoveNamespace(o) \/ ReleaseHold(o)
         \/ Environment(o)
  PROVE  TypeOK'
<1>. USE DEF apiVars, taskVars
<1>1. ASSUME NEW new \in Object, ChangeOrganization(o, new) PROVE TypeOK'
  BY <1>1 DEF ChangeOrganization, TypeOK, Notify, Kinds
<1>2. ASSUME NEW kind \in Kinds, Deliver(o, kind) PROVE TypeOK'
  <2>1. cache[o] \in View /\ org[o] \in Object /\ ns[o] \in NamespacePhase
        /\ bindings[o] \in SUBSET Subjects /\ projects[o] \in Contents
    BY DEF TypeOK
  <2>2. cache' \in [Orgs -> View]
    <3>1. CASE kind = "Organization"
      BY <1>2, <2>1, <3>1 DEF Requests, Deliver, TypeOK, View
    <3>2. CASE kind = "Namespace"
      BY <1>2, <2>1, <3>2 DEF Requests, Deliver, TypeOK, View
    <3>3. CASE kind = "RoleBinding"
      BY <1>2, <2>1, <3>3 DEF Requests, Deliver, TypeOK, View
    <3>4. CASE kind = "Project"
      BY <1>2, <2>1, <3>4 DEF Requests, Deliver, TypeOK, View
    <3>. QED BY <3>1, <3>2, <3>3, <3>4 DEF Kinds
  <2>. QED BY <1>2, <2>2 DEF Requests, Deliver, TypeOK
<1>3. CASE PurgeNamespace(o)
  <2>1. NoContents \in Contents
    BY DEF NoContents, Contents, NoProject, ProjectView
  <2>. QED BY <1>3, <2>1 DEF PurgeNamespace, TypeOK, Notify, Kinds
<1>4. CASE RemoveNamespace(o)
  BY <1>4, SetNamespaceTypes DEF RemoveNamespace, TypeOK, NamespacePhase
<1>5. CASE ReleaseHold(o)
  <2>1. WithoutHold(org[o]) \in Object
    BY ObjectTypes DEF TypeOK
  <2>. QED BY <1>1, <1>5, <2>1 DEF ReleaseHold
<1>6. CASE CreateOrganization(o)
  <2>1. \A owners \in OwnerSets, held \in Holds : NewObject(owners, held) \in Object
    BY ObjectTypes, ControllerAssumption
  <2>. QED BY <1>1, <1>6, <2>1 DEF CreateOrganization
<1>7. CASE UpdateOwners(o)
  <2>1. \A owners \in OwnerSets : WithOwners(org[o], owners) \in Object
    BY ObjectTypes DEF TypeOK
  <2>. QED BY <1>1, <1>7, <2>1 DEF UpdateOwners
<1>8. CASE DeleteOrganization(o)
  <2>1. Deleted(org[o]) \in Object
    BY ObjectTypes DEF TypeOK
  <2>. QED BY <1>1, <1>8, <2>1 DEF DeleteOrganization
<1>9. CASE ChangeBindings(o)
  BY <1>9 DEF ChangeBindings, TypeOK, Notify, Kinds
<1>10. CASE ChangeProject(o)
  <2>1. PICK p \in Projects, v \in ProjectView : projects' = [projects EXCEPT ![o][p] = v]
    BY <1>10 DEF ChangeProject
  <2>2. projects' \in [Orgs -> Contents]
    BY <2>1 DEF TypeOK, Contents
  <2>. QED BY <1>10, <2>2 DEF ChangeProject, TypeOK, Notify, Kinds
<1>11. CASE DeleteNamespace(o)
  BY <1>11, SetNamespaceTypes DEF DeleteNamespace, TypeOK, NamespacePhase
<1>12. CASE FailCall(o)
  BY <1>12, ReturnTypes DEF FailCall, ReturnError, TypeOK
<1>. QED
  BY <1>2, <1>3, <1>4, <1>5, <1>6, <1>7, <1>8, <1>9, <1>10, <1>11, <1>12 DEF Environment

LEMMA NextTypes == TypeOK /\ [Next]_vars => TypeOK'
<1>. SUFFICES ASSUME TypeOK, [Next]_vars PROVE TypeOK'
  OBVIOUS
<1>1. CASE Restart
  <2>1. \A o \in Orgs : Latest(o) \in View
    BY DEF TypeOK, View, Latest
  <2>. QED BY <1>1, <2>1, ObjectTypes DEF Restart, TypeOK, apiVars, Steps
<1>2. CASE BecomeCalm
  BY <1>2 DEF BecomeCalm, TypeOK, apiVars, taskVars
<1>3. CASE UNCHANGED vars
  BY <1>3 DEF vars, TypeOK, apiVars, taskVars
<1>4. ASSUME NEW o \in Orgs, System(o) \/ Environment(o) PROVE TypeOK'
  BY <1>4, ControllerTypes, SurroundingTypes DEF System
<1>. QED BY <1>1, <1>2, <1>3, <1>4 DEF Next

\* Type correctness: every state of the controller has the declared form.
THEOREM TypeCorrect == Spec => []TypeOK
BY InitTypes, NextTypes, PTL DEF Spec

----------------------------------------------------------------------------
(* The finalizer invariant. *)

Untouched(x) ==
  /\ org'[x] = org[x] /\ ns'[x] = ns[x] /\ cache'[x] = cache[x] /\ pending'[x] = pending[x]
  /\ pc'[x] = pc[x] /\ obj'[x] = obj[x] /\ current'[x] = current[x] /\ todo'[x] = todo[x]
  /\ bindings'[x] = bindings[x] /\ projects'[x] = projects[x] /\ subjects'[x] = subjects[x]
  /\ x \in queue' <=> x \in queue

\* An action about one Organization leaves the others alone.
LEMMA Locality ==
  ASSUME TypeOK, NEW o \in Orgs, System(o) \/ Environment(o), NEW x \in Orgs, x # o
  PROVE  Untouched(x)
<1>. USE DEF Accepts, Requests, Untouched, TypeOK, apiVars, taskVars, Goto, Return, ReturnError, Notify,
             SetNamespace, ChangeOrganization, Write
<1>1. CASE Controller(o)
  <2>1. CASE Start(o)
    BY <2>1 DEF FirstStep, Start
  <2>2. CASE UpdateFinalizer(o) \/ UpdateNamespaceName(o) \/ UpdateMembers(o)
              \/ UpdateTerminating(o)
    BY <2>2 DEF Accepts, UpdateFinalizer, UpdateNamespaceName, UpdateMembers, UpdateTerminating
  <2>3. CASE ReconcileNamespace(o) \/ DeleteObjects(o)
    BY <2>3 DEF ReconcileNamespace, DeleteObjects
  <2>4. CASE ListMembers(o) \/ CheckTemplate(o)
    BY <2>4 DEF ListMembers, CheckTemplate
  <2>5. CASE UpdateReady(o) \/ RemoveFinalizer(o)
    BY <2>5 DEF Accepts, UpdateReady, RemoveFinalizer
  <2>. QED BY <1>1, <2>1, <2>2, <2>3, <2>4, <2>5 DEF Controller, Continue
<1>2. CASE \E kind \in Kinds : Deliver(o, kind)
  BY <1>2 DEF Requests, Deliver
<1>3. CASE PurgeNamespace(o) \/ RemoveNamespace(o) \/ ReleaseHold(o)
  BY <1>3 DEF PurgeNamespace, RemoveNamespace, ReleaseHold
<1>4. CASE Environment(o)
  BY <1>4 DEF Environment, CreateOrganization, UpdateOwners, DeleteOrganization,
              ChangeBindings, ChangeProject, DeleteNamespace, FailCall
<1>. QED BY <1>1, <1>2, <1>3, <1>4 DEF System

LEMMA FinalizerStays ==
  ASSUME NEW x \in Orgs, FinalizerInvOf(x), Untouched(x)
  PROVE  FinalizerInvOf(x)'
BY DEF FinalizerInvOf, CopiesKnown, CacheTells, CallTells, Untouched, WellFormed

\* A call that returns keeps the invariant, whatever it did before.
LEMMA FinalizerReturn ==
  ASSUME TypeOK, NEW o \in Orgs, FinalizerInvOf(o), Return(o), cache'[o].org = cache[o].org,
         org'[o] = org[o], pending[o] \cap {"Organization"} = pending'[o] \cap {"Organization"}
  PROVE  FinalizerInvOf(o)'
BY DEF FinalizerInvOf, CopiesKnown, CacheTells, CallTells, WellFormed, TypeOK,
       Return, Provisioning, Removing

\* So does a write that keeps the marks; the first one adds the finalizer.
LEMMA FinalizerWrite ==
  ASSUME TypeOK, NEW o \in Orgs, FinalizerInvOf(o), NEW new, NEW next,
         Write(o, new, next), cache' = cache, new.present, new.deleting = obj[o].deleting,
         \/ /\ pc[o] = "updateFinalizer" /\ next \in Provisioning /\ new.finalizer
         \/ /\ pc[o] \in Provisioning /\ next \in Provisioning /\ new.finalizer
         \/ /\ pc[o] \in Removing /\ next \in Removing
            /\ new.finalizer = obj[o].finalizer
  PROVE  FinalizerInvOf(o)'
<1>1. CASE current[o]
  <2>1. /\ org'[o] = new /\ obj'[o] = new /\ current'[o] = current[o] /\ pc'[o] = next
        /\ "Organization" \notin pending'[o] =>
              "Organization" \notin pending[o] /\ new = org[o]
    BY <1>1 DEF Accepts, Write, Goto, Notify, TypeOK
  <2>2. obj[o] = org[o]
    BY <1>1 DEF FinalizerInvOf, CopiesKnown
  <2>. QED BY <1>1, <2>1, <2>2 DEF FinalizerInvOf, CopiesKnown, CacheTells, CallTells, WellFormed,
                               Provisioning, Removing
<1>2. CASE ~current[o]
  BY <1>2, FinalizerReturn DEF Accepts, Write, ReturnError
<1>. QED BY <1>1, <1>2

\* The phase of a namespace is no concern of it.
LEMMA NamespaceAside ==
  ASSUME TypeOK, NEW o \in Orgs, NEW phase, SetNamespace(o, phase)
  PROVE  /\ cache'[o].org = cache[o].org
         /\ "Organization" \in pending'[o] <=> "Organization" \in pending[o]
BY DEF Requests, TypeOK, View, SetNamespace, Notify

LEMMA FinalizerController ==
  ASSUME TypeOK, NEW o \in Orgs, FinalizerInvOf(o), Controller(o)
  PROVE  FinalizerInvOf(o)'
<1>. USE DEF FinalizerInvOf, CopiesKnown, CacheTells, CallTells, WellFormed,
             Provisioning, Removing, apiVars, taskVars
<1>a. obj[o] \in Object /\ org[o] \in Object /\ subjects[o] \in SUBSET Subjects
  BY DEF TypeOK
<1>1. CASE Start(o)
  BY <1>1 DEF FirstStep, Start, TypeOK, Goto
<1>2. CASE UpdateFinalizer(o)
  <2> DEFINE new == [obj[o] EXCEPT !.finalizer = TRUE]
  <2>1. /\ new.present = obj[o].present /\ new.deleting = obj[o].deleting
        /\ new.finalizer
    BY <1>a, WrittenFields
  <2>2. \E next \in Provisioning : Write(o, new, next)
    BY <1>2 DEF UpdateFinalizer
  <2> HIDE DEF new
  <2>. QED BY <1>2, <2>1, <2>2, FinalizerWrite DEF UpdateFinalizer
<1>3. CASE ReconcileNamespace(o)
  BY <1>3, NamespaceAside, FinalizerReturn DEF ReconcileNamespace, ReturnError, Goto, TypeOK
<1>4. CASE UpdateNamespaceName(o)
  <2> DEFINE new == [obj[o] EXCEPT !.namespace = TRUE]
  <2>1. /\ new.present = obj[o].present /\ new.deleting = obj[o].deleting
        /\ new.finalizer = obj[o].finalizer
    BY <1>a, WrittenFields
  <2>2. \E next \in Provisioning : Write(o, new, next)
    BY <1>4 DEF UpdateNamespaceName
  <2> HIDE DEF new
  <2>. QED BY <1>4, <2>1, <2>2, FinalizerWrite DEF UpdateNamespaceName
<1>5. CASE ListMembers(o)
  BY <1>5 DEF ListMembers, TypeOK, Goto
<1>6. CASE UpdateMembers(o)
  <2> DEFINE new == [obj[o] EXCEPT !.members = subjects[o]]
  <2>1. /\ new.present = obj[o].present /\ new.deleting = obj[o].deleting
        /\ new.finalizer = obj[o].finalizer
    BY <1>a, WrittenFields
  <2>2. \E next \in Provisioning : Write(o, new, next)
    BY <1>6 DEF Accepts, UpdateMembers
  <2> HIDE DEF new
  <2>. QED BY <1>6, <2>1, <2>2, FinalizerWrite DEF Accepts, UpdateMembers
<1>7. CASE CheckTemplate(o)
  BY <1>7, FinalizerReturn DEF CheckTemplate, TypeOK, Goto
<1>8. CASE UpdateReady(o)
  BY <1>8, <1>a, FinalizerReturn, WrittenFields
  DEF Accepts, UpdateReady, ReadyCondition, Notify, ReturnError, Return, TypeOK
<1>9. CASE UpdateTerminating(o)
  BY <1>9, <1>a, FinalizerWrite, WrittenFields DEF UpdateTerminating, ReadyCondition
<1>10. CASE DeleteObjects(o)
  BY <1>10, NamespaceAside, FinalizerReturn DEF DeleteObjects, Goto, TypeOK
<1>11. CASE RemoveFinalizer(o)
  BY <1>11, <1>a, FinalizerReturn, ReleasedFields, AbsentFields
  DEF Accepts, RemoveFinalizer, Notify, ReturnError, Return, TypeOK
<1>. QED
  BY <1>1, <1>2, <1>3, <1>4, <1>5, <1>6, <1>7, <1>8, <1>9, <1>10, <1>11
  DEF Controller, Continue

LEMMA FinalizerSurrounding ==
  ASSUME TypeOK, NEW o \in Orgs, FinalizerInvOf(o),
         \/ \E kind \in Kinds : Deliver(o, kind)
         \/ PurgeNamespace(o) \/ RemoveNamespace(o) \/ ReleaseHold(o)
         \/ Environment(o)
  PROVE  FinalizerInvOf(o)'
<1>. USE DEF FinalizerInvOf, CopiesKnown, CacheTells, CallTells, WellFormed, apiVars, taskVars
<1>a. org[o] \in Object
  BY DEF TypeOK
\* Every write by somebody else outdates the copies.
<1>b. ASSUME NEW new, ChangeOrganization(o, new), WellFormed(new),
             new.finalizer <=> org[o].finalizer,
             org[o].deleting => new.deleting \/ ~new.finalizer
      PROVE  FinalizerInvOf(o)'
  BY <1>b DEF ChangeOrganization, TypeOK, Notify, Provisioning, Removing
<1>1. ASSUME NEW kind \in Kinds, Deliver(o, kind) PROVE FinalizerInvOf(o)'
  <2>1. CASE kind = "Organization"
    BY <1>1, <2>1 DEF Requests, Deliver, TypeOK, View, Provisioning, Removing
  <2>2. CASE kind # "Organization"
    BY <1>1, <2>2 DEF Requests, Deliver, TypeOK, View, Provisioning, Removing, Kinds
  <2>. QED BY <2>1, <2>2
<1>2. CASE PurgeNamespace(o)
  BY <1>2 DEF PurgeNamespace, Notify, TypeOK, Provisioning, Removing
<1>3. CASE RemoveNamespace(o) \/ DeleteNamespace(o)
  BY <1>3, NamespaceAside DEF RemoveNamespace, DeleteNamespace, TypeOK, Provisioning, Removing
<1>4. CASE ReleaseHold(o)
  <2> DEFINE new == WithoutHold(org[o])
  <2>1. /\ WellFormed(new)
        /\ new.finalizer <=> org[o].finalizer
        /\ org[o].deleting => new.deleting \/ ~new.finalizer
    BY <1>4, <1>a, ReleasedFields, AbsentFields DEF ReleaseHold
  <2>2. ChangeOrganization(o, new)
    BY <1>4 DEF ReleaseHold
  <2> HIDE DEF new
  <2>. QED BY <1>b, <2>1, <2>2
<1>5. CASE CreateOrganization(o)
  <2>1. PICK owners \in OwnerSets, held \in Holds :
          ChangeOrganization(o, NewObject(owners, held))
    BY <1>5 DEF CreateOrganization
  <2>2. ~org[o].finalizer /\ ~org[o].deleting
    BY <1>5 DEF CreateOrganization
  <2> DEFINE new == NewObject(owners, held)
  <2>3. new.present /\ ~new.finalizer
    BY DEF NewObject
  <2> HIDE DEF new
  <2>. QED BY <1>b, <2>1, <2>2, <2>3 DEF new
<1>6. CASE UpdateOwners(o)
  <2>1. \A owners \in OwnerSets : LET y == WithOwners(org[o], owners) IN
          /\ y.finalizer = org[o].finalizer /\ y.present = org[o].present
          /\ y.deleting = org[o].deleting
    BY <1>a DEF WithOwners, Object
  <2>. QED BY <1>6, <1>b, <2>1 DEF UpdateOwners
<1>7. CASE DeleteOrganization(o)
  <2> DEFINE new == Deleted(org[o])
  <2>1. /\ WellFormed(new)
        /\ new.finalizer <=> org[o].finalizer
        /\ org[o].deleting => new.deleting \/ ~new.finalizer
    BY <1>7, <1>a, ReleasedFields, AbsentFields DEF DeleteOrganization
  <2>2. ChangeOrganization(o, new)
    BY <1>7 DEF DeleteOrganization
  <2> HIDE DEF new
  <2>. QED BY <1>b, <2>1, <2>2
<1>8. CASE ChangeBindings(o) \/ ChangeProject(o)
  BY <1>8 DEF ChangeBindings, ChangeProject, Notify, TypeOK, Provisioning, Removing
<1>9. CASE FailCall(o)
  BY <1>9, FinalizerReturn DEF FailCall, ReturnError
<1>. QED BY <1>1, <1>2, <1>3, <1>4, <1>5, <1>6, <1>7, <1>8, <1>9 DEF Environment

LEMMA FinalizerNext == TypeOK /\ FinalizerInv /\ [Next]_vars => FinalizerInv'
<1>. SUFFICES ASSUME TypeOK, FinalizerInv, [Next]_vars, NEW x \in Orgs
              PROVE  FinalizerInvOf(x)'
  BY DEF FinalizerInv
<1>0. FinalizerInvOf(x)
  BY DEF FinalizerInv
<1>1. CASE Restart
  BY <1>0, <1>1 DEF Restart, Latest, apiVars, TypeOK, FinalizerInvOf, CopiesKnown, CacheTells, CallTells, WellFormed,
                    Provisioning, Removing
<1>2. CASE BecomeCalm \/ UNCHANGED vars
  BY <1>0, <1>2, FinalizerStays DEF BecomeCalm, Untouched, vars, apiVars, taskVars
<1>3. ASSUME NEW o \in Orgs, System(o) \/ Environment(o) PROVE FinalizerInvOf(x)'
  <2>1. CASE x = o
    BY <1>0, <1>3, <2>1, FinalizerController, FinalizerSurrounding DEF System
  <2>2. CASE x # o
    BY <1>0, <1>3, <2>2, Locality, FinalizerStays
  <2>. QED BY <2>1, <2>2
<1>. QED BY <1>1, <1>2, <1>3 DEF Next

THEOREM FinalizerInvariant == Spec => [](TypeOK /\ FinalizerInv)
<1>1. Init => FinalizerInv
  BY AbsentFields DEF Init, FinalizerInv, FinalizerInvOf, CopiesKnown, CacheTells,
     CallTells, WellFormed, Provisioning, Removing
<1>. QED BY <1>1, TypeCorrect, FinalizerNext, PTL DEF Spec

----------------------------------------------------------------------------
(* What a step may never do. *)

\* Only reconcileNamespace creates a namespace, at a step where the finalizer
\* is known to be stored.
LEMMA NamespaceCreation ==
  ASSUME TypeOK, FinalizerInv, [Next]_vars, NEW x \in Orgs,
         ns[x] = "absent", ns'[x] # "absent"
  PROVE  /\ ns'[x] = "active" /\ org[x].present /\ org[x].finalizer
         /\ ReconcileNamespace(x)
<1>. USE DEF apiVars, taskVars
<1>1. ~Restart /\ ~BecomeCalm /\ ~UNCHANGED vars
  BY DEF Restart, BecomeCalm, vars
<1>2. PICK o \in Orgs : System(o) \/ Environment(o)
  BY <1>1 DEF Next
<1>3. x = o
  BY <1>2, Locality DEF Untouched
<1>4. ReconcileNamespace(x)
  <2>1. Controller(x)
    BY <1>2, <1>3 DEF Requests, System, Environment, Deliver, PurgeNamespace, RemoveNamespace,
       ReleaseHold, ChangeOrganization, CreateOrganization, UpdateOwners,
       DeleteOrganization, ChangeBindings, ChangeProject, DeleteNamespace, FailCall,
       SetNamespace, TypeOK
  <2>. QED BY <2>1 DEF Accepts, FirstStep, Requests, Controller, Continue, Start, UpdateFinalizer, UpdateNamespaceName,
       ListMembers, UpdateMembers, CheckTemplate, UpdateReady, UpdateTerminating,
       DeleteObjects, RemoveFinalizer, SetNamespace, TypeOK
<1>5. ns'[x] = "active"
  BY <1>4 DEF Requests, ReconcileNamespace, SetNamespace, TypeOK
<1>6. org[x].finalizer /\ WellFormed(org[x])
  BY <1>4 DEF ReconcileNamespace, FinalizerInv, FinalizerInvOf, CallTells, CopiesKnown,
     Provisioning
<1>. QED BY <1>4, <1>5, <1>6 DEF WellFormed

\* A namespace is created only under the finalizer.
THEOREM CreatedUnderFinalizer == Spec => NamespaceUnderFinalizer
<1>1. ASSUME TypeOK, FinalizerInv, [Next]_vars
      PROVE  [\A o \in Orgs : ns[o] = "absent" /\ ns'[o] = "active"
                                => org[o].present /\ org[o].finalizer]_vars
  BY <1>1, NamespaceCreation
<1>. QED BY <1>1, FinalizerInvariant, PTL DEF Spec, NamespaceUnderFinalizer

\* What the controller writes is the stored object but for the fields it means
\* to set.
LEMMA ControllerWrites ==
  ASSUME TypeOK, FinalizerInv, NEW o \in Orgs, Controller(o), org'[o].present
  PROVE  /\ org'[o].owners = org[o].owners /\ org'[o].deleting = org[o].deleting
         /\ org'[o].held = org[o].held
         /\ org[o].deleting => org'[o].ready \in {org[o].ready, "Terminating"}
<1>. USE DEF apiVars, taskVars
<1>a. /\ obj[o] \in Object /\ org[o] \in Object /\ subjects[o] \in SUBSET Subjects
      /\ ReadyCondition = {"Unset", "True", "Terminating"}
      /\ current[o] => obj[o] = org[o]
  BY DEF TypeOK, FinalizerInv, FinalizerInvOf, CopiesKnown, ReadyCondition
<1>b. CASE org'[o] = org[o]
  BY <1>b
<1>c. ASSUME NEW new, NEW next, Write(o, new, next),
             current[o] => /\ new.owners = org[o].owners /\ new.deleting = org[o].deleting
                           /\ new.held = org[o].held
                           /\ new.ready \in {org[o].ready, "Terminating"}
      PROVE  /\ org'[o].owners = org[o].owners /\ org'[o].deleting = org[o].deleting
             /\ org'[o].held = org[o].held
             /\ org[o].deleting => org'[o].ready \in {org[o].ready, "Terminating"}
  BY <1>c DEF Accepts, Write, TypeOK
<1>1. CASE UpdateFinalizer(o)
  <2> DEFINE new == [obj[o] EXCEPT !.finalizer = TRUE]
  <2>1. /\ new.owners = obj[o].owners /\ new.deleting = obj[o].deleting
        /\ new.held = obj[o].held /\ new.ready = obj[o].ready
    BY <1>a, WrittenFields
  <2>2. PICK next : Write(o, new, next)
    BY <1>1 DEF UpdateFinalizer
  <2> HIDE DEF new
  <2>. QED BY <1>a, <1>c, <2>1, <2>2
<1>2. CASE UpdateNamespaceName(o)
  <2> DEFINE new == [obj[o] EXCEPT !.namespace = TRUE]
  <2>1. /\ new.owners = obj[o].owners /\ new.deleting = obj[o].deleting
        /\ new.held = obj[o].held /\ new.ready = obj[o].ready
    BY <1>a, WrittenFields
  <2>2. PICK next : Write(o, new, next)
    BY <1>2 DEF UpdateNamespaceName
  <2> HIDE DEF new
  <2>. QED BY <1>a, <1>c, <2>1, <2>2
<1>3. CASE UpdateMembers(o)
  <2> DEFINE new == [obj[o] EXCEPT !.members = subjects[o]]
  <2>1. /\ new.owners = obj[o].owners /\ new.deleting = obj[o].deleting
        /\ new.held = obj[o].held /\ new.ready = obj[o].ready
    BY <1>a, WrittenFields
  <2>2. PICK next : Write(o, new, next)
    BY <1>3 DEF Accepts, UpdateMembers
  <2> HIDE DEF new
  <2>. QED BY <1>a, <1>c, <2>1, <2>2
<1>4. CASE UpdateTerminating(o)
  BY <1>4, <1>a, <1>c, WrittenFields DEF UpdateTerminating
<1>5. CASE UpdateReady(o)
  <2>1. ~obj[o].deleting
    BY <1>5 DEF Accepts, UpdateReady, FinalizerInv, FinalizerInvOf, CallTells, Provisioning
  <2>. QED BY <1>5, <1>a, <1>b, <2>1, WrittenFields DEF Accepts, UpdateReady, TypeOK
<1>6. CASE RemoveFinalizer(o)
  BY <1>6, <1>a, <1>b, ReleasedFields, AbsentFields DEF Accepts, RemoveFinalizer, TypeOK
<1>7. CASE Start(o) \/ ReconcileNamespace(o) \/ ListMembers(o) \/ CheckTemplate(o)
           \/ DeleteObjects(o)
  BY <1>7, <1>b DEF FirstStep, Start, ReconcileNamespace, ListMembers, CheckTemplate, DeleteObjects
<1>. QED BY <1>1, <1>2, <1>3, <1>4, <1>5, <1>6, <1>7 DEF Controller, Continue

\* No call undoes what others have written since it read the Organization.
THEOREM OthersWritesKept == Spec => KeepsOthersWrites
<1>1. ASSUME TypeOK, FinalizerInv, [Next]_vars
      PROVE  [\A o \in Orgs : Controller(o) /\ org'[o].present
               => /\ org'[o].owners = org[o].owners
                  /\ org'[o].deleting = org[o].deleting
                  /\ org'[o].held = org[o].held]_vars
  BY <1>1, ControllerWrites
<1>. QED BY <1>1, FinalizerInvariant, PTL DEF Spec, KeepsOthersWrites

\* An Organization marked for deletion never becomes ready.
THEOREM TerminatingStays == Spec => TerminatingIsFinal
<1>1. ASSUME TypeOK, FinalizerInv, [Next]_vars,
             NEW o \in Orgs, org[o].deleting, org'[o].present
      PROVE  org'[o].ready \in {org[o].ready, "Terminating"}
  <2>. USE DEF apiVars, taskVars
  <2>1. CASE org'[o] = org[o]
    BY <2>1
  <2>2. CASE Restart \/ BecomeCalm \/ UNCHANGED vars
    BY <2>1, <2>2 DEF Restart, BecomeCalm, vars
  <2>3. ASSUME NEW x \in Orgs, System(x) \/ Environment(x), x # o
        PROVE  org'[o] = org[o]
    BY <1>1, <2>3, Locality DEF Untouched
  <2>4. CASE Controller(o)
    BY <1>1, <2>4, ControllerWrites
  <2>5. org[o] \in Object /\ WellFormed(org[o])
    BY <1>1 DEF TypeOK, FinalizerInv, FinalizerInvOf, CopiesKnown
  <2>6. CASE ReleaseHold(o)
    BY <1>1, <2>5, <2>6, ReleasedFields, AbsentFields DEF ReleaseHold, ChangeOrganization, TypeOK
  <2>7. CASE UpdateOwners(o)
    <3>1. \A owners \in OwnerSets : WithOwners(org[o], owners).ready = org[o].ready
      BY <2>5 DEF WithOwners, Object
    <3>. QED BY <1>1, <2>7, <3>1 DEF UpdateOwners, ChangeOrganization, TypeOK
  <2>8. CASE CreateOrganization(o) \/ DeleteOrganization(o)
    BY <1>1, <2>5, <2>8 DEF CreateOrganization, DeleteOrganization, WellFormed
  <2>9. CASE (\E kind \in Kinds : Deliver(o, kind)) \/ PurgeNamespace(o) \/ RemoveNamespace(o)
             \/ ChangeBindings(o) \/ ChangeProject(o) \/ DeleteNamespace(o) \/ FailCall(o)
    BY <2>1, <2>9 DEF Requests, Deliver, PurgeNamespace, RemoveNamespace, ChangeBindings,
       ChangeProject, DeleteNamespace, FailCall
  <2>. QED BY <1>1, <2>1, <2>2, <2>3, <2>4, <2>6, <2>7, <2>8, <2>9
           DEF Next, System, Environment
<1>2. ASSUME TypeOK, FinalizerInv, [Next]_vars
      PROVE  [\A o \in Orgs : org[o].deleting /\ org'[o].present
               => \/ org'[o].ready = org[o].ready
                  \/ org'[o].ready = "Terminating"]_vars
  BY <1>1, <1>2
<1>. QED BY <1>2, FinalizerInvariant, PTL DEF Spec, TerminatingIsFinal

----------------------------------------------------------------------------
(* Ready means set up.  *)

\* How far the set-up has come at each step.
ReadyTells(o) ==
  org[o].ready = "True" => org[o].finalizer /\ org[o].namespace /\ templates = Templates

SetUpSoFar(o) ==
  /\ pc[o] \in {"listMembers", "updateMembers", "checkTemplates", "updateReady"}
       => obj[o].namespace
  /\ pc[o] = "checkTemplates" => Templates \ todo[o] \subseteq templates
  /\ pc[o] = "updateReady" => templates = Templates
  /\ pc[o] \in {"deleteObjects", "removeFinalizer"} => obj[o].ready = "Terminating"

SetUpInvOf(o) == ReadyTells(o) /\ SetUpSoFar(o)
SetUpInv      == \A o \in Orgs : SetUpInvOf(o)

\* A template, once created, is there for good.
LEMMA TemplatesGrow ==
  ASSUME TypeOK, NEW o \in Orgs, System(o) \/ Environment(o)
  PROVE  templates \subseteq templates'
<1>. USE DEF apiVars, taskVars
<1>1. CASE Controller(o)
  BY <1>1 DEF Controller, Continue, Start, UpdateFinalizer, ReconcileNamespace,
     UpdateNamespaceName, ListMembers, UpdateMembers, CheckTemplate, UpdateReady,
     UpdateTerminating, DeleteObjects, RemoveFinalizer
<1>2. CASE (\E kind \in Kinds : Deliver(o, kind)) \/ PurgeNamespace(o) \/ RemoveNamespace(o)
           \/ ReleaseHold(o)
  BY <1>2 DEF Deliver, PurgeNamespace, RemoveNamespace, ReleaseHold, ChangeOrganization
<1>3. CASE Environment(o)
  BY <1>3 DEF Environment, CreateOrganization, UpdateOwners, DeleteOrganization,
     ChangeOrganization, ChangeBindings, ChangeProject, DeleteNamespace, FailCall
<1>. QED BY <1>1, <1>2, <1>3 DEF System

LEMMA SetUpStays ==
  ASSUME TypeOK, TypeOK', NEW o \in Orgs, SetUpInvOf(o), templates \subseteq templates',
         org'[o] = org[o], pc'[o] = pc[o], obj'[o] = obj[o], todo'[o] = todo[o]
  PROVE  SetUpInvOf(o)'
<1>1. templates' \subseteq Templates
  BY DEF TypeOK
<1>. QED BY <1>1 DEF SetUpInvOf, ReadyTells, SetUpSoFar

\* A call that returns leaves the Organization as it is.
LEMMA SetUpReturn ==
  ASSUME TypeOK, TypeOK', NEW o \in Orgs, SetUpInvOf(o), templates \subseteq templates',
         Return(o), org'[o] = org[o]
  PROVE  SetUpInvOf(o)'
<1>1. templates' \subseteq Templates /\ pc'[o] = "idle"
  BY DEF TypeOK, Return
<1>. QED BY <1>1 DEF SetUpInvOf, ReadyTells, SetUpSoFar

\* A write that gives, or keeps, what the next step counts on.
LEMMA SetUpWrite ==
  ASSUME TypeOK, TypeOK', NEW o \in Orgs, FinalizerInvOf(o), SetUpInvOf(o),
         NEW new, NEW next, Write(o, new, next), templates' = templates,
         new.ready = "True" => /\ obj[o].ready = "True"
                               /\ obj[o].finalizer => new.finalizer
                               /\ obj[o].namespace => new.namespace,
         next \in {"listMembers", "checkTemplates"} => new.namespace,
         next = "checkTemplates" /\ current[o] => todo'[o] = Templates,
         next = "deleteObjects" => new.ready = "Terminating",
         next \notin {"updateMembers", "updateReady", "removeFinalizer"}
  PROVE  SetUpInvOf(o)'
<1>1. CASE current[o]
  <2>1. org'[o] = new /\ obj'[o] = new /\ pc'[o] = next /\ obj[o] = org[o]
    BY <1>1 DEF Accepts, Write, Goto, TypeOK, FinalizerInvOf, CopiesKnown
  <2>2. ReadyTells(o)'
    BY <2>1 DEF SetUpInvOf, ReadyTells
  <2>. QED BY <1>1, <2>1, <2>2 DEF SetUpInvOf, SetUpSoFar
<1>2. CASE ~current[o]
  BY <1>2, SetUpReturn DEF Accepts, Write, ReturnError
<1>. QED BY <1>1, <1>2

LEMMA SetUpController ==
  ASSUME TypeOK, TypeOK', NEW o \in Orgs, FinalizerInvOf(o), SetUpInvOf(o), Controller(o)
  PROVE  SetUpInvOf(o)'
<1>. USE DEF apiVars, taskVars
<1>a. /\ obj[o] \in Object /\ org[o] \in Object /\ subjects[o] \in SUBSET Subjects
      /\ templates \subseteq templates'
  BY TemplatesGrow DEF TypeOK, System
<1>1. CASE Start(o)
  <2>1. org' = org
    BY <1>1 DEF Start
  <2>2. CASE ~cache[o].org.present
    BY <1>1, <1>a, <2>1, <2>2, SetUpStays DEF Start
  <2>3. CASE cache[o].org.present
    <3>1. /\ obj'[o] = cache[o].org /\ pc'[o] = FirstStep(cache[o].org)
          /\ templates' = templates
      BY <1>1, <2>3 DEF Start, Goto, TypeOK
    <3>2. FirstStep(cache[o].org) \in {"updateTerminating", "deleteObjects",
                                       "updateFinalizer", "reconcileNamespace"}
      BY DEF FirstStep
    <3>3. FirstStep(cache[o].org) = "deleteObjects" => cache[o].org.ready = "Terminating"
      BY DEF FirstStep
    <3>. QED BY <2>1, <3>1, <3>2, <3>3 DEF SetUpInvOf, ReadyTells, SetUpSoFar
  <2>. QED BY <2>2, <2>3
<1>2. CASE UpdateFinalizer(o)
  <2> DEFINE new == [obj[o] EXCEPT !.finalizer = TRUE]
  <2>1. new.ready = obj[o].ready /\ new.finalizer /\ new.namespace = obj[o].namespace
    BY <1>a, WrittenFields
  <2>2. Write(o, new, "reconcileNamespace") /\ templates' = templates
    BY <1>2 DEF UpdateFinalizer
  <2> HIDE DEF new
  <2>. QED BY <2>1, <2>2, SetUpWrite
<1>3. CASE ReconcileNamespace(o)
  <2>1. org' = org /\ templates' = templates
    BY <1>3 DEF ReconcileNamespace
  <2>2. CASE Return(o)
    BY <1>a, <2>1, <2>2, SetUpReturn
  <2>3. CASE /\ obj' = obj /\ todo' = todo
             /\ Goto(o, IF obj[o].namespace THEN "listMembers" ELSE "updateNamespaceName")
    BY <2>1, <2>3 DEF Goto, TypeOK, SetUpInvOf, ReadyTells, SetUpSoFar
  <2>. QED BY <1>3, <2>2, <2>3 DEF ReconcileNamespace, ReturnError
<1>4. CASE UpdateNamespaceName(o)
  <2> DEFINE new == [obj[o] EXCEPT !.namespace = TRUE]
  <2>1. new.ready = obj[o].ready /\ new.finalizer = obj[o].finalizer /\ new.namespace
    BY <1>a, WrittenFields
  <2>2. Write(o, new, "listMembers") /\ templates' = templates
    BY <1>4 DEF UpdateNamespaceName
  <2> HIDE DEF new
  <2>. QED BY <2>1, <2>2, SetUpWrite
<1>5. CASE ListMembers(o)
  BY <1>5 DEF ListMembers, Goto, TypeOK, SetUpInvOf, ReadyTells, SetUpSoFar
<1>6. CASE UpdateMembers(o)
  <2> DEFINE new == [obj[o] EXCEPT !.members = subjects[o]]
  <2>1. /\ new.ready = obj[o].ready /\ new.finalizer = obj[o].finalizer
        /\ new.namespace = obj[o].namespace
    BY <1>a, WrittenFields
  <2>2. /\ Write(o, new, "checkTemplates") /\ templates' = templates
        /\ current[o] => todo'[o] = Templates
    BY <1>6 DEF UpdateMembers, Accepts, TypeOK
  <2>3. obj[o].namespace
    BY <1>6 DEF UpdateMembers, SetUpInvOf, SetUpSoFar
  <2> HIDE DEF new
  <2>. QED BY <2>1, <2>2, <2>3, SetUpWrite
<1>7. CASE CheckTemplate(o)
  <2>1. PICK t \in todo[o] :
          /\ templates' = templates \cup {t}
          /\ \/ /\ todo[o] # {t} /\ todo' = [todo EXCEPT ![o] = @ \ {t}]
                /\ pc' = pc /\ obj' = obj
             \/ todo[o] = {t} /\ Return(o)
             \/ /\ todo[o] = {t} /\ todo' = [todo EXCEPT ![o] = {}]
                /\ Goto(o, "updateReady") /\ obj' = obj
    BY <1>7 DEF CheckTemplate
  <2>2. org' = org /\ pc[o] = "checkTemplates"
    BY <1>7 DEF CheckTemplate
  <2>3. Templates \ todo[o] \subseteq templates /\ obj[o].namespace
        /\ templates' \subseteq Templates
    BY <2>2 DEF SetUpInvOf, SetUpSoFar, TypeOK
  <2>4. CASE Return(o)
    BY <1>a, <2>2, <2>4, SetUpReturn
  <2>5. CASE todo[o] # {t} /\ todo' = [todo EXCEPT ![o] = @ \ {t}] /\ pc' = pc /\ obj' = obj
    <3>1. Templates \ todo'[o] \subseteq templates'
      BY <2>1, <2>3, <2>5 DEF TypeOK
    <3>. QED BY <1>a, <2>2, <2>3, <2>5, <3>1 DEF SetUpInvOf, ReadyTells, SetUpSoFar
  <2>6. CASE /\ todo[o] = {t} /\ todo' = [todo EXCEPT ![o] = {}]
             /\ Goto(o, "updateReady") /\ obj' = obj
    <3>1. templates' = Templates
      BY <2>1, <2>3, <2>6
    <3>2. pc'[o] = "updateReady"
      BY <2>6 DEF Goto, TypeOK
    <3>. QED BY <2>2, <2>3, <2>6, <3>1, <3>2 DEF SetUpInvOf, ReadyTells, SetUpSoFar
  <2>. QED BY <2>1, <2>4, <2>5, <2>6
<1>8. CASE UpdateReady(o)
  <2>1. CASE current[o]
    <3>1. /\ org'[o] = SetReady(obj[o], "True") /\ pc'[o] = "idle" /\ templates' = templates
      BY <1>8, <2>1 DEF UpdateReady, Accepts, Return, TypeOK
    <3>2. /\ obj[o].finalizer /\ obj[o].namespace /\ templates = Templates
      BY <1>8 DEF UpdateReady, FinalizerInvOf, CallTells, Provisioning, SetUpInvOf, SetUpSoFar
    <3>3. org'[o].finalizer /\ org'[o].namespace
      BY <1>a, <3>1, <3>2, WrittenFields DEF ReadyCondition
    <3>. QED BY <3>1, <3>2, <3>3 DEF SetUpInvOf, ReadyTells, SetUpSoFar
  <2>2. CASE ~current[o]
    BY <1>8, <1>a, <2>2, SetUpReturn DEF UpdateReady, Accepts, ReturnError
  <2>. QED BY <2>1, <2>2
<1>9. CASE UpdateTerminating(o)
  <2> DEFINE new == SetReady(obj[o], "Terminating")
  <2>1. new.ready = "Terminating"
    BY <1>a, WrittenFields DEF ReadyCondition
  <2>2. Write(o, new, "deleteObjects") /\ templates' = templates
    BY <1>9 DEF UpdateTerminating
  <2> HIDE DEF new
  <2>. QED BY <2>1, <2>2, SetUpWrite
<1>10. CASE DeleteObjects(o)
  <2>1. org' = org /\ templates' = templates /\ pc[o] = "deleteObjects"
    BY <1>10 DEF DeleteObjects
  <2>2. CASE Return(o)
    BY <1>a, <2>1, <2>2, SetUpReturn
  <2>3. CASE Goto(o, "removeFinalizer") /\ obj' = obj
    BY <2>1, <2>3 DEF Goto, TypeOK, SetUpInvOf, ReadyTells, SetUpSoFar
  <2>. QED BY <1>10, <2>2, <2>3 DEF DeleteObjects
<1>11. CASE RemoveFinalizer(o)
  <2>1. CASE current[o]
    <3>1. org'[o] = WithoutFinalizer(obj[o]) /\ pc'[o] = "idle" /\ templates' = templates
      BY <1>11, <2>1 DEF RemoveFinalizer, Accepts, Return, TypeOK
    <3>2. obj[o].ready = "Terminating"
      BY <1>11 DEF RemoveFinalizer, SetUpInvOf, SetUpSoFar
    <3>3. org'[o].ready # "True"
      BY <1>a, <3>1, <3>2, ReleasedFields, AbsentFields
    <3>. QED BY <3>1, <3>3 DEF SetUpInvOf, ReadyTells, SetUpSoFar
  <2>2. CASE ~current[o]
    BY <1>11, <1>a, <2>2, SetUpReturn DEF RemoveFinalizer, Accepts, ReturnError
  <2>. QED BY <2>1, <2>2
<1>. QED
  BY <1>1, <1>2, <1>3, <1>4, <1>5, <1>6, <1>7, <1>8, <1>9, <1>10, <1>11
  DEF Controller, Continue

LEMMA SetUpSurrounding ==
  ASSUME TypeOK, TypeOK', NEW o \in Orgs, FinalizerInvOf(o), SetUpInvOf(o),
         \/ \E kind \in Kinds : Deliver(o, kind)
         \/ PurgeNamespace(o) \/ RemoveNamespace(o) \/ ReleaseHold(o)
         \/ Environment(o)
  PROVE  SetUpInvOf(o)'
<1>. USE DEF apiVars, taskVars
<1>a. org[o] \in Object /\ WellFormed(org[o])
  BY DEF TypeOK, FinalizerInvOf, CopiesKnown
<1>b. ASSUME NEW new, ChangeOrganization(o, new),
             new.ready = "True" => /\ org[o].ready = "True"
                                   /\ new.finalizer = org[o].finalizer
                                   /\ new.namespace = org[o].namespace
      PROVE  SetUpInvOf(o)'
  BY <1>b DEF ChangeOrganization, TypeOK, SetUpInvOf, ReadyTells, SetUpSoFar
<1>1. CASE \E kind \in Kinds : Deliver(o, kind)
  BY <1>1, SetUpStays DEF Deliver
<1>2. CASE PurgeNamespace(o) \/ RemoveNamespace(o) \/ DeleteNamespace(o)
           \/ ChangeBindings(o) \/ ChangeProject(o)
  BY <1>2, SetUpStays DEF PurgeNamespace, RemoveNamespace, DeleteNamespace, ChangeBindings,
     ChangeProject
<1>3. CASE ReleaseHold(o)
  <2> DEFINE new == WithoutHold(org[o])
  <2>1. new.ready = "True" => /\ org[o].ready = "True"
                              /\ new.finalizer = org[o].finalizer
                              /\ new.namespace = org[o].namespace
    BY <1>a, ReleasedFields, AbsentFields
  <2>2. ChangeOrganization(o, new)
    BY <1>3 DEF ReleaseHold
  <2> HIDE DEF new
  <2>. QED BY <1>b, <2>1, <2>2
<1>4. CASE CreateOrganization(o)
  <2>1. PICK owners \in OwnerSets, held \in Holds :
          ChangeOrganization(o, NewObject(owners, held))
    BY <1>4 DEF CreateOrganization
  <2>2. NewObject(owners, held).ready # "True"
    BY DEF NewObject
  <2>. QED BY <1>b, <2>1, <2>2
<1>5. CASE UpdateOwners(o)
  <2>1. \A owners \in OwnerSets : LET y == WithOwners(org[o], owners) IN
          /\ y.ready = org[o].ready /\ y.finalizer = org[o].finalizer
          /\ y.namespace = org[o].namespace
    BY <1>a DEF WithOwners, Object
  <2>. QED BY <1>5, <1>b, <2>1 DEF UpdateOwners
<1>6. CASE DeleteOrganization(o)
  <2> DEFINE new == Deleted(org[o])
  <2>1. new.ready = "True" => /\ org[o].ready = "True"
                              /\ new.finalizer = org[o].finalizer
                              /\ new.namespace = org[o].namespace
    BY <1>a, ReleasedFields, AbsentFields
  <2>2. ChangeOrganization(o, new)
    BY <1>6 DEF DeleteOrganization
  <2> HIDE DEF new
  <2>. QED BY <1>b, <2>1, <2>2
<1>7. CASE FailCall(o)
  BY <1>7, SetUpReturn DEF FailCall, ReturnError
<1>. QED BY <1>1, <1>2, <1>3, <1>4, <1>5, <1>6, <1>7 DEF Environment

LEMMA SetUpNext ==
  TypeOK /\ TypeOK' /\ FinalizerInv /\ SetUpInv /\ [Next]_vars => SetUpInv'
<1>. SUFFICES ASSUME TypeOK, TypeOK', FinalizerInv, SetUpInv, [Next]_vars, NEW x \in Orgs
              PROVE  SetUpInvOf(x)'
  BY DEF SetUpInv
<1>0. SetUpInvOf(x) /\ FinalizerInvOf(x)
  BY DEF SetUpInv, FinalizerInv
<1>1. CASE Restart
  BY <1>0, <1>1 DEF Restart, apiVars, TypeOK, SetUpInvOf, ReadyTells, SetUpSoFar
<1>2. CASE BecomeCalm \/ UNCHANGED vars
  BY <1>0, <1>2, SetUpStays DEF BecomeCalm, vars, apiVars, taskVars
<1>3. ASSUME NEW o \in Orgs, System(o) \/ Environment(o) PROVE SetUpInvOf(x)'
  <2>1. CASE x = o
    BY <1>0, <1>3, <2>1, SetUpController, SetUpSurrounding DEF System
  <2>2. CASE x # o
    BY <1>0, <1>3, <2>2, Locality, TemplatesGrow, SetUpStays DEF Untouched
  <2>. QED BY <2>1, <2>2
<1>. QED BY <1>1, <1>2, <1>3 DEF Next

LEMMA SetUpInvariant == Spec => [](TypeOK /\ FinalizerInv /\ SetUpInv)
<1>1. Init => SetUpInv
  BY AbsentFields DEF Init, SetUpInv, SetUpInvOf, ReadyTells, SetUpSoFar
<1>. QED BY <1>1, FinalizerInvariant, SetUpNext, PTL DEF Spec

\* An Organization that is declared ready has its finalizer, the name of its
\* namespace and the default templates, whatever becomes of it later.
THEOREM ReadyIsSetUp == Spec => []ReadyMeansSetUp
<1>1. SetUpInv => ReadyMeansSetUp
  BY DEF SetUpInv, SetUpInvOf, ReadyTells, ReadyMeansSetUp
<1>. QED BY <1>1, SetUpInvariant, PTL

----------------------------------------------------------------------------
(* The refinement of GuardedOwnership: what a step makes of the phase of an *)
(* Organization, of its namespace, and of what the controller has looked at. *)

LEMMA ControllerPasses ==
  ASSUME TypeOK, NEW o \in Orgs, FinalizerInvOf(o), Controller(o)
  PROVE  Passes(PhaseOf(org[o]), PhaseOf(org'[o]), Cleared(o))
<1>. USE DEF apiVars, taskVars
<1>a. /\ obj[o] \in Object /\ org[o] \in Object /\ subjects[o] \in SUBSET Subjects
      /\ (current[o] => obj[o] = org[o])
  BY DEF TypeOK, FinalizerInvOf, CopiesKnown
<1>b. CASE org'[o] = org[o]
  BY <1>b DEF Passes
\* A write that keeps the marks.
<1>c. ASSUME NEW new, NEW next, Write(o, new, next), new.present = obj[o].present,
             new.deleting = obj[o].deleting, new.finalizer = obj[o].finalizer
      PROVE  Passes(PhaseOf(org[o]), PhaseOf(org'[o]), Cleared(o))
  <2>1. org'[o] = org[o] \/ (org'[o] = new /\ obj[o] = org[o])
    BY <1>a, <1>c DEF Write, Accepts, TypeOK
  <2>. QED BY <1>b, <1>c, <2>1 DEF Passes, PhaseOf
<1>1. CASE UpdateFinalizer(o)
  <2> DEFINE new == [obj[o] EXCEPT !.finalizer = TRUE]
  <2>1. new.finalizer /\ new.present = obj[o].present /\ new.deleting = obj[o].deleting
    BY <1>a, WrittenFields
  <2>2. obj[o].present /\ ~obj[o].deleting
    BY <1>1 DEF UpdateFinalizer, FinalizerInvOf, CallTells
  <2>3. org'[o] = org[o] \/ (org'[o] = new /\ obj[o] = org[o])
    BY <1>1, <1>a DEF UpdateFinalizer, Write, Accepts, TypeOK
  <2> HIDE DEF new
  <2>4. CASE org'[o] = new /\ obj[o] = org[o]
    <3>1. PhaseOf(org'[o]) = "guarded"
      BY <2>1, <2>2, <2>4 DEF PhaseOf
    <3>2. PhaseOf(org[o]) \in {"created", "guarded"}
      BY <1>a, <2>2, <2>4 DEF PhaseOf, Object
    <3>. QED BY <3>1, <3>2 DEF Passes
  <2>. QED BY <1>b, <2>3, <2>4
<1>2. CASE UpdateNamespaceName(o)
  <2> DEFINE new == [obj[o] EXCEPT !.namespace = TRUE]
  <2>1. /\ new.finalizer = obj[o].finalizer /\ new.present = obj[o].present
        /\ new.deleting = obj[o].deleting
    BY <1>a, WrittenFields
  <2>2. PICK next : Write(o, new, next)
    BY <1>2 DEF UpdateNamespaceName
  <2> HIDE DEF new
  <2>. QED BY <1>c, <2>1, <2>2
<1>3. CASE UpdateMembers(o)
  <2> DEFINE new == [obj[o] EXCEPT !.members = subjects[o]]
  <2>1. /\ new.finalizer = obj[o].finalizer /\ new.present = obj[o].present
        /\ new.deleting = obj[o].deleting
    BY <1>a, WrittenFields
  <2>2. PICK next : Write(o, new, next)
    BY <1>3 DEF UpdateMembers
  <2> HIDE DEF new
  <2>. QED BY <1>c, <2>1, <2>2
<1>4. CASE UpdateTerminating(o)
  <2> DEFINE new == SetReady(obj[o], "Terminating")
  <2>1. /\ new.finalizer = obj[o].finalizer /\ new.present = obj[o].present
        /\ new.deleting = obj[o].deleting
    BY <1>a, WrittenFields DEF ReadyCondition
  <2>2. PICK next : Write(o, new, next)
    BY <1>4 DEF UpdateTerminating
  <2> HIDE DEF new
  <2>. QED BY <1>c, <2>1, <2>2
<1>5. CASE UpdateReady(o)
  <2> DEFINE new == SetReady(obj[o], "True")
  <2>1. /\ new.finalizer = obj[o].finalizer /\ new.present = obj[o].present
        /\ new.deleting = obj[o].deleting
    BY <1>a, WrittenFields DEF ReadyCondition
  <2>2. org'[o] = org[o] \/ (org'[o] = new /\ obj[o] = org[o])
    BY <1>5, <1>a DEF UpdateReady, Accepts, TypeOK
  <2> HIDE DEF new
  <2>. QED BY <1>b, <2>1, <2>2 DEF Passes, PhaseOf
<1>6. CASE RemoveFinalizer(o)
  <2> DEFINE new == WithoutFinalizer(obj[o])
  <2>1. \/ new = NoObject
        \/ /\ ~new.finalizer /\ new.present = obj[o].present
           /\ new.deleting = obj[o].deleting
    BY <1>a, ReleasedFields
  <2>2. /\ obj[o].present /\ obj[o].deleting
        /\ org[o].finalizer => Cleared(o)
    BY <1>6 DEF RemoveFinalizer, FinalizerInvOf, CallTells, Removing, Cleared
  <2>3. org'[o] = org[o] \/ (org'[o] = new /\ obj[o] = org[o])
    BY <1>6, <1>a DEF RemoveFinalizer, Accepts, TypeOK
  <2> HIDE DEF new
  <2>4. CASE org'[o] = new /\ obj[o] = org[o]
    <3>1. PhaseOf(org'[o]) \in {"none", "leaving"}
      BY <2>1, <2>2, <2>4, AbsentFields DEF PhaseOf
    <3>2. PhaseOf(org[o]) = IF org[o].finalizer THEN "condemned" ELSE "leaving"
      BY <1>a, <2>2, <2>4 DEF PhaseOf, Object
    <3>. QED BY <2>2, <3>1, <3>2 DEF Passes
  <2>. QED BY <1>b, <2>3, <2>4
<1>7. CASE Start(o) \/ ReconcileNamespace(o) \/ ListMembers(o) \/ CheckTemplate(o)
           \/ DeleteObjects(o)
  BY <1>7, <1>b DEF Start, ReconcileNamespace, ListMembers, CheckTemplate, DeleteObjects
<1>. QED BY <1>1, <1>2, <1>3, <1>4, <1>5, <1>6, <1>7 DEF Controller, Continue

LEMMA SurroundingPasses ==
  ASSUME TypeOK, NEW o \in Orgs, FinalizerInvOf(o),
         \/ \E kind \in Kinds : Deliver(o, kind)
         \/ PurgeNamespace(o) \/ RemoveNamespace(o) \/ ReleaseHold(o)
         \/ Environment(o)
  PROVE  Passes(PhaseOf(org[o]), PhaseOf(org'[o]), Cleared(o))
<1>. USE DEF apiVars, taskVars
<1>a. org[o] \in Object /\ WellFormed(org[o])
  BY DEF TypeOK, FinalizerInvOf, CopiesKnown
<1>1. CASE (\E kind \in Kinds : Deliver(o, kind)) \/ PurgeNamespace(o) \/ RemoveNamespace(o)
           \/ ChangeBindings(o) \/ ChangeProject(o) \/ DeleteNamespace(o) \/ FailCall(o)
  <2>1. org' = org
    BY <1>1 DEF Deliver, PurgeNamespace, RemoveNamespace, ChangeBindings, ChangeProject,
       DeleteNamespace, FailCall
  <2>. QED BY <2>1 DEF Passes
<1>2. CASE ReleaseHold(o)
  <2> DEFINE new == WithoutHold(org[o])
  <2>1. /\ org'[o] = new /\ org[o].present /\ org[o].deleting
    BY <1>2 DEF ReleaseHold, ChangeOrganization, TypeOK
  <2>2. \/ new = NoObject /\ ~org[o].finalizer
        \/ /\ new.finalizer = org[o].finalizer /\ new.present = org[o].present
           /\ new.deleting = org[o].deleting
    BY <1>a, ReleasedFields
  <2> HIDE DEF new
  <2>. QED BY <2>1, <2>2, AbsentFields DEF Passes, PhaseOf
<1>3. CASE CreateOrganization(o)
  <2>1. PICK owners \in OwnerSets, held \in Holds :
          ~org[o].present /\ org'[o] = NewObject(owners, held)
    BY <1>3 DEF CreateOrganization, ChangeOrganization, TypeOK
  <2>2. /\ NewObject(owners, held).present /\ ~NewObject(owners, held).deleting
        /\ ~NewObject(owners, held).finalizer
    BY DEF NewObject
  <2>. QED BY <2>1, <2>2 DEF Passes, PhaseOf
<1>4. CASE UpdateOwners(o)
  <2>1. PICK owners \in OwnerSets : org'[o] = WithOwners(org[o], owners)
    BY <1>4 DEF UpdateOwners, ChangeOrganization, TypeOK
  <2>2. /\ org'[o].finalizer = org[o].finalizer /\ org'[o].present = org[o].present
        /\ org'[o].deleting = org[o].deleting
    BY <1>a, <2>1 DEF WithOwners, Object
  <2>. QED BY <2>2 DEF Passes, PhaseOf
<1>5. CASE DeleteOrganization(o)
  <2> DEFINE new == Deleted(org[o])
  <2>1. /\ org'[o] = new /\ org[o].present /\ ~org[o].deleting
    BY <1>5 DEF DeleteOrganization, ChangeOrganization, TypeOK
  <2>2. \/ new = NoObject /\ ~org[o].finalizer
        \/ /\ new.finalizer = org[o].finalizer /\ new.present = org[o].present
           /\ new.deleting
    BY <1>a, ReleasedFields
  <2> HIDE DEF new
  <2>3. PhaseOf(org[o]) = IF org[o].finalizer THEN "guarded" ELSE "created"
    BY <1>a, <2>1 DEF PhaseOf, Object
  <2>4. PhaseOf(new) = IF new = NoObject THEN "none"
                       ELSE IF org[o].finalizer THEN "condemned" ELSE "leaving"
    BY <1>a, <2>1, <2>2, AbsentFields DEF PhaseOf, Object
  <2>5. new = NoObject => ~org[o].finalizer
    BY <2>1, <2>2, AbsentFields
  <2>6. PhaseOf(org'[o]) = PhaseOf(new)
    BY <2>1
  <2>. QED BY <2>3, <2>4, <2>5, <2>6 DEF Passes
<1>. QED BY <1>1, <1>2, <1>3, <1>4, <1>5 DEF Environment

\* No action changes both the Organization and its namespace, and none creates
\* the namespace while the call is about to remove the finalizer.
LEMMA NamespaceTurns ==
  ASSUME TypeOK, FinalizerInv, NEW o \in Orgs, System(o) \/ Environment(o), ns'[o] # ns[o]
  PROVE  /\ org' = org /\ Turns(ns[o], ns'[o], PhaseOf(org[o]))
         /\ pc'[o] = "removeFinalizer" <=> pc[o] = "removeFinalizer"
         /\ ns[o] = "absent" => pc[o] # "removeFinalizer"
<1>. USE DEF apiVars, taskVars
<1>a. org[o] \in Object
  BY DEF TypeOK
<1>1. CASE ReconcileNamespace(o)
  <2>1. org' = org /\ ns[o] = "absent" /\ ns'[o] = "active"
    BY <1>1 DEF ReconcileNamespace, SetNamespace, TypeOK
  <2>2. /\ org[o].present /\ org[o].finalizer
    BY <1>1, <1>a DEF ReconcileNamespace, FinalizerInv, FinalizerInvOf, CallTells, CopiesKnown,
       WellFormed, Provisioning
  <2>3. PhaseOf(org[o]) \in {"guarded", "condemned"}
    BY <1>a, <2>2 DEF PhaseOf, Object
  <2>4. pc[o] = "reconcileNamespace" /\ pc'[o] # "removeFinalizer"
    BY <1>1 DEF ReconcileNamespace, Goto, ReturnError, Return, TypeOK
  <2>. QED BY <2>1, <2>3, <2>4 DEF Turns
<1>2. CASE DeleteObjects(o)
  <2>1. org' = org /\ ns[o] = "active" /\ ns'[o] = "terminating"
    BY <1>2 DEF DeleteObjects, SetNamespace, TypeOK
  <2>2. pc[o] = "deleteObjects" /\ pc'[o] = "idle"
    BY <1>2 DEF DeleteObjects, Return, TypeOK
  <2>. QED BY <2>1, <2>2 DEF Turns
<1>3. CASE DeleteNamespace(o) \/ RemoveNamespace(o)
  BY <1>3 DEF DeleteNamespace, RemoveNamespace, SetNamespace, TypeOK, Turns
<1>4. CASE Controller(o) /\ ~ReconcileNamespace(o) /\ ~DeleteObjects(o)
  BY <1>4 DEF Controller, Continue, Start, UpdateFinalizer, UpdateNamespaceName, ListMembers,
     UpdateMembers, CheckTemplate, UpdateReady, UpdateTerminating, RemoveFinalizer
<1>5. CASE (\E kind \in Kinds : Deliver(o, kind)) \/ PurgeNamespace(o) \/ ReleaseHold(o)
           \/ (Environment(o) /\ ~DeleteNamespace(o))
  BY <1>5 DEF Deliver, PurgeNamespace, ReleaseHold, Environment, CreateOrganization,
     UpdateOwners, DeleteOrganization, ChangeOrganization, ChangeBindings, ChangeProject,
     FailCall
<1>. QED BY <1>1, <1>2, <1>3, <1>4, <1>5 DEF System

\* The cache shows the namespace as before, or as it is now; and the finalizer is
\* about to be removed only after a look at the cache that showed none.
LooksOf(o) ==
  /\ \/ cache'[o].ns = cache[o].ns
     \/ cache'[o].ns = ns'[o] /\ org' = org
  /\ pc'[o] = "removeFinalizer"
       => \/ pc[o] = "removeFinalizer"
          \/ /\ pc[o] = "deleteObjects" /\ cache[o].ns = "absent"
             /\ UNCHANGED <<org, ns, cache>>

LEMMA LooksController ==
  ASSUME TypeOK, NEW o \in Orgs, Controller(o)
  PROVE  LooksOf(o)
<1>. USE DEF apiVars, taskVars
<1>a. ASSUME cache' = cache, pc'[o] # "removeFinalizer"
      PROVE  LooksOf(o)
  BY <1>a DEF LooksOf
<1>1. CASE Start(o)
  <2>1. pc'[o] = pc[o] \/ pc'[o] = FirstStep(cache[o].org)
    BY <1>1 DEF Start, Goto, TypeOK
  <2>2. FirstStep(cache[o].org) # "removeFinalizer"
    BY DEF FirstStep, TypeOK, View, Object
  <2>. QED BY <1>1, <1>a, <2>1, <2>2 DEF Start
<1>b. ASSUME NEW new, NEW next, Write(o, new, next), next # "removeFinalizer", cache' = cache
      PROVE  LooksOf(o)
  BY <1>a, <1>b DEF Write, Goto, ReturnError, Return, TypeOK
<1>2. CASE UpdateFinalizer(o) \/ UpdateNamespaceName(o) \/ UpdateMembers(o)
           \/ UpdateTerminating(o)
  BY <1>2, <1>b DEF UpdateFinalizer, UpdateNamespaceName, UpdateMembers, UpdateTerminating
<1>3. CASE ReconcileNamespace(o)
  <2>1. pc'[o] # "removeFinalizer" /\ org' = org
    BY <1>3 DEF ReconcileNamespace, Goto, ReturnError, Return, TypeOK
  <2>2. cache' = cache \/ SetNamespace(o, "active")
    BY <1>3 DEF ReconcileNamespace
  <2>3. SetNamespace(o, "active") => cache'[o].ns = cache[o].ns \/ cache'[o].ns = ns'[o]
    BY DEF SetNamespace, TypeOK, View
  <2>. QED BY <1>a, <2>1, <2>2, <2>3 DEF LooksOf
<1>4. CASE ListMembers(o) \/ CheckTemplate(o)
  BY <1>4, <1>a DEF ListMembers, CheckTemplate, Goto, Return, TypeOK
<1>5. CASE UpdateReady(o) \/ RemoveFinalizer(o)
  BY <1>5, <1>a DEF UpdateReady, RemoveFinalizer, ReturnError, Return, TypeOK
<1>6. CASE DeleteObjects(o)
  <2>1. CASE CleanedUp(o)
    <3>1. cache[o].ns = "absent"
      BY <2>1 DEF CleanedUp
    <3>2. UNCHANGED <<org, ns, cache>> /\ pc[o] = "deleteObjects"
      BY <1>6, <2>1 DEF DeleteObjects
    <3>. QED BY <3>1, <3>2 DEF LooksOf
  <2>2. CASE ~CleanedUp(o)
    <3>1. pc'[o] = "idle" /\ org' = org
      BY <1>6, <2>2 DEF DeleteObjects, Return, TypeOK
    <3>2. cache' = cache \/ SetNamespace(o, "terminating")
      BY <1>6, <2>2 DEF DeleteObjects
    <3>3. SetNamespace(o, "terminating") => cache'[o].ns = cache[o].ns \/ cache'[o].ns = ns'[o]
      BY DEF SetNamespace, TypeOK, View
    <3>. QED BY <1>a, <3>1, <3>2, <3>3 DEF LooksOf
  <2>. QED BY <2>1, <2>2
<1>. QED BY <1>1, <1>2, <1>3, <1>4, <1>5, <1>6 DEF Controller, Continue

LEMMA LooksSurrounding ==
  ASSUME TypeOK, NEW o \in Orgs,
         \/ \E kind \in Kinds : Deliver(o, kind)
         \/ PurgeNamespace(o) \/ RemoveNamespace(o) \/ ReleaseHold(o)
         \/ Environment(o)
  PROVE  LooksOf(o)
<1>. USE DEF apiVars, taskVars
<1>1. ASSUME NEW kind \in Kinds, Deliver(o, kind) PROVE LooksOf(o)
  <2>1. org' = org /\ ns' = ns /\ pc' = pc /\ cache[o] \in View
    BY <1>1 DEF Deliver, TypeOK
  <2>2. CASE kind = "Namespace"
    <3>1. cache'[o] = [cache[o] EXCEPT !.ns = ns[o]]
      BY <1>1, <2>2 DEF Deliver, TypeOK
    <3>. QED BY <2>1, <3>1 DEF LooksOf, View
  <2>3. CASE kind # "Namespace"
    <3>1. \/ cache'[o] = [cache[o] EXCEPT !.org = org[o]]
          \/ cache'[o] = [cache[o] EXCEPT !.bindings = bindings[o]]
          \/ cache'[o] = [cache[o] EXCEPT !.projects = projects[o]]
      BY <1>1, <2>3 DEF Deliver, TypeOK, Kinds
    <3>. QED BY <2>1, <3>1 DEF LooksOf, View
  <2>. QED BY <2>2, <2>3
<1>2. CASE RemoveNamespace(o) \/ DeleteNamespace(o)
  <2>1. org' = org /\ pc' = pc /\ \E phase : SetNamespace(o, phase)
    BY <1>2 DEF RemoveNamespace, DeleteNamespace
  <2>2. ASSUME NEW phase, SetNamespace(o, phase)
        PROVE  cache'[o].ns = cache[o].ns \/ cache'[o].ns = ns'[o]
    BY <2>2 DEF SetNamespace, TypeOK, View
  <2>. QED BY <2>1, <2>2 DEF LooksOf
<1>3. CASE PurgeNamespace(o) \/ ChangeBindings(o) \/ ChangeProject(o)
  BY <1>3 DEF PurgeNamespace, ChangeBindings, ChangeProject, LooksOf
<1>4. CASE ReleaseHold(o) \/ CreateOrganization(o) \/ UpdateOwners(o) \/ DeleteOrganization(o)
  BY <1>4 DEF ReleaseHold, CreateOrganization, UpdateOwners, DeleteOrganization,
     ChangeOrganization, LooksOf
<1>5. CASE FailCall(o)
  BY <1>5 DEF FailCall, ReturnError, Return, LooksOf, TypeOK
<1>. QED BY <1>1, <1>2, <1>3, <1>4, <1>5 DEF Environment

\* Who is about to be released is condemned; the phases with the finalizer are
\* the two.
LEMMA ClearedIsCondemned ==
  ASSUME TypeOK, NEW o \in Orgs, FinalizerInvOf(o)
  PROVE  /\ Cleared(o) => PhaseOf(org[o]) = "condemned"
         /\ org[o].finalizer <=> PhaseOf(org[o]) \in {"guarded", "condemned"}
<1>1. org[o] \in Object /\ WellFormed(org[o])
  BY DEF TypeOK, FinalizerInvOf, CopiesKnown
<1>2. Cleared(o) => org[o].finalizer /\ org[o].deleting
  BY DEF Cleared, FinalizerInvOf, CallTells, Removing
<1>. QED BY <1>1, <1>2 DEF PhaseOf, WellFormed, Object

LEMMA ClearedIsCondemnedNext ==
  ASSUME TypeOK', NEW o \in Orgs, FinalizerInvOf(o)', Cleared(o)'
  PROVE  PhaseOf(org'[o]) = "condemned"
<1>1. org'[o] \in Object /\ WellFormed(org'[o])
  BY DEF TypeOK, FinalizerInvOf, CopiesKnown, WellFormed
<1>2. org'[o].finalizer /\ org'[o].deleting
  BY DEF Cleared, FinalizerInvOf, CallTells, Removing
<1>. QED BY <1>1, <1>2 DEF PhaseOf, WellFormed, Object

\* A call that is about to release an Organization of another phase is not.
LEMMA NotClearedByPassing ==
  ASSUME TypeOK, TypeOK', NEW o \in Orgs, FinalizerInvOf(o), FinalizerInvOf(o)', LooksOf(o),
         Passes(PhaseOf(org[o]), PhaseOf(org'[o]), Cleared(o)),
         PhaseOf(org[o]) # PhaseOf(org'[o])
  PROVE  ~Cleared(o)'
<1>. SUFFICES ASSUME Cleared(o)' PROVE FALSE
  OBVIOUS
<1>1. PhaseOf(org'[o]) = "condemned" /\ pc'[o] = "removeFinalizer"
  BY ClearedIsCondemnedNext DEF Cleared
<1>2. PhaseOf(org[o]) = "guarded"
  BY <1>1 DEF Passes
<1>3. org[o].finalizer /\ ~org[o].deleting
  <2>1. org[o].finalizer
    BY <1>2, ClearedIsCondemned
  <2>2. org[o] \in Object
    BY DEF TypeOK
  <2>. QED BY <1>2, <2>1, <2>2 DEF PhaseOf, Object
<1>4. pc[o] = "removeFinalizer"
  <2>1. org' # org
    OBVIOUS
  <2>. QED BY <1>1, <2>1 DEF LooksOf
<1>. QED BY <1>3, <1>4 DEF FinalizerInvOf, CallTells, Removing

LEMMA OwnershipNext ==
  TypeOK /\ FinalizerInv /\ [Next]_vars => [Ownership!Next]_(Ownership!vars)
<1>. SUFFICES ASSUME TypeOK, FinalizerInv, [Next]_vars
              PROVE  [Ownership!Next]_(Ownership!vars)
  OBVIOUS
<1>. DEFINE phase   == [y \in Orgs |-> PhaseOf(org[y])]
            shown   == [y \in Orgs |-> cache[y].ns]
            cleared == {y \in Orgs : Cleared(y)}
<1>a. TypeOK' /\ FinalizerInv'
  BY NextTypes, FinalizerNext
<1>b. /\ ns \in [Orgs -> NamespacePhase] /\ ns' \in [Orgs -> NamespacePhase]
  BY <1>a DEF TypeOK
<1>c. ASSUME phase' = phase, ns' = ns, cleared' \in SUBSET cleared, NEW X \in SUBSET Orgs,
             shown' = [y \in Orgs |-> IF y \in X THEN ns[y] ELSE shown[y]]
      PROVE  [Ownership!Next]_(Ownership!vars)
  <2>1. Ownership!CatchUp
    BY <1>c DEF Ownership!CatchUp
  <2>. QED BY <2>1 DEF Ownership!Next
<1>1. CASE Restart
  <2>1. org' = org /\ ns' = ns
    BY <1>1 DEF Restart, apiVars
  <2>2. phase' = phase
    BY <2>1
  <2>3. cleared' = {}
    BY <1>1 DEF Restart, Cleared
  <2>4. \A y \in Orgs : cache'[y].ns = ns[y]
    BY <1>1 DEF Restart, Latest
  <2>5. shown' = [y \in Orgs |-> IF y \in Orgs THEN ns[y] ELSE shown[y]]
    BY <2>4
  <2>6. cleared' \in SUBSET cleared
    BY <2>3
  <2> HIDE DEF phase, shown, cleared
  <2>. QED BY <1>c, <2>1, <2>2, <2>5, <2>6
<1>2. CASE BecomeCalm \/ UNCHANGED vars
  <2>1. UNCHANGED <<org, ns, cache, pc>>
    BY <1>2 DEF BecomeCalm, vars, apiVars, taskVars
  <2>2. phase' = phase /\ shown' = shown /\ cleared' = cleared
    BY <2>1 DEF Cleared
  <2>. QED BY <2>1, <2>2 DEF Ownership!vars
<1>3. ASSUME NEW o \in Orgs, System(o) \/ Environment(o)
      PROVE  [Ownership!Next]_(Ownership!vars)
  <2>a. FinalizerInvOf(o) /\ FinalizerInvOf(o)'
    BY <1>a DEF FinalizerInv
  <2>b. \A x \in Orgs : x # o => /\ org'[x] = org[x] /\ ns'[x] = ns[x]
                                 /\ cache'[x] = cache[x] /\ pc'[x] = pc[x]
    BY <1>3, Locality DEF Untouched
  <2>c. \A x \in Orgs : x # o => (Cleared(x)' <=> Cleared(x))
    BY <2>b DEF Cleared
  <2>d. LooksOf(o)
    BY <1>3, LooksController, LooksSurrounding DEF System
  <2>e. Passes(PhaseOf(org[o]), PhaseOf(org'[o]), Cleared(o))
    BY <1>3, <2>a, ControllerPasses, SurroundingPasses DEF System
  <2>f. phase' = [phase EXCEPT ![o] = PhaseOf(org'[o])]
    BY <2>b
  <2>g. phase[o] = PhaseOf(org[o]) /\ shown[o] = cache[o].ns /\ (o \in cleared <=> Cleared(o))
    OBVIOUS
  <2>h. shown' = [shown EXCEPT ![o] = cache'[o].ns]
    BY <2>b
  <2>i. /\ ~Cleared(o)' => cleared' = cleared \ {o}
        /\ Cleared(o)' => cleared' = cleared \cup {o}
    BY <2>c
  <2>1. CASE ns'[o] # ns[o]
    <3>1. /\ org' = org /\ Turns(ns[o], ns'[o], PhaseOf(org[o]))
          /\ pc'[o] = "removeFinalizer" <=> pc[o] = "removeFinalizer"
          /\ ns[o] = "absent" => pc[o] # "removeFinalizer"
      BY <1>3, <2>1, NamespaceTurns
    <3>2. phase' = phase
      BY <3>1
    <3>3. Cleared(o)' <=> Cleared(o)
      BY <3>1 DEF Cleared
    <3>4. cleared' = cleared
      BY <2>c, <3>3
    <3>5. ns[o] = "absent" => o \notin cleared
      BY <3>1 DEF Cleared
    <3>6. ns' = [ns EXCEPT ![o] = ns'[o]]
      BY <1>b, <2>b
    <3>7. shown' \in {shown, [shown EXCEPT ![o] = ns'[o]]}
      <4>1. CASE cache'[o].ns = cache[o].ns
        BY <2>h, <4>1
      <4>2. CASE cache'[o].ns = ns'[o]
        BY <2>h, <4>2
      <4>. QED BY <2>d, <4>1, <4>2 DEF LooksOf
    <3> HIDE DEF phase, shown, cleared
    <3>8. Ownership!Provision(o) \/ Ownership!Reclaim(o) \/ Ownership!Vanish(o)
      BY <2>1, <2>g, <3>1, <3>2, <3>4, <3>5, <3>6, <3>7
         DEF Turns, Ownership!Provision, Ownership!Reclaim, Ownership!Vanish, Ownership!Turn,
             phase, shown, cleared
    <3>. QED BY <3>8 DEF Ownership!Next
  <2>2. CASE ns'[o] = ns[o] /\ PhaseOf(org'[o]) # PhaseOf(org[o])
    <3>1. ns' = ns
      BY <1>b, <2>2, <2>b
    <3>2. org' # org
      BY <2>2
    <3>3. shown' = shown
      BY <2>d, <2>h, <3>2 DEF LooksOf
    <3>4. cleared' = cleared \ {o}
      BY <1>a, <2>2, <2>a, <2>d, <2>e, <2>i, NotClearedByPassing
    <3>5. \/ Ownership!Create(o) \/ Ownership!Guard(o) \/ Ownership!Condemn(o)
          \/ Ownership!Abandon(o) \/ Ownership!Release(o) \/ Ownership!Leave(o)
      BY <2>2, <2>e, <2>f, <2>g, <3>1, <3>3, <3>4
         DEF Passes, Ownership!Create, Ownership!Guard, Ownership!Condemn,
             Ownership!Abandon, Ownership!Release, Ownership!Leave, Ownership!Pass
    <3>. QED BY <3>5 DEF Ownership!Next
  <2>3. CASE ns'[o] = ns[o] /\ PhaseOf(org'[o]) = PhaseOf(org[o])
    <3>1. ns' = ns /\ phase' = phase
      BY <1>b, <2>3, <2>b, <2>f
    <3>2. CASE Cleared(o)' => Cleared(o)
      <4>1. cleared' \in SUBSET cleared
        BY <2>c, <3>2
      <4>2. CASE cache'[o].ns = cache[o].ns
        <5>1. shown' = [y \in Orgs |-> IF y \in {} THEN ns[y] ELSE shown[y]]
          BY <2>h, <4>2
        <5>2. {} \in SUBSET Orgs
          OBVIOUS
        <5> HIDE DEF phase, shown, cleared
        <5>. QED BY <1>c, <3>1, <4>1, <5>1, <5>2
      <4>3. CASE cache'[o].ns = ns[o]
        <5>1. shown' = [y \in Orgs |-> IF y \in {o} THEN ns[y] ELSE shown[y]]
          BY <2>h, <4>3
        <5>2. {o} \in SUBSET Orgs
          OBVIOUS
        <5> HIDE DEF phase, shown, cleared
        <5>. QED BY <1>c, <3>1, <4>1, <5>1, <5>2
      <4>. QED BY <2>3, <2>d, <4>2, <4>3 DEF LooksOf
    <3>3. CASE Cleared(o)' /\ ~Cleared(o)
      <4>1. PhaseOf(org[o]) = "condemned" /\ org[o].finalizer
        <5>1. PhaseOf(org'[o]) = "condemned"
          BY <1>a, <2>a, <3>3, ClearedIsCondemnedNext
        <5>. QED BY <2>3, <2>a, <5>1, ClearedIsCondemned
      <4>2. cache[o].ns = "absent" /\ cache' = cache
        BY <2>d, <3>3, <4>1 DEF Cleared, LooksOf
      <4>3. shown' = shown
        BY <4>2
      <4>4. cleared' = cleared \cup {o}
        BY <2>i, <3>3
      <4>5. Ownership!Clear(o)
        BY <2>g, <3>1, <4>1, <4>2, <4>3, <4>4 DEF Ownership!Clear
      <4>. QED BY <4>5 DEF Ownership!Next
    <3>. QED BY <3>2, <3>3
  <2>. QED BY <2>1, <2>2, <2>3
<1>. QED BY <1>1, <1>2, <1>3 DEF Next

\* The Organization controller implements the abstract promise, with informers that
\* lag as they please: every step of the controller, the API server, the users and
\* the faults is a step of GuardedOwnership or a stutter.
THEOREM OwnershipIsKept == Spec => KeepsOwnership
<1>1. Init => Ownership!Init
  <2>1. PhaseOf(NoObject) = "none"
    BY AbsentFields DEF PhaseOf
  <2>. QED BY <2>1 DEF Init, Ownership!Init, Cleared
<1>. QED BY <1>1, FinalizerInvariant, OwnershipNext, PTL DEF Spec, KeepsOwnership, Ownership!Spec

----------------------------------------------------------------------------
(* The controller rests only where it has nothing left to do. *)

\* What has not changed since it was shown is shown as it is.
Shown(o) ==
  /\ "Namespace" \notin pending[o] => cache[o].ns = ns[o]
  /\ "RoleBinding" \notin pending[o] => cache[o].bindings = bindings[o]
  /\ "Project" \notin pending[o] => cache[o].projects = projects[o]

\* An Organization marked for deletion stays only as long as a finalizer does.
Lingers(o) == org[o].deleting => org[o].finalizer \/ org[o].held

\* A call that is not to run again works with what the caches show: every event
\* that changes them queues the Organization.
WorkStands(o) ==
  o \notin queue =>
    /\ pc[o] # "idle" /\ "Organization" \notin pending[o] => obj[o] = org[o]
    /\ pc[o] \in Provisioning \ {"reconcileNamespace"} /\ "Namespace" \notin pending[o]
         => cache[o].ns # "absent"
    /\ pc[o] = "updateMembers" => subjects[o] = MembersIn(cache[o])
    /\ pc[o] \in {"checkTemplates", "updateReady"} => obj[o].members = MembersIn(cache[o])

RestsConverged(o) == Quiescent(o) => Converged(o)

RestInvOf(o) == Shown(o) /\ Lingers(o) /\ WorkStands(o) /\ RestsConverged(o)
RestInv      == \A o \in Orgs : RestInvOf(o)

\* Each informer is behind only as long as an event of its kind is on the way.
LEMMA NamespaceEvent ==
  ASSUME TypeOK, NEW o \in Orgs, Shown(o), NEW phase, SetNamespace(o, phase),
         bindings' = bindings, projects' = projects
  PROVE  /\ Shown(o)' /\ pending[o] \subseteq pending'[o]
         /\ \/ o \in queue'
            \/ "Namespace" \in pending'[o] /\ cache' = cache /\ queue' = queue
<1>1. CASE NamespaceLag
  BY <1>1 DEF SetNamespace, Notify, Shown, TypeOK
<1>2. CASE ~NamespaceLag
  <2>1. /\ ns'[o] = phase /\ o \in queue' /\ pending' = pending
        /\ cache'[o] = [cache[o] EXCEPT !.ns = phase]
    BY <1>2 DEF SetNamespace, Requests, TypeOK
  <2>2. /\ cache'[o].ns = phase /\ cache'[o].bindings = cache[o].bindings
        /\ cache'[o].projects = cache[o].projects
    BY <2>1 DEF TypeOK, View
  <2>. QED BY <2>1, <2>2 DEF Shown
<1>. QED BY <1>1, <1>2

LEMMA ShownController ==
  ASSUME TypeOK, NEW o \in Orgs, Shown(o), Controller(o)
  PROVE  Shown(o)'
<1>. USE DEF apiVars, taskVars
<1>1. CASE /\ UNCHANGED <<ns, bindings, projects, cache>>
           /\ (UNCHANGED pending \/ Notify(o, "Organization"))
  BY <1>1 DEF Shown, Notify, TypeOK
<1>2. CASE \/ Start(o) \/ UpdateFinalizer(o) \/ UpdateNamespaceName(o) \/ ListMembers(o)
           \/ UpdateMembers(o) \/ CheckTemplate(o) \/ UpdateReady(o) \/ UpdateTerminating(o)
           \/ RemoveFinalizer(o)
  BY <1>1, <1>2 DEF Start, UpdateFinalizer, UpdateNamespaceName, ListMembers, UpdateMembers,
     CheckTemplate, UpdateReady, UpdateTerminating, RemoveFinalizer, Write
<1>3. CASE ReconcileNamespace(o) \/ DeleteObjects(o)
  BY <1>1, <1>3, NamespaceEvent DEF ReconcileNamespace, DeleteObjects
<1>. QED BY <1>2, <1>3 DEF Controller, Continue

LEMMA ShownSurrounding ==
  ASSUME TypeOK, NEW o \in Orgs, Shown(o),
         \/ \E kind \in Kinds : Deliver(o, kind)
         \/ PurgeNamespace(o) \/ RemoveNamespace(o) \/ ReleaseHold(o)
         \/ Environment(o)
  PROVE  Shown(o)'
<1>. USE DEF apiVars, taskVars
<1>1. CASE UNCHANGED <<ns, bindings, projects, cache>> /\ pending[o] \subseteq pending'[o]
  BY <1>1 DEF Shown
<1>2. ASSUME NEW kind \in Kinds, Deliver(o, kind) PROVE Shown(o)'
  <2>a. /\ pending'[o] = pending[o] \ {kind}
        /\ UNCHANGED <<ns, bindings, projects>> /\ cache[o] \in View
    BY <1>2 DEF Deliver, TypeOK
  <2>1. CASE kind = "Organization"
    <3>1. cache'[o] = [cache[o] EXCEPT !.org = org[o]]
      BY <1>2, <2>1 DEF Deliver, TypeOK
    <3>. QED BY <2>1, <2>a, <3>1 DEF Shown, View
  <2>2. CASE kind = "Namespace"
    <3>1. cache'[o] = [cache[o] EXCEPT !.ns = ns[o]]
      BY <1>2, <2>2 DEF Deliver, TypeOK
    <3>. QED BY <2>2, <2>a, <3>1 DEF Shown, View
  <2>3. CASE kind = "RoleBinding"
    <3>1. cache'[o] = [cache[o] EXCEPT !.bindings = bindings[o]]
      BY <1>2, <2>3 DEF Deliver, TypeOK
    <3>. QED BY <2>3, <2>a, <3>1 DEF Shown, View
  <2>4. CASE kind = "Project"
    <3>1. cache'[o] = [cache[o] EXCEPT !.projects = projects[o]]
      BY <1>2, <2>4 DEF Deliver, TypeOK
    <3>. QED BY <2>4, <2>a, <3>1 DEF Shown, View
  <2>. QED BY <2>1, <2>2, <2>3, <2>4 DEF Kinds
<1>3. CASE PurgeNamespace(o) \/ ChangeBindings(o) \/ ChangeProject(o)
  BY <1>3 DEF PurgeNamespace, ChangeBindings, ChangeProject, Notify, Shown, TypeOK
<1>4. CASE RemoveNamespace(o) \/ DeleteNamespace(o)
  BY <1>4, NamespaceEvent DEF RemoveNamespace, DeleteNamespace
<1>5. CASE ReleaseHold(o) \/ CreateOrganization(o) \/ UpdateOwners(o) \/ DeleteOrganization(o)
  <2>1. \E new : ChangeOrganization(o, new)
    BY <1>5 DEF ReleaseHold, CreateOrganization, UpdateOwners, DeleteOrganization
  <2>. QED BY <1>1, <2>1 DEF ChangeOrganization, Notify, TypeOK
<1>6. CASE FailCall(o)
  BY <1>1, <1>6 DEF FailCall
<1>. QED BY <1>2, <1>3, <1>4, <1>5, <1>6 DEF Environment

\* What becomes of the finalizers.
LEMMA LingersNext ==
  ASSUME TypeOK, NEW o \in Orgs, FinalizerInvOf(o), Lingers(o), System(o) \/ Environment(o)
  PROVE  Lingers(o)'
<1>. USE DEF apiVars, taskVars
<1>a. /\ org[o] \in Object /\ obj[o] \in Object /\ subjects[o] \in SUBSET Subjects
      /\ current[o] => obj[o] = org[o]
  BY DEF TypeOK, FinalizerInvOf, CopiesKnown
<1>1. CASE org'[o] = org[o]
  BY <1>1 DEF Lingers
<1>b. ASSUME NEW new, NEW next, Write(o, new, next), new.deleting = obj[o].deleting,
             obj[o].finalizer => new.finalizer, new.held = obj[o].held
      PROVE  Lingers(o)'
  BY <1>1, <1>a, <1>b DEF Write, Accepts, Lingers, TypeOK
<1>c. ASSUME NEW new, ChangeOrganization(o, new), new.deleting => new.finalizer \/ new.held
      PROVE  Lingers(o)'
  BY <1>c DEF ChangeOrganization, Lingers, TypeOK
<1>2. CASE UpdateFinalizer(o)
  BY <1>2, <1>a, <1>b, WrittenFields DEF UpdateFinalizer
<1>3. CASE UpdateNamespaceName(o)
  BY <1>3, <1>a, <1>b, WrittenFields DEF UpdateNamespaceName
<1>4. CASE UpdateMembers(o)
  <2> DEFINE new == [obj[o] EXCEPT !.members = subjects[o]]
  <2>1. /\ new.deleting = obj[o].deleting /\ new.finalizer = obj[o].finalizer
        /\ new.held = obj[o].held
    BY <1>a, WrittenFields
  <2>2. PICK next : Write(o, new, next)
    BY <1>4 DEF UpdateMembers
  <2> HIDE DEF new
  <2>. QED BY <1>b, <2>1, <2>2
<1>5. CASE UpdateTerminating(o)
  BY <1>5, <1>a, <1>b, WrittenFields DEF UpdateTerminating, ReadyCondition
<1>6. CASE UpdateReady(o)
  <2>1. LET y == SetReady(obj[o], "True") IN
          y.deleting = obj[o].deleting /\ y.finalizer = obj[o].finalizer /\ y.held = obj[o].held
    BY <1>a, WrittenFields DEF ReadyCondition
  <2>. QED BY <1>6, <1>1, <1>a, <2>1 DEF UpdateReady, Accepts, ReturnError, Lingers, TypeOK
<1>7. CASE RemoveFinalizer(o)
  <2>1. LET y == WithoutFinalizer(obj[o]) IN y.deleting => y.held
    BY <1>a, ReleasedFields, AbsentFields
  <2>. QED BY <1>7, <1>1, <1>a, <2>1 DEF RemoveFinalizer, Accepts, ReturnError, Lingers, TypeOK
<1>8. CASE \/ Start(o) \/ ReconcileNamespace(o) \/ ListMembers(o) \/ CheckTemplate(o)
           \/ DeleteObjects(o) \/ (\E kind \in Kinds : Deliver(o, kind))
           \/ PurgeNamespace(o) \/ RemoveNamespace(o)
           \/ ChangeBindings(o) \/ ChangeProject(o) \/ DeleteNamespace(o) \/ FailCall(o)
  BY <1>8, <1>1 DEF Start, ReconcileNamespace, ListMembers, CheckTemplate, DeleteObjects, Deliver,
     PurgeNamespace, RemoveNamespace, ChangeBindings, ChangeProject, DeleteNamespace, FailCall
<1>9. CASE ReleaseHold(o)
  <2>1. LET y == WithoutHold(org[o]) IN y.deleting => y.finalizer
    BY <1>a, ReleasedFields, AbsentFields
  <2>. QED BY <1>9, <1>c, <2>1 DEF ReleaseHold
<1>10. CASE CreateOrganization(o)
  <2>1. \A owners \in OwnerSets, held \in Holds : ~NewObject(owners, held).deleting
    BY DEF NewObject
  <2>. QED BY <1>10, <1>c, <2>1 DEF CreateOrganization
<1>11. CASE UpdateOwners(o)
  <2>1. \A owners \in OwnerSets : LET y == WithOwners(org[o], owners) IN
          y.deleting = org[o].deleting /\ y.finalizer = org[o].finalizer /\ y.held = org[o].held
    BY <1>a DEF WithOwners, Object
  <2>. QED BY <1>11, <1>c, <2>1 DEF UpdateOwners, Lingers
<1>12. CASE DeleteOrganization(o)
  <2>1. LET y == Deleted(org[o]) IN y.deleting => y.finalizer \/ y.held
    BY <1>12, <1>a, ReleasedFields, AbsentFields DEF DeleteOrganization
  <2>. QED BY <1>12, <1>c, <2>1 DEF DeleteOrganization
<1>. QED
  BY <1>2, <1>3, <1>4, <1>5, <1>6, <1>7, <1>8, <1>9, <1>10, <1>11, <1>12
  DEF System, Controller, Continue, Environment

\* What is left alone stands.
LEMMA WorkStays ==
  ASSUME NEW o \in Orgs, WorkStands(o), cache'[o] = cache[o], pc'[o] = pc[o], obj'[o] = obj[o],
         subjects'[o] = subjects[o], o \in queue' <=> o \in queue, pending[o] \subseteq pending'[o],
         org'[o] = org[o] \/ "Organization" \in pending'[o]
  PROVE  WorkStands(o)'
BY DEF WorkStands

\* So does what a call writes, if it was listed from the caches.
LEMMA WorkWrite ==
  ASSUME TypeOK, NEW o \in Orgs, WorkStands(o), NEW new, NEW next, Write(o, new, next),
         cache' = cache, next # "updateMembers",
         next \in Provisioning \ {"reconcileNamespace"}
           => pc[o] \in Provisioning \ {"reconcileNamespace"},
         next \in {"checkTemplates", "updateReady"} /\ o \notin queue
           => new.members = MembersIn(cache[o])
  PROVE  WorkStands(o)'
<1>1. CASE Accepts(o)
  <2>1. /\ org'[o] = new /\ obj'[o] = new /\ pc'[o] = next /\ queue' = queue
        /\ "Namespace" \in pending[o] => "Namespace" \in pending'[o]
    BY <1>1 DEF Write, Goto, Notify, TypeOK
  <2>. QED BY <2>1 DEF WorkStands
<1>2. CASE ~Accepts(o)
  BY <1>2 DEF Write, ReturnError, WorkStands
<1>. QED BY <1>1, <1>2

LEMMA WorkController ==
  ASSUME TypeOK, NEW o \in Orgs, FinalizerInvOf(o), Shown(o), WorkStands(o), Controller(o)
  PROVE  WorkStands(o)'
<1>. USE DEF apiVars, taskVars
<1>a. obj[o] \in Object /\ subjects[o] \in SUBSET Subjects /\ cache[o].org \in Object
  BY DEF TypeOK, View
\* A call that returns has nothing to stand by.
<1>b. CASE pc'[o] = "idle" \/ o \in queue'
  BY <1>b DEF WorkStands, Provisioning
<1>1. CASE Start(o)
  <2>1. CASE ~cache[o].org.present
    BY <1>1, <1>b, <2>1 DEF Start
  <2>2. CASE cache[o].org.present
    <3>1. /\ obj'[o] = cache[o].org /\ org' = org /\ pending' = pending
          /\ pc'[o] = FirstStep(cache[o].org)
      BY <1>1, <2>2 DEF Start, Goto, TypeOK
    <3>2. FirstStep(cache[o].org) \in
            {"updateTerminating", "deleteObjects", "updateFinalizer", "reconcileNamespace"}
      BY <1>a DEF FirstStep, Object
    <3>3. "Organization" \notin pending[o] => cache[o].org = org[o]
      BY DEF FinalizerInvOf, CopiesKnown
    <3>. QED BY <3>1, <3>2, <3>3 DEF WorkStands, Provisioning
  <2>. QED BY <2>1, <2>2
<1>2. CASE UpdateFinalizer(o)
  BY <1>2, WorkWrite DEF UpdateFinalizer
<1>3. CASE ReconcileNamespace(o)
  <2> DEFINE next == IF obj[o].namespace THEN "listMembers" ELSE "updateNamespaceName"
  <2>a. org' = org /\ bindings' = bindings /\ projects' = projects /\ pc[o] = "reconcileNamespace"
    BY <1>3 DEF ReconcileNamespace
  <2>b. next \in {"listMembers", "updateNamespaceName"}
    OBVIOUS
  <2>1. CASE /\ cache[o].ns # "absent" /\ Goto(o, next)
             /\ UNCHANGED <<ns, cache, pending, queue, obj, current, subjects, todo>>
    <3>1. pc'[o] = next
      BY <2>1 DEF Goto, TypeOK
    <3> HIDE DEF next
    <3>. QED BY <2>a, <2>b, <2>1, <3>1 DEF WorkStands, Provisioning
  <2>2. CASE /\ SetNamespace(o, "active") /\ Goto(o, next)
             /\ UNCHANGED <<obj, current, subjects, todo>>
    <3>1. pc'[o] = next
      BY <2>2 DEF Goto, TypeOK
    <3>2. /\ pending[o] \subseteq pending'[o]
          /\ o \in queue' \/ ("Namespace" \in pending'[o] /\ queue' = queue)
      BY <2>2, <2>a, NamespaceEvent
    <3> HIDE DEF next
    <3>. QED BY <2>a, <2>b, <2>2, <3>1, <3>2 DEF WorkStands, Provisioning
  <2>3. CASE ReturnError(o)
    BY <1>b, <2>3 DEF ReturnError
  <2>. QED BY <1>3, <2>1, <2>2, <2>3 DEF ReconcileNamespace
<1>4. CASE UpdateNamespaceName(o)
  BY <1>4, WorkWrite DEF UpdateNamespaceName, Provisioning
<1>5. CASE ListMembers(o)
  <2>1. /\ pc[o] = "listMembers" /\ pc'[o] = "updateMembers" /\ subjects'[o] = MembersIn(cache[o])
        /\ org' = org /\ obj' = obj /\ cache' = cache /\ pending' = pending /\ queue' = queue
    BY <1>5 DEF ListMembers, Goto, TypeOK
  <2>. QED BY <2>1 DEF WorkStands, Provisioning
<1>6. CASE UpdateMembers(o)
  <2> DEFINE new == [obj[o] EXCEPT !.members = subjects[o]]
  <2>1. new.members = subjects[o]
    BY <1>a DEF Object
  <2>2. /\ Write(o, new, "checkTemplates") /\ cache' = cache /\ pc[o] = "updateMembers"
    BY <1>6 DEF UpdateMembers
  <2>3. o \notin queue => subjects[o] = MembersIn(cache[o])
    BY <2>2 DEF WorkStands
  <2> HIDE DEF new
  <2>. QED BY <2>1, <2>2, <2>3, WorkWrite DEF Provisioning
<1>7. CASE CheckTemplate(o)
  <2>1. /\ pc[o] = "checkTemplates"
        /\ org' = org /\ cache' = cache /\ pending' = pending /\ queue' = queue
    BY <1>7 DEF CheckTemplate
  <2>2. CASE UNCHANGED <<pc, obj, current, subjects>>
    BY <2>1, <2>2, WorkStays
  <2>3. CASE Return(o)
    BY <1>b, <2>3 DEF Return, TypeOK
  <2>4. CASE Goto(o, "updateReady") /\ UNCHANGED <<obj, current, subjects>>
    <3>1. pc'[o] = "updateReady"
      BY <2>4 DEF Goto, TypeOK
    <3>. QED BY <2>1, <2>4, <3>1 DEF WorkStands, Provisioning
  <2>. QED BY <1>7, <2>2, <2>3, <2>4 DEF CheckTemplate
<1>8. CASE UpdateReady(o) \/ RemoveFinalizer(o)
  BY <1>8, <1>b DEF UpdateReady, RemoveFinalizer, Return, ReturnError, TypeOK
<1>9. CASE UpdateTerminating(o)
  BY <1>9, WorkWrite DEF UpdateTerminating, Provisioning
<1>10. CASE DeleteObjects(o)
  <2>1. CASE Return(o)
    BY <1>b, <2>1 DEF Return, TypeOK
  <2>2. CASE /\ Goto(o, "removeFinalizer")
             /\ UNCHANGED <<ns, cache, pending, queue, obj, current, subjects, todo>>
    <3>1. pc'[o] = "removeFinalizer" /\ pc[o] = "deleteObjects" /\ org' = org
      BY <1>10, <2>2 DEF DeleteObjects, Goto, TypeOK
    <3>. QED BY <2>2, <3>1 DEF WorkStands, Provisioning
  <2>. QED BY <1>10, <2>1, <2>2 DEF DeleteObjects
<1>. QED
  BY <1>1, <1>2, <1>3, <1>4, <1>5, <1>6, <1>7, <1>8, <1>9, <1>10 DEF Controller, Continue

LEMMA WorkSurrounding ==
  ASSUME TypeOK, NEW o \in Orgs, Shown(o), WorkStands(o),
         \/ \E kind \in Kinds : Deliver(o, kind)
         \/ PurgeNamespace(o) \/ RemoveNamespace(o) \/ ReleaseHold(o)
         \/ Environment(o)
  PROVE  WorkStands(o)' /\ (o \in queue' \/ pending'[o] # {})
<1>. USE DEF apiVars, taskVars
<1>a. ASSUME o \in queue' PROVE WorkStands(o)'
  BY <1>a DEF WorkStands
<1>1. CASE (\E kind \in Kinds : Deliver(o, kind)) \/ FailCall(o)
  BY <1>1, <1>a DEF Deliver, Requests, FailCall, ReturnError
<1>2. CASE RemoveNamespace(o) \/ DeleteNamespace(o)
  <2>1. /\ UNCHANGED <<org, pc, obj, subjects, bindings, projects>>
        /\ \E phase : SetNamespace(o, phase)
    BY <1>2 DEF RemoveNamespace, DeleteNamespace
  <2>2. /\ pending[o] \subseteq pending'[o]
        /\ o \in queue' \/ ("Namespace" \in pending'[o] /\ cache' = cache /\ queue' = queue)
    BY <2>1, NamespaceEvent
  <2>. QED BY <1>a, <2>1, <2>2, WorkStays
<1>3. CASE PurgeNamespace(o) \/ ChangeBindings(o) \/ ChangeProject(o)
  <2>1. /\ UNCHANGED <<org, cache, queue, pc, obj, subjects>>
        /\ pending[o] \subseteq pending'[o] /\ pending'[o] # {}
    BY <1>3 DEF PurgeNamespace, ChangeBindings, ChangeProject, Notify, TypeOK
  <2>. QED BY <2>1, WorkStays
<1>4. CASE ReleaseHold(o) \/ CreateOrganization(o) \/ UpdateOwners(o) \/ DeleteOrganization(o)
  <2>1. \E new : ChangeOrganization(o, new)
    BY <1>4 DEF ReleaseHold, CreateOrganization, UpdateOwners, DeleteOrganization
  <2>2. /\ UNCHANGED <<cache, queue, pc, obj, subjects>>
        /\ pending[o] \subseteq pending'[o] /\ "Organization" \in pending'[o]
    BY <2>1 DEF ChangeOrganization, Notify, TypeOK
  <2>. QED BY <2>2, WorkStays
<1>. QED BY <1>1, <1>2, <1>3, <1>4 DEF Environment

\* When a call ends and nothing is going on, nothing was left to do.
LEMMA RestController ==
  ASSUME TypeOK, NEW o \in Orgs, FinalizerInvOf(o), SetUpInvOf(o), RestInvOf(o), Controller(o)
  PROVE  RestsConverged(o)'
<1>. USE DEF apiVars, taskVars
<1>a. CASE pc'[o] # "idle" \/ o \in queue' \/ pending'[o] # {}
  BY <1>a DEF RestsConverged, Quiescent
<1>1. CASE Start(o)
  <2>1. CASE cache[o].org.present
    <3>1. pc'[o] = FirstStep(cache[o].org)
      BY <1>1, <2>1 DEF Start, Goto, TypeOK
    <3>2. FirstStep(cache[o].org) # "idle"
      BY DEF FirstStep, TypeOK, View, Object
    <3>. QED BY <1>a, <3>1, <3>2
  <2>2. CASE ~cache[o].org.present
    <3>1. pending' = pending /\ org' = org
      BY <1>1 DEF Start
    <3>2. "Organization" \notin pending[o] => ~org[o].present
      BY <2>2 DEF FinalizerInvOf, CopiesKnown
    <3>. QED BY <3>1, <3>2 DEF RestsConverged, Quiescent, Converged
  <2>. QED BY <2>1, <2>2
<1>b. ASSUME NEW new, NEW next, Write(o, new, next), next # "idle" PROVE RestsConverged(o)'
  BY <1>a, <1>b DEF Write, Goto, ReturnError, TypeOK
<1>2. CASE UpdateFinalizer(o) \/ UpdateNamespaceName(o) \/ UpdateMembers(o)
           \/ UpdateTerminating(o)
  BY <1>2, <1>b DEF UpdateFinalizer, UpdateNamespaceName, UpdateMembers, UpdateTerminating
<1>3. CASE ReconcileNamespace(o) \/ ListMembers(o)
  BY <1>3, <1>a DEF ReconcileNamespace, ListMembers, Goto, ReturnError, TypeOK
<1>4. CASE UpdateReady(o) \/ RemoveFinalizer(o)
  BY <1>4, <1>a DEF UpdateReady, RemoveFinalizer, Notify, ReturnError, TypeOK
<1>5. CASE CheckTemplate(o)
  <2>1. PICK t \in todo[o] :
          /\ templates' = templates \cup {t}
          /\ \/ todo[o] # {t} /\ pc' = pc
             \/ todo[o] = {t} /\ IsReady(obj[o])
             \/ Goto(o, "updateReady")
    BY <1>5 DEF CheckTemplate
  <2>2. /\ pc[o] = "checkTemplates"
        /\ UNCHANGED <<org, ns, bindings, projects, cache, pending, queue>>
    BY <1>5 DEF CheckTemplate
  <2>3. CASE todo[o] = {t} /\ IsReady(obj[o])
    <3>1. SUFFICES ASSUME Quiescent(o)' PROVE Converged(o)'
      BY DEF RestsConverged
    <3>2. /\ pending[o] = {} /\ o \notin queue /\ ns[o] # "terminating"
      BY <2>2, <3>1 DEF Quiescent
    <3>3. /\ obj[o] = org[o] /\ cache[o].ns # "absent"
          /\ obj[o].members = MembersIn(cache[o])
      BY <2>2, <3>2 DEF RestInvOf, WorkStands, Provisioning
    <3>4. /\ cache[o].ns = ns[o] /\ cache[o].bindings = bindings[o]
          /\ cache[o].projects = projects[o]
      BY <3>2 DEF RestInvOf, Shown
    <3>5. MembersIn(cache[o]) = MembersIn(Latest(o))
      BY <3>4 DEF MembersIn, Latest
    <3>6. obj[o].finalizer /\ obj[o].namespace
      BY <2>2 DEF FinalizerInvOf, CallTells, Provisioning, SetUpInvOf, SetUpSoFar
    <3>7. templates' = Templates
      <4>1. Templates \ todo[o] \subseteq templates
        BY <2>2 DEF SetUpInvOf, SetUpSoFar
      <4>2. templates \subseteq Templates /\ todo[o] \subseteq Templates
        BY DEF TypeOK
      <4>. QED BY <2>1, <2>3, <4>1, <4>2
    <3>8. ns[o] = "active"
      BY <3>2, <3>3, <3>4 DEF TypeOK, NamespacePhase
    <3>9. Latest(o)' = Latest(o)
      BY <2>2 DEF Latest
    <3>10. MembersIn(Latest(o))' = MembersIn(Latest(o))
      BY <3>9
    <3>. QED BY <2>2, <2>3, <3>3, <3>5, <3>6, <3>7, <3>8, <3>10 DEF Converged
  <2>4. CASE ~(todo[o] = {t} /\ IsReady(obj[o]))
    <3>1. pc'[o] # "idle"
      BY <2>1, <2>2, <2>4 DEF Goto, TypeOK
    <3>. QED BY <1>a, <3>1
  <2>. QED BY <2>3, <2>4
<1>6. CASE DeleteObjects(o)
  <2>1. /\ pc[o] = "deleteObjects"
        /\ UNCHANGED <<org, bindings, projects>>
    BY <1>6 DEF DeleteObjects
  <2>2. CASE Goto(o, "removeFinalizer")
    BY <1>a, <2>2 DEF Goto, TypeOK
  <2>3. CASE ~obj[o].finalizer /\ UNCHANGED <<ns, cache, pending, queue>>
    <3>1. pending[o] = {} /\ o \notin queue => obj[o] = org[o]
      BY <2>1 DEF RestInvOf, WorkStands
    <3>2. obj[o].deleting
      BY <2>1 DEF FinalizerInvOf, CallTells, Removing
    <3>3. org[o].deleting => org[o].finalizer \/ org[o].held
      BY DEF RestInvOf, Lingers
    <3>. QED BY <2>1, <2>3, <3>1, <3>2, <3>3 DEF RestsConverged, Quiescent
  <2>4. CASE SetNamespace(o, "terminating")
    <3>1. o \in queue' \/ "Namespace" \in pending'[o]
      BY <2>1, <2>4, NamespaceEvent DEF RestInvOf
    <3>. QED BY <1>a, <3>1
  <2>5. CASE ~CleanedUp(o) /\ ns[o] # "active" /\ UNCHANGED <<ns, cache, pending, queue>>
    <3>1. "Namespace" \notin pending[o] => ns[o] = "terminating"
      BY <2>5 DEF RestInvOf, Shown, CleanedUp, TypeOK, NamespacePhase
    <3>. QED BY <2>5, <3>1 DEF RestsConverged, Quiescent
  <2>. QED BY <1>6, <2>2, <2>3, <2>4, <2>5 DEF DeleteObjects
<1>. QED BY <1>1, <1>2, <1>3, <1>4, <1>5, <1>6 DEF Controller, Continue

LEMMA RestElsewhere ==
  ASSUME TypeOK', NEW x \in Orgs, RestInvOf(x), templates \subseteq templates', Untouched(x)
  PROVE  RestInvOf(x)'
<1>1. Shown(x)' /\ Lingers(x)' /\ WorkStands(x)'
  BY WorkStays DEF RestInvOf, Shown, Lingers, Untouched
<1>2. Latest(x)' = Latest(x)
  BY DEF Latest, Untouched
<1>3. MembersIn(Latest(x))' = MembersIn(Latest(x))
  BY <1>2
<1>4. templates = Templates => templates' = Templates
  BY DEF TypeOK
<1>5. Quiescent(x)' => Quiescent(x)
  BY DEF Quiescent, Untouched
<1>6. Converged(x) => Converged(x)'
  BY <1>3, <1>4 DEF Converged, Untouched
<1>. QED BY <1>1, <1>5, <1>6 DEF RestInvOf, RestsConverged

\* A manager that starts hears of everything there is.
LEMMA RestRestart ==
  ASSUME TypeOK, NEW o \in Orgs, RestInvOf(o), Restart
  PROVE  RestInvOf(o)'
<1>1. /\ UNCHANGED <<org, ns, bindings, projects>>
      /\ cache'[o] = Latest(o) /\ pc'[o] = "idle"
      /\ org[o].present => o \in queue'
  BY DEF Restart, apiVars
<1>2. Shown(o)' /\ Lingers(o)'
  BY <1>1 DEF RestInvOf, Shown, Lingers, Latest
<1>3. WorkStands(o)'
  BY <1>1 DEF WorkStands, Provisioning
<1>4. RestsConverged(o)'
  BY <1>1 DEF RestsConverged, Quiescent, Converged
<1>. QED BY <1>2, <1>3, <1>4 DEF RestInvOf

LEMMA RestNext ==
  TypeOK /\ TypeOK' /\ FinalizerInv /\ SetUpInv /\ RestInv /\ [Next]_vars => RestInv'
<1>. SUFFICES ASSUME TypeOK, TypeOK', FinalizerInv, SetUpInv, RestInv, [Next]_vars,
                     NEW x \in Orgs
              PROVE  RestInvOf(x)'
  BY DEF RestInv
<1>0. FinalizerInvOf(x) /\ SetUpInvOf(x) /\ RestInvOf(x)
  BY DEF FinalizerInv, SetUpInv, RestInv
<1>1. CASE Restart
  BY <1>0, <1>1, RestRestart
<1>2. CASE BecomeCalm \/ UNCHANGED vars
  <2>1. Untouched(x) /\ templates' = templates
    BY <1>2 DEF BecomeCalm, Untouched, vars, apiVars, taskVars
  <2>. QED BY <1>0, <2>1, RestElsewhere
<1>3. ASSUME NEW o \in Orgs, System(o) \/ Environment(o) PROVE RestInvOf(x)'
  <2>1. CASE x # o
    BY <1>0, <1>3, <2>1, Locality, TemplatesGrow, RestElsewhere
  <2>2. CASE x = o /\ Controller(x)
    BY <1>0, <1>3, <2>2, ShownController, LingersNext, WorkController, RestController
       DEF RestInvOf
  <2>3. CASE x = o /\ ~Controller(x)
    <3>1. \/ \E kind \in Kinds : Deliver(x, kind)
          \/ PurgeNamespace(x) \/ RemoveNamespace(x) \/ ReleaseHold(x)
          \/ Environment(x)
      BY <1>3, <2>3 DEF System
    <3>2. Shown(x)' /\ WorkStands(x)' /\ (x \in queue' \/ pending'[x] # {})
      BY <1>0, <3>1, ShownSurrounding, WorkSurrounding DEF RestInvOf
    <3>3. Lingers(x)'
      BY <1>0, <1>3, <2>3, LingersNext DEF RestInvOf
    <3>. QED BY <3>2, <3>3 DEF RestInvOf, RestsConverged, Quiescent
  <2>. QED BY <2>1, <2>2, <2>3
<1>. QED BY <1>1, <1>2, <1>3 DEF Next

LEMMA RestInvariant == Spec => [](TypeOK /\ FinalizerInv /\ RestInv)
<1>1. Init => RestInv
  BY AbsentFields DEF Init, RestInv, RestInvOf, Shown, Lingers, WorkStands, RestsConverged,
     Quiescent, Converged, Provisioning
<1>. QED BY <1>1, SetUpInvariant, RestNext, PTL DEF Spec

\* No wakeup is lost: where nothing is queued, running or on the way about an
\* Organization, it is set up and lists its members, or is gone; and this with
\* lagging caches, conflicts, failed calls and restarts.
THEOREM RestsWhenConverged == Spec => []RestsOnlyWhenConverged
<1>1. RestInv => RestsOnlyWhenConverged
  BY DEF RestInv, RestInvOf, RestsConverged, RestsOnlyWhenConverged
<1>. QED BY <1>1, RestInvariant, PTL

----------------------------------------------------------------------------
(* What guards a namespace. *)

\* The finalizer goes only at the step that removes it, or with an Organization
\* that did not have it.
LEMMA FinalizerGoes ==
  ASSUME TypeOK, FinalizerInv, [Next]_vars, NEW x \in Orgs,
         org[x].present /\ org[x].finalizer, ~(org'[x].present /\ org'[x].finalizer)
  PROVE  pc[x] = "removeFinalizer"
<1>a. FinalizerInvOf(x) /\ org[x] \in Object
  BY DEF FinalizerInv, TypeOK
<1>1. ~Restart /\ ~BecomeCalm /\ ~UNCHANGED vars
  BY DEF Restart, BecomeCalm, vars, apiVars
<1>2. PICK o \in Orgs : System(o) \/ Environment(o)
  BY <1>1 DEF Next
<1>3. x = o
  BY <1>2, Locality DEF Untouched
<1>4. Passes(PhaseOf(org[x]), PhaseOf(org'[x]), Cleared(x))
  BY <1>2, <1>3, <1>a, ControllerPasses, SurroundingPasses DEF System
<1>5. PhaseOf(org[x]) \in {"guarded", "condemned"}
  BY <1>a, ClearedIsCondemned
<1>6. PhaseOf(org'[x]) \notin {"guarded", "condemned"}
  BY DEF PhaseOf
<1>. QED BY <1>4, <1>5, <1>6 DEF Passes, Cleared

\* A namespace loses what guards it only where handleDeletion lists it in a cache
\* that has not been told of it: the one way that is left to lose a namespace.
THEOREM LeftOnlyUnshown == Spec => OnlyUnshownIsLeft
<1>1. ASSUME TypeOK, FinalizerInv, RestInv, [Next]_vars, NEW o \in Orgs, Left(o)', ~Left(o)
      PROVE  pc[o] = "deleteObjects" /\ cache[o].ns = "absent" /\ "Namespace" \in pending[o]
  <2>a. TypeOK' /\ FinalizerInvOf(o) /\ Shown(o)
    BY <1>1, NextTypes DEF FinalizerInv, RestInv, RestInvOf
  <2>b. ns'[o] # "absent"
    BY <1>1 DEF Left
  <2>1. ns[o] # "absent"
    <3>. SUFFICES ASSUME ns[o] = "absent" PROVE FALSE
      OBVIOUS
    <3>1. org[o].present /\ org[o].finalizer /\ ReconcileNamespace(o)
      BY <1>1, <2>b, NamespaceCreation
    <3>2. org' = org /\ pc'[o] # "removeFinalizer"
      BY <1>1, <3>1 DEF ReconcileNamespace, Goto, ReturnError, Return, TypeOK
    <3>. QED BY <1>1, <3>1, <3>2 DEF Left
  <2>2. org[o].present /\ org[o].finalizer /\ pc[o] # "removeFinalizer"
    BY <1>1, <2>1 DEF Left
  <2>3. org'[o].present /\ org'[o].finalizer
    BY <1>1, <2>2, FinalizerGoes
  <2>4. pc'[o] = "removeFinalizer"
    BY <1>1, <2>3 DEF Left
  <2>5. ~Restart /\ ~BecomeCalm /\ ~UNCHANGED vars
    BY <1>1, <2>2, <2>4 DEF Restart, BecomeCalm, vars, taskVars
  <2>6. PICK x \in Orgs : System(x) \/ Environment(x)
    BY <1>1, <2>5 DEF Next
  <2>7. x = o
    BY <1>1, <2>2, <2>4, <2>6, Locality DEF Untouched
  <2>8. LooksOf(o)
    BY <1>1, <2>6, <2>7, LooksController, LooksSurrounding DEF System
  <2>9. pc[o] = "deleteObjects" /\ cache[o].ns = "absent"
    BY <2>2, <2>4, <2>8 DEF LooksOf
  <2>. QED BY <2>1, <2>9, <2>a DEF Shown
<1>2. ASSUME TypeOK, FinalizerInv, RestInv, [Next]_vars
      PROVE  [\A o \in Orgs : Left(o)' /\ ~Left(o)
               => pc[o] = "deleteObjects" /\ cache[o].ns = "absent"
                  /\ "Namespace" \in pending[o]]_vars
  BY <1>1, <1>2
<1>. QED BY <1>2, RestInvariant, PTL DEF Spec, OnlyUnshownIsLeft
=============================================================================
