---------------------- MODULE ProjectController_proofs ----------------------
(***************************************************************************)
(* Proofs about the Project controller, for any number of Projects and     *)
(* workers, through panics and restarts: types, the finalizer, what a      *)
(* Project that is declared ready has been given, the ownership of its     *)
(* namespace, and that the controller rests only where it has nothing left *)
(* to do.                                                                  *)
(***************************************************************************)
EXTENDS ProjectController, ManagedObject_proofs

----------------------------------------------------------------------------
(* The inductive invariant.  What follows is about one Project p: what is  *)
(* stored, what the cache holds, and what the Reconcile call works on.     *)

\* An object that does not exist has none of the marks.
WellFormed(x) == ~x.present => ~x.finalizer /\ ~x.deleting /\ x.ready = "Unset"

\* A copy is outdated unless it equals the stored object.
CopiesKnown(p) ==
  /\ WellFormed(prj[p]) /\ WellFormed(cache[p].prj)
  /\ current[p] => obj[p] = prj[p]
  /\ "Project" \notin pending[p] => cache[p].prj = prj[p]

\* What the cache says about the finalizer still tells something of the
\* present: only this controller adds or removes it, one call at a time.
CacheTells(p) ==
  /\ cache[p].prj.finalizer /\ ~cache[p].prj.deleting => prj[p].finalizer
  /\ cache[p].prj.deleting => (prj[p].finalizer => prj[p].deleting)

\* What the step at which a call stands says about its copy and the rest.
CallTells(p) ==
  /\ pc[p] = "updateFinalizer" =>
       /\ obj[p].present /\ ~obj[p].deleting
       /\ current[p] => ~cache[p].prj.deleting
  /\ pc[p] \in Provisioning =>
       /\ obj[p].present /\ obj[p].finalizer /\ ~obj[p].deleting
       /\ prj[p].finalizer
  /\ pc[p] \in Removing =>
       /\ obj[p].present /\ obj[p].deleting
       /\ prj[p].finalizer => prj[p].deleting
       /\ cache[p].prj.finalizer => cache[p].prj.deleting

FinalizerInvOf(p) == CopiesKnown(p) /\ CacheTells(p) /\ CallTells(p)
FinalizerInv      == \A p \in Projects : FinalizerInvOf(p)

----------------------------------------------------------------------------
(* Where the steps come from. *)

\* Informers, the namespace controller, users and faults.
Surrounding(p) ==
  \/ \E kind \in Kinds : Deliver(p, kind)
  \/ PurgeNamespace(p) \/ RemoveNamespace(p) \/ ReleaseHold(p)
  \/ Environment(p)

\* All that is about one Project; a panic is about all of them.
Local(p) == Controller(p) \/ Surrounding(p)

LEMMA Sources == Next => (\E p \in Projects : Local(p)) \/ StartManager \/ BecomeCalm
BY DEF Next, System, Local, Surrounding, Panic, Restart

----------------------------------------------------------------------------
(* Types. *)

LEMMA InitTypes == Init => TypeOK
<1>. SUFFICES ASSUME Init PROVE TypeOK
  OBVIOUS
<1>. QED BY ObjectTypes
  DEF Init, TypeOK, View, NamespacePhase, Steps

\* The ways in which the steps of a call act.
LEMMA ReturnTypes ==
  ASSUME TypeOK, NEW p \in Projects, Return(p)
  PROVE  /\ pc' \in [Projects -> Steps] /\ obj' \in [Projects -> Object]
         /\ current' \in [Projects -> BOOLEAN] /\ subjects' \in [Projects -> SUBSET Subjects]
BY ObjectTypes DEF TypeOK, Return, Steps

LEMMA WriteTypes ==
  ASSUME TypeOK, NEW p \in Projects, NEW new \in Object, NEW next \in Steps,
         Write(p, new, next)
  PROVE  /\ prj' \in [Projects -> Object] /\ pending' \in [Projects -> SUBSET Kinds]
         /\ queue' \in SUBSET Projects
         /\ pc' \in [Projects -> Steps] /\ obj' \in [Projects -> Object]
         /\ current' \in [Projects -> BOOLEAN] /\ subjects' \in [Projects -> SUBSET Subjects]
BY ReturnTypes DEF Accepts, TypeOK, Write, ReturnError, Goto, Notify, Kinds

LEMMA WriteLastTypes ==
  ASSUME TypeOK, NEW p \in Projects, NEW new \in Object, WriteLast(p, new)
  PROVE  /\ prj' \in [Projects -> Object] /\ pending' \in [Projects -> SUBSET Kinds]
         /\ queue' \in SUBSET Projects
         /\ pc' \in [Projects -> Steps] /\ obj' \in [Projects -> Object]
         /\ current' \in [Projects -> BOOLEAN] /\ subjects' \in [Projects -> SUBSET Subjects]
BY ReturnTypes DEF TypeOK, WriteLast, ReturnError, Notify, Kinds

LEMMA SetNamespaceTypes ==
  ASSUME TypeOK, NEW p \in Projects, NEW phase \in NamespacePhase, SetNamespace(p, phase)
  PROVE  /\ ns' \in [Projects -> NamespacePhase] /\ cache' \in [Projects -> View]
         /\ pending' \in [Projects -> SUBSET Kinds] /\ queue' \in SUBSET Projects
<1>1. [cache EXCEPT ![p].ns = phase] \in [Projects -> View]
  BY DEF TypeOK, View
<1>. QED BY <1>1 DEF Requests, TypeOK, SetNamespace, Notify, Kinds

\* The steps of a call.
LEMMA ControllerTypes ==
  ASSUME TypeOK, NEW p \in Projects, Controller(p)
  PROVE  TypeOK'
<1>. USE ReturnTypes DEF apiVars, taskVars
<1>1. CASE Start(p)
  <2>1. cache[p].prj \in Object
    BY DEF TypeOK, View
  <2>. QED BY <1>1, <2>1 DEF FirstStep, Start, TypeOK, Goto, Steps, Provisioning, Removing
<1>2. CASE UpdateFinalizer(p)
  <2>1. [obj[p] EXCEPT !.finalizer = TRUE] \in Object
    BY FieldTypes DEF TypeOK
  <2>2. "reconcileNamespace" \in Steps
    BY DEF Steps, Provisioning
  <2>. QED BY <1>2, <2>1, <2>2, WriteTypes DEF UpdateFinalizer, TypeOK
<1>3. CASE ReconcileNamespace(p)
  <2>1. {"listMembers", "updateNamespaceName"} \subseteq Steps /\ "active" \in NamespacePhase
    BY DEF Steps, Provisioning, NamespacePhase
  <2>. QED BY <1>3, <2>1, SetNamespaceTypes
           DEF ReconcileNamespace, TypeOK, Goto, ReturnError
<1>4. CASE UpdateNamespaceName(p)
  <2>1. [obj[p] EXCEPT !.namespace = TRUE] \in Object
    BY FieldTypes DEF TypeOK
  <2>2. "listMembers" \in Steps
    BY DEF Steps, Provisioning
  <2>. QED BY <1>4, <2>1, <2>2, WriteTypes DEF UpdateNamespaceName, TypeOK
<1>5. CASE ListMembers(p)
  <2>1. cache[p].bindings \in SUBSET Subjects
    BY DEF TypeOK, View
  <2>. QED BY <1>5, <2>1 DEF ListMembers, TypeOK, Goto, Steps, Provisioning
<1>6. CASE UpdateMembers(p)
  <2>1. [obj[p] EXCEPT !.members = subjects[p]] \in Object
    BY FieldTypes DEF TypeOK
  <2>2. "updateReady" \in Steps
    BY DEF Steps, Provisioning
  <2>. QED BY <1>6, <2>1, <2>2, WriteTypes, WriteLastTypes DEF UpdateMembers, TypeOK
<1>7. CASE UpdateReady(p)
  <2>1. SetReady(obj[p], "True") \in Object
    BY ObjectTypes DEF TypeOK, ReadyCondition
  <2>. QED BY <1>7, <2>1, WriteLastTypes DEF UpdateReady, TypeOK
<1>8. CASE UpdateTerminating(p)
  <2>1. SetReady(obj[p], "Terminating") \in Object
    BY ObjectTypes DEF TypeOK, ReadyCondition
  <2>2. "deleteObjects" \in Steps
    BY DEF Steps, Removing
  <2>. QED BY <1>8, <2>1, <2>2, WriteTypes DEF UpdateTerminating, TypeOK
<1>9. CASE DeleteObjects(p)
  <2>1. "removeFinalizer" \in Steps /\ "terminating" \in NamespacePhase
    BY DEF Steps, Removing, NamespacePhase
  <2>. QED BY <1>9, <2>1, SetNamespaceTypes DEF DeleteObjects, TypeOK, Goto
<1>10. CASE RemoveFinalizer(p)
  <2>1. WithoutFinalizer(obj[p]) \in Object
    BY ObjectTypes DEF TypeOK
  <2>. QED BY <1>10, <2>1, WriteLastTypes DEF RemoveFinalizer, TypeOK
<1>. QED
  BY <1>1, <1>2, <1>3, <1>4, <1>5, <1>6, <1>7, <1>8, <1>9, <1>10 DEF Controller, Continue

\* Informers, the namespace controller, users and faults.
LEMMA SurroundingTypes ==
  ASSUME TypeOK, NEW p \in Projects, Surrounding(p)
  PROVE  TypeOK'
<1>. USE DEF apiVars, taskVars
<1>1. ASSUME NEW new \in Object, ChangeProject(p, new) PROVE TypeOK'
  BY <1>1 DEF ChangeProject, TypeOK, Notify, Kinds
<1>2. ASSUME NEW kind \in Kinds, Deliver(p, kind) PROVE TypeOK'
  <2>1. cache[p] \in View /\ prj[p] \in Object /\ ns[p] \in NamespacePhase
        /\ bindings[p] \in SUBSET Subjects
    BY DEF TypeOK
  <2>2. cache' \in [Projects -> View]
    <3>1. CASE kind = "Project"
      BY <1>2, <2>1, <3>1 DEF Requests, Deliver, TypeOK, View
    <3>2. CASE kind = "Namespace"
      BY <1>2, <2>1, <3>2 DEF Requests, Deliver, TypeOK, View
    <3>3. CASE kind = "RoleBinding"
      BY <1>2, <2>1, <3>3 DEF Requests, Deliver, TypeOK, View
    <3>. QED BY <3>1, <3>2, <3>3 DEF Kinds
  <2>. QED BY <1>2, <2>2 DEF Requests, Deliver, TypeOK
<1>3. CASE PurgeNamespace(p)
  BY <1>3 DEF PurgeNamespace, TypeOK, Notify, Kinds
<1>4. CASE RemoveNamespace(p)
  BY <1>4, SetNamespaceTypes DEF RemoveNamespace, TypeOK, NamespacePhase
<1>5. CASE ReleaseHold(p)
  <2>1. WithoutHold(prj[p]) \in Object
    BY ObjectTypes DEF TypeOK
  <2>. QED BY <1>1, <1>5, <2>1 DEF ReleaseHold
<1>6. CASE CreateProject(p)
  <2>1. \A owners \in OwnerSets, held \in Holds : NewObject(owners, held) \in Object
    BY ObjectTypes, ControllerAssumption
  <2>. QED BY <1>1, <1>6, <2>1 DEF CreateProject
<1>7. CASE UpdateOwners(p)
  <2>1. \A owners \in OwnerSets : WithOwners(prj[p], owners) \in Object
    BY ObjectTypes DEF TypeOK
  <2>. QED BY <1>1, <1>7, <2>1 DEF UpdateOwners
<1>8. CASE DeleteProject(p)
  <2>1. Deleted(prj[p]) \in Object
    BY ObjectTypes DEF TypeOK
  <2>. QED BY <1>1, <1>8, <2>1 DEF DeleteProject
<1>9. CASE ChangeBindings(p)
  BY <1>9, ControllerAssumption DEF ChangeBindings, TypeOK, Notify, Kinds
<1>10. CASE DeleteNamespace(p)
  BY <1>10, SetNamespaceTypes DEF DeleteNamespace, TypeOK, NamespacePhase
<1>11. CASE FailCall(p)
  BY <1>11, ReturnTypes DEF FailCall, ReturnError, TypeOK
<1>. QED
  BY <1>2, <1>3, <1>4, <1>5, <1>6, <1>7, <1>8, <1>9, <1>10, <1>11 DEF Surrounding, Environment

LEMMA NextTypes == TypeOK /\ [Next]_vars => TypeOK'
<1>. SUFFICES ASSUME TypeOK, [Next]_vars PROVE TypeOK'
  OBVIOUS
<1>1. CASE StartManager
  <2>1. \A p \in Projects : Latest(p) \in View
    BY DEF TypeOK, View, Latest
  <2>. QED BY <1>1, <2>1, ObjectTypes DEF StartManager, TypeOK, apiVars, Steps
<1>2. CASE BecomeCalm
  BY <1>2 DEF BecomeCalm, TypeOK, apiVars, taskVars
<1>3. CASE UNCHANGED vars
  BY <1>3 DEF vars, TypeOK, apiVars, taskVars
<1>4. ASSUME NEW p \in Projects, Local(p) PROVE TypeOK'
  BY <1>4, ControllerTypes, SurroundingTypes DEF Local
<1>. QED BY <1>1, <1>2, <1>3, <1>4, Sources

\* Type correctness: every state of the controller has the declared form.
THEOREM TypeCorrect == Spec => []TypeOK
BY InitTypes, NextTypes, PTL DEF Spec

----------------------------------------------------------------------------
(* The finalizer invariant. *)

Untouched(x) ==
  /\ prj'[x] = prj[x] /\ ns'[x] = ns[x] /\ cache'[x] = cache[x] /\ pending'[x] = pending[x]
  /\ pc'[x] = pc[x] /\ obj'[x] = obj[x] /\ current'[x] = current[x]
  /\ bindings'[x] = bindings[x] /\ subjects'[x] = subjects[x]
  /\ x \in queue' <=> x \in queue

\* An action about one Project leaves the others alone.
LEMMA Locality ==
  ASSUME TypeOK, NEW p \in Projects, Local(p), NEW x \in Projects, x # p
  PROVE  Untouched(x)
<1>. USE DEF Accepts, Requests, Untouched, TypeOK, apiVars, taskVars, Goto, Return, ReturnError, Notify,
             SetNamespace, ChangeProject, Write, WriteLast
<1>1. CASE Controller(p)
  <2>1. CASE Start(p)
    BY <2>1 DEF FirstStep, Start
  <2>2. CASE UpdateFinalizer(p) \/ UpdateNamespaceName(p) \/ UpdateMembers(p)
              \/ UpdateTerminating(p)
    BY <2>2 DEF Accepts, UpdateFinalizer, UpdateNamespaceName, UpdateMembers, UpdateTerminating
  <2>3. CASE ReconcileNamespace(p) \/ DeleteObjects(p)
    BY <2>3 DEF ReconcileNamespace, DeleteObjects
  <2>4. CASE ListMembers(p)
    BY <2>4 DEF ListMembers
  <2>5. CASE UpdateReady(p) \/ RemoveFinalizer(p)
    BY <2>5 DEF Accepts, UpdateReady, RemoveFinalizer
  <2>. QED BY <1>1, <2>1, <2>2, <2>3, <2>4, <2>5 DEF Controller, Continue
<1>2. CASE \E kind \in Kinds : Deliver(p, kind)
  BY <1>2 DEF Requests, Deliver
<1>3. CASE PurgeNamespace(p) \/ RemoveNamespace(p) \/ ReleaseHold(p)
  BY <1>3 DEF PurgeNamespace, RemoveNamespace, ReleaseHold
<1>4. CASE Environment(p)
  BY <1>4 DEF Environment, CreateProject, UpdateOwners, DeleteProject,
              ChangeBindings, DeleteNamespace, FailCall
<1>. QED BY <1>1, <1>2, <1>3, <1>4 DEF Local, Surrounding

LEMMA FinalizerStays ==
  ASSUME NEW x \in Projects, FinalizerInvOf(x), Untouched(x)
  PROVE  FinalizerInvOf(x)'
BY DEF FinalizerInvOf, CopiesKnown, CacheTells, CallTells, Untouched, WellFormed

\* A call that returns keeps the invariant, whatever it did before.
LEMMA FinalizerReturn ==
  ASSUME TypeOK, NEW p \in Projects, FinalizerInvOf(p), Return(p), cache'[p].prj = cache[p].prj,
         prj'[p] = prj[p], pending[p] \cap {"Project"} = pending'[p] \cap {"Project"}
  PROVE  FinalizerInvOf(p)'
BY DEF FinalizerInvOf, CopiesKnown, CacheTells, CallTells, WellFormed, TypeOK,
       Return, Provisioning, Removing

\* So does a write that keeps the marks; the first one adds the finalizer.
LEMMA FinalizerWrite ==
  ASSUME TypeOK, NEW p \in Projects, FinalizerInvOf(p), NEW new, NEW next,
         Write(p, new, next), cache' = cache, new.present, new.deleting = obj[p].deleting,
         \/ /\ pc[p] = "updateFinalizer" /\ next \in Provisioning /\ new.finalizer
         \/ /\ pc[p] \in Provisioning /\ next \in Provisioning /\ new.finalizer
         \/ /\ pc[p] \in Removing /\ next \in Removing
            /\ new.finalizer = obj[p].finalizer
  PROVE  FinalizerInvOf(p)'
<1>1. CASE current[p]
  <2>1. /\ prj'[p] = new /\ obj'[p] = new /\ current'[p] = current[p] /\ pc'[p] = next
        /\ "Project" \notin pending'[p] =>
              "Project" \notin pending[p] /\ new = prj[p]
    BY <1>1 DEF Accepts, Write, Goto, Notify, TypeOK
  <2>2. obj[p] = prj[p]
    BY <1>1 DEF FinalizerInvOf, CopiesKnown
  <2>. QED BY <1>1, <2>1, <2>2 DEF FinalizerInvOf, CopiesKnown, CacheTells, CallTells, WellFormed,
                               Provisioning, Removing
<1>2. CASE ~current[p]
  BY <1>2, FinalizerReturn DEF Accepts, Write, ReturnError
<1>. QED BY <1>1, <1>2

\* And one with which the call ends.
LEMMA FinalizerWriteLast ==
  ASSUME TypeOK, NEW p \in Projects, FinalizerInvOf(p), NEW new, WriteLast(p, new),
         cache' = cache, WellFormed(new),
         \/ pc[p] \in Provisioning /\ new.finalizer
         \/ pc[p] \in Removing /\ ~new.finalizer
  PROVE  FinalizerInvOf(p)'
<1>1. CASE current[p]
  <2>1. /\ prj'[p] = new /\ obj'[p] = NoObject /\ ~current'[p] /\ pc'[p] = "idle"
        /\ "Project" \notin pending'[p] =>
              "Project" \notin pending[p] /\ new = prj[p]
    BY <1>1 DEF Accepts, WriteLast, Return, Notify, TypeOK
  <2>2. obj[p] = prj[p]
    BY <1>1 DEF FinalizerInvOf, CopiesKnown
  <2>. QED BY <1>1, <2>1, <2>2 DEF FinalizerInvOf, CopiesKnown, CacheTells, CallTells, WellFormed,
                               Provisioning, Removing
<1>2. CASE ~current[p]
  BY <1>2, FinalizerReturn DEF Accepts, WriteLast, ReturnError
<1>. QED BY <1>1, <1>2

\* The phase of a namespace is no concern of it.
LEMMA NamespaceAside ==
  ASSUME TypeOK, NEW p \in Projects, NEW phase, SetNamespace(p, phase)
  PROVE  /\ cache'[p].prj = cache[p].prj
         /\ "Project" \in pending'[p] <=> "Project" \in pending[p]
BY DEF Requests, TypeOK, View, SetNamespace, Notify

LEMMA FinalizerController ==
  ASSUME TypeOK, NEW p \in Projects, FinalizerInvOf(p), Controller(p)
  PROVE  FinalizerInvOf(p)'
<1>. USE DEF FinalizerInvOf, CopiesKnown, CacheTells, CallTells, WellFormed,
             Provisioning, Removing, apiVars, taskVars
<1>a. obj[p] \in Object /\ prj[p] \in Object /\ subjects[p] \in SUBSET Subjects
  BY DEF TypeOK
<1>1. CASE Start(p)
  BY <1>1 DEF FirstStep, Start, TypeOK, Goto
<1>2. CASE UpdateFinalizer(p)
  <2> DEFINE new == [obj[p] EXCEPT !.finalizer = TRUE]
  <2>1. /\ new.present = obj[p].present /\ new.deleting = obj[p].deleting
        /\ new.finalizer
    BY <1>a, WrittenFields
  <2>2. \E next \in Provisioning : Write(p, new, next)
    BY <1>2 DEF UpdateFinalizer
  <2> HIDE DEF new
  <2>. QED BY <1>2, <2>1, <2>2, FinalizerWrite DEF UpdateFinalizer
<1>3. CASE ReconcileNamespace(p)
  BY <1>3, NamespaceAside, FinalizerReturn DEF ReconcileNamespace, ReturnError, Goto, TypeOK
<1>4. CASE UpdateNamespaceName(p)
  <2> DEFINE new == [obj[p] EXCEPT !.namespace = TRUE]
  <2>1. /\ new.present = obj[p].present /\ new.deleting = obj[p].deleting
        /\ new.finalizer = obj[p].finalizer
    BY <1>a, WrittenFields
  <2>2. \E next \in Provisioning : Write(p, new, next)
    BY <1>4 DEF UpdateNamespaceName
  <2> HIDE DEF new
  <2>. QED BY <1>4, <2>1, <2>2, FinalizerWrite DEF UpdateNamespaceName
<1>5. CASE ListMembers(p)
  BY <1>5 DEF ListMembers, TypeOK, Goto
<1>6. CASE UpdateMembers(p)
  <2> DEFINE new == [obj[p] EXCEPT !.members = subjects[p]]
  <2>1. /\ new.present = obj[p].present /\ new.deleting = obj[p].deleting
        /\ new.finalizer = obj[p].finalizer
    BY <1>a, WrittenFields
  <2>2. (\E next \in Provisioning : Write(p, new, next)) \/ WriteLast(p, new)
    BY <1>6 DEF UpdateMembers
  <2> HIDE DEF new
  <2>. QED BY <1>6, <2>1, <2>2, FinalizerWrite, FinalizerWriteLast DEF UpdateMembers
<1>7. CASE UpdateReady(p)
  <2> DEFINE new == SetReady(obj[p], "True")
  <2>1. new.present = obj[p].present /\ new.finalizer = obj[p].finalizer
    BY <1>a, WrittenFields DEF ReadyCondition
  <2>2. WriteLast(p, new)
    BY <1>7 DEF UpdateReady
  <2> HIDE DEF new
  <2>. QED BY <1>7, <2>1, <2>2, FinalizerWriteLast DEF UpdateReady
<1>8. CASE UpdateTerminating(p)
  BY <1>8, <1>a, FinalizerWrite, WrittenFields DEF UpdateTerminating, ReadyCondition
<1>9. CASE DeleteObjects(p)
  BY <1>9, NamespaceAside, FinalizerReturn DEF DeleteObjects, Goto, TypeOK
<1>10. CASE RemoveFinalizer(p)
  <2> DEFINE new == WithoutFinalizer(obj[p])
  <2>1. WellFormed(new) /\ ~new.finalizer
    BY <1>10, <1>a, ReleasedFields, AbsentFields DEF RemoveFinalizer
  <2>2. WriteLast(p, new)
    BY <1>10 DEF RemoveFinalizer
  <2> HIDE DEF new
  <2>. QED BY <1>10, <2>1, <2>2, FinalizerWriteLast DEF RemoveFinalizer
<1>. QED
  BY <1>1, <1>2, <1>3, <1>4, <1>5, <1>6, <1>7, <1>8, <1>9, <1>10 DEF Controller, Continue

LEMMA FinalizerSurrounding ==
  ASSUME TypeOK, NEW p \in Projects, FinalizerInvOf(p), Surrounding(p)
  PROVE  FinalizerInvOf(p)'
<1>. USE DEF FinalizerInvOf, CopiesKnown, CacheTells, CallTells, WellFormed, apiVars, taskVars
<1>a. prj[p] \in Object
  BY DEF TypeOK
\* Every write by somebody else outdates the copies.
<1>b. ASSUME NEW new, ChangeProject(p, new), WellFormed(new),
             new.finalizer <=> prj[p].finalizer,
             prj[p].deleting => new.deleting \/ ~new.finalizer
      PROVE  FinalizerInvOf(p)'
  BY <1>b DEF ChangeProject, TypeOK, Notify, Provisioning, Removing
<1>1. ASSUME NEW kind \in Kinds, Deliver(p, kind) PROVE FinalizerInvOf(p)'
  <2>1. CASE kind = "Project"
    BY <1>1, <2>1 DEF Requests, Deliver, TypeOK, View, Provisioning, Removing
  <2>2. CASE kind # "Project"
    BY <1>1, <2>2 DEF Requests, Deliver, TypeOK, View, Provisioning, Removing, Kinds
  <2>. QED BY <2>1, <2>2
<1>2. CASE PurgeNamespace(p)
  BY <1>2 DEF PurgeNamespace, Notify, TypeOK, Provisioning, Removing
<1>3. CASE RemoveNamespace(p) \/ DeleteNamespace(p)
  BY <1>3, NamespaceAside DEF RemoveNamespace, DeleteNamespace, TypeOK, Provisioning, Removing
<1>4. CASE ReleaseHold(p)
  <2> DEFINE new == WithoutHold(prj[p])
  <2>1. /\ WellFormed(new)
        /\ new.finalizer <=> prj[p].finalizer
        /\ prj[p].deleting => new.deleting \/ ~new.finalizer
    BY <1>4, <1>a, ReleasedFields, AbsentFields DEF ReleaseHold
  <2>2. ChangeProject(p, new)
    BY <1>4 DEF ReleaseHold
  <2> HIDE DEF new
  <2>. QED BY <1>b, <2>1, <2>2
<1>5. CASE CreateProject(p)
  <2>1. PICK owners \in OwnerSets, held \in Holds :
          ChangeProject(p, NewObject(owners, held))
    BY <1>5 DEF CreateProject
  <2>2. ~prj[p].finalizer /\ ~prj[p].deleting
    BY <1>5 DEF CreateProject
  <2> DEFINE new == NewObject(owners, held)
  <2>3. new.present /\ ~new.finalizer
    BY DEF NewObject
  <2> HIDE DEF new
  <2>. QED BY <1>b, <2>1, <2>2, <2>3 DEF new
<1>6. CASE UpdateOwners(p)
  <2>1. \A owners \in OwnerSets : LET y == WithOwners(prj[p], owners) IN
          /\ y.finalizer = prj[p].finalizer /\ y.present = prj[p].present
          /\ y.deleting = prj[p].deleting
    BY <1>a DEF WithOwners, Object
  <2>. QED BY <1>6, <1>b, <2>1 DEF UpdateOwners
<1>7. CASE DeleteProject(p)
  <2> DEFINE new == Deleted(prj[p])
  <2>1. /\ WellFormed(new)
        /\ new.finalizer <=> prj[p].finalizer
        /\ prj[p].deleting => new.deleting \/ ~new.finalizer
    BY <1>7, <1>a, ReleasedFields, AbsentFields DEF DeleteProject
  <2>2. ChangeProject(p, new)
    BY <1>7 DEF DeleteProject
  <2> HIDE DEF new
  <2>. QED BY <1>b, <2>1, <2>2
<1>8. CASE ChangeBindings(p)
  BY <1>8 DEF ChangeBindings, Notify, TypeOK, Provisioning, Removing
<1>9. CASE FailCall(p)
  BY <1>9, FinalizerReturn DEF FailCall, ReturnError
<1>. QED BY <1>1, <1>2, <1>3, <1>4, <1>5, <1>6, <1>7, <1>8, <1>9 DEF Surrounding, Environment

LEMMA FinalizerNext == TypeOK /\ FinalizerInv /\ [Next]_vars => FinalizerInv'
<1>. SUFFICES ASSUME TypeOK, FinalizerInv, [Next]_vars, NEW x \in Projects
              PROVE  FinalizerInvOf(x)'
  BY DEF FinalizerInv
<1>0. FinalizerInvOf(x)
  BY DEF FinalizerInv
<1>1. CASE StartManager
  BY <1>0, <1>1, AbsentFields
  DEF StartManager, Latest, apiVars, TypeOK, FinalizerInvOf, CopiesKnown, CacheTells, CallTells,
      WellFormed, Provisioning, Removing
<1>2. CASE BecomeCalm \/ UNCHANGED vars
  BY <1>0, <1>2, FinalizerStays DEF BecomeCalm, Untouched, vars, apiVars, taskVars
<1>3. ASSUME NEW p \in Projects, Local(p) PROVE FinalizerInvOf(x)'
  <2>1. CASE x = p
    BY <1>0, <1>3, <2>1, FinalizerController, FinalizerSurrounding DEF Local
  <2>2. CASE x # p
    BY <1>0, <1>3, <2>2, Locality, FinalizerStays
  <2>. QED BY <2>1, <2>2
<1>. QED BY <1>1, <1>2, <1>3, Sources

\* From the first write of a call on, a copy that is current carries the finalizer,
\* as does every Project that a step of the set-up runs for.
THEOREM FinalizerInvariant == Spec => [](TypeOK /\ FinalizerInv)
<1>1. Init => FinalizerInv
  BY AbsentFields DEF Init, FinalizerInv, FinalizerInvOf, CopiesKnown, CacheTells,
     CallTells, WellFormed, Provisioning, Removing
<1>. QED BY <1>1, TypeCorrect, FinalizerNext, PTL DEF Spec

----------------------------------------------------------------------------
(* Ready means set up.  *)

\* How far the set-up has come at each step.
ReadyTells(p) ==
  prj[p].ready = "True" => prj[p].finalizer /\ prj[p].namespace

SetUpSoFar(p) ==
  /\ pc[p] \in {"listMembers", "updateMembers", "updateReady"} => obj[p].namespace
  /\ pc[p] \in {"deleteObjects", "removeFinalizer"} => obj[p].ready = "Terminating"

SetUpInvOf(p) == ReadyTells(p) /\ SetUpSoFar(p)
SetUpInv      == \A p \in Projects : SetUpInvOf(p)

LEMMA SetUpStays ==
  ASSUME NEW p \in Projects, SetUpInvOf(p),
         prj'[p] = prj[p], pc'[p] = pc[p], obj'[p] = obj[p]
  PROVE  SetUpInvOf(p)'
BY DEF SetUpInvOf, ReadyTells, SetUpSoFar

\* A call that returns leaves the Project as it is.
LEMMA SetUpReturn ==
  ASSUME TypeOK, NEW p \in Projects, SetUpInvOf(p), Return(p), prj'[p] = prj[p]
  PROVE  SetUpInvOf(p)'
<1>1. pc'[p] = "idle"
  BY DEF TypeOK, Return
<1>. QED BY <1>1 DEF SetUpInvOf, ReadyTells, SetUpSoFar

\* A write that gives, or keeps, what the next step counts on.
LEMMA SetUpWrite ==
  ASSUME TypeOK, NEW p \in Projects, FinalizerInvOf(p), SetUpInvOf(p),
         NEW new, NEW next, Write(p, new, next),
         new.ready = "True" => /\ obj[p].ready = "True"
                               /\ obj[p].finalizer => new.finalizer
                               /\ obj[p].namespace => new.namespace,
         next \in {"listMembers", "updateReady"} => new.namespace,
         next = "deleteObjects" => new.ready = "Terminating",
         next \notin {"updateMembers", "removeFinalizer"}
  PROVE  SetUpInvOf(p)'
<1>1. CASE current[p]
  <2>1. prj'[p] = new /\ obj'[p] = new /\ pc'[p] = next /\ obj[p] = prj[p]
    BY <1>1 DEF Accepts, Write, Goto, TypeOK, FinalizerInvOf, CopiesKnown
  <2>2. ReadyTells(p)'
    BY <2>1 DEF SetUpInvOf, ReadyTells
  <2>. QED BY <1>1, <2>1, <2>2 DEF SetUpInvOf, SetUpSoFar
<1>2. CASE ~current[p]
  BY <1>2, SetUpReturn DEF Accepts, Write, ReturnError
<1>. QED BY <1>1, <1>2

\* The last write of a call.
LEMMA SetUpWriteLast ==
  ASSUME TypeOK, NEW p \in Projects, SetUpInvOf(p), NEW new, WriteLast(p, new),
         new.ready = "True" => new.finalizer /\ new.namespace
  PROVE  SetUpInvOf(p)'
<1>1. CASE current[p]
  <2>1. prj'[p] = new /\ pc'[p] = "idle"
    BY <1>1 DEF Accepts, WriteLast, Return, TypeOK
  <2>. QED BY <2>1 DEF SetUpInvOf, ReadyTells, SetUpSoFar
<1>2. CASE ~current[p]
  BY <1>2, SetUpReturn DEF Accepts, WriteLast, ReturnError
<1>. QED BY <1>1, <1>2

LEMMA SetUpController ==
  ASSUME TypeOK, TypeOK', NEW p \in Projects, FinalizerInvOf(p), SetUpInvOf(p), Controller(p)
  PROVE  SetUpInvOf(p)'
<1>. USE DEF apiVars, taskVars
<1>a. obj[p] \in Object /\ prj[p] \in Object /\ subjects[p] \in SUBSET Subjects
  BY DEF TypeOK
<1>1. CASE Start(p)
  <2>1. prj' = prj
    BY <1>1 DEF Start
  <2>2. CASE ~cache[p].prj.present
    BY <1>1, <1>a, <2>1, <2>2, SetUpStays DEF Start
  <2>3. CASE cache[p].prj.present
    <3>1. /\ obj'[p] = cache[p].prj /\ pc'[p] = FirstStep(cache[p].prj)
      BY <1>1, <2>3 DEF Start, Goto, TypeOK
    <3>2. FirstStep(cache[p].prj) \in {"updateTerminating", "deleteObjects",
                                       "updateFinalizer", "reconcileNamespace"}
      BY DEF FirstStep
    <3>3. FirstStep(cache[p].prj) = "deleteObjects" => cache[p].prj.ready = "Terminating"
      BY DEF FirstStep
    <3>. QED BY <2>1, <3>1, <3>2, <3>3 DEF SetUpInvOf, ReadyTells, SetUpSoFar
  <2>. QED BY <2>2, <2>3
<1>2. CASE UpdateFinalizer(p)
  <2> DEFINE new == [obj[p] EXCEPT !.finalizer = TRUE]
  <2>1. new.ready = obj[p].ready /\ new.finalizer /\ new.namespace = obj[p].namespace
    BY <1>a, WrittenFields
  <2>2. Write(p, new, "reconcileNamespace")
    BY <1>2 DEF UpdateFinalizer
  <2> HIDE DEF new
  <2>. QED BY <2>1, <2>2, SetUpWrite
<1>3. CASE ReconcileNamespace(p)
  <2>1. prj' = prj
    BY <1>3 DEF ReconcileNamespace
  <2>2. CASE Return(p)
    BY <1>a, <2>1, <2>2, SetUpReturn
  <2>3. CASE /\ obj' = obj
             /\ Goto(p, IF obj[p].namespace THEN "listMembers" ELSE "updateNamespaceName")
    BY <2>1, <2>3 DEF Goto, TypeOK, SetUpInvOf, ReadyTells, SetUpSoFar
  <2>. QED BY <1>3, <2>2, <2>3 DEF ReconcileNamespace, ReturnError
<1>4. CASE UpdateNamespaceName(p)
  <2> DEFINE new == [obj[p] EXCEPT !.namespace = TRUE]
  <2>1. new.ready = obj[p].ready /\ new.finalizer = obj[p].finalizer /\ new.namespace
    BY <1>a, WrittenFields
  <2>2. Write(p, new, "listMembers")
    BY <1>4 DEF UpdateNamespaceName
  <2> HIDE DEF new
  <2>. QED BY <2>1, <2>2, SetUpWrite
<1>5. CASE ListMembers(p)
  BY <1>5 DEF ListMembers, Goto, TypeOK, SetUpInvOf, ReadyTells, SetUpSoFar
<1>6. CASE UpdateMembers(p)
  <2> DEFINE new == [obj[p] EXCEPT !.members = subjects[p]]
  <2>1. /\ new.ready = obj[p].ready /\ new.finalizer = obj[p].finalizer
        /\ new.namespace = obj[p].namespace
    BY <1>a, WrittenFields
  <2>2. obj[p].namespace /\ obj[p].finalizer
    BY <1>6 DEF UpdateMembers, SetUpInvOf, SetUpSoFar, FinalizerInvOf, CallTells, Provisioning
  <2>3. Write(p, new, "updateReady") \/ WriteLast(p, new)
    BY <1>6 DEF UpdateMembers
  <2> HIDE DEF new
  <2>. QED BY <2>1, <2>2, <2>3, SetUpWrite, SetUpWriteLast
<1>7. CASE UpdateReady(p)
  <2> DEFINE new == SetReady(obj[p], "True")
  <2>1. obj[p].finalizer /\ obj[p].namespace
    BY <1>7 DEF UpdateReady, FinalizerInvOf, CallTells, Provisioning, SetUpInvOf, SetUpSoFar
  <2>2. new.finalizer /\ new.namespace
    BY <1>a, <2>1, WrittenFields DEF ReadyCondition
  <2>3. WriteLast(p, new)
    BY <1>7 DEF UpdateReady
  <2> HIDE DEF new
  <2>. QED BY <2>2, <2>3, SetUpWriteLast
<1>8. CASE UpdateTerminating(p)
  <2> DEFINE new == SetReady(obj[p], "Terminating")
  <2>1. new.ready = "Terminating"
    BY <1>a, WrittenFields DEF ReadyCondition
  <2>2. Write(p, new, "deleteObjects")
    BY <1>8 DEF UpdateTerminating
  <2> HIDE DEF new
  <2>. QED BY <2>1, <2>2, SetUpWrite
<1>9. CASE DeleteObjects(p)
  <2>1. prj' = prj /\ pc[p] = "deleteObjects"
    BY <1>9 DEF DeleteObjects
  <2>2. CASE Return(p)
    BY <1>a, <2>1, <2>2, SetUpReturn
  <2>3. CASE Goto(p, "removeFinalizer") /\ obj' = obj
    BY <2>1, <2>3 DEF Goto, TypeOK, SetUpInvOf, ReadyTells, SetUpSoFar
  <2>. QED BY <1>9, <2>2, <2>3 DEF DeleteObjects
<1>10. CASE RemoveFinalizer(p)
  <2> DEFINE new == WithoutFinalizer(obj[p])
  <2>1. obj[p].ready = "Terminating"
    BY <1>10 DEF RemoveFinalizer, SetUpInvOf, SetUpSoFar
  <2>2. new.ready # "True"
    BY <1>a, <2>1, ReleasedFields, AbsentFields
  <2>3. WriteLast(p, new)
    BY <1>10 DEF RemoveFinalizer
  <2> HIDE DEF new
  <2>. QED BY <2>2, <2>3, SetUpWriteLast
<1>. QED
  BY <1>1, <1>2, <1>3, <1>4, <1>5, <1>6, <1>7, <1>8, <1>9, <1>10 DEF Controller, Continue

LEMMA SetUpSurrounding ==
  ASSUME TypeOK, TypeOK', NEW p \in Projects, FinalizerInvOf(p), SetUpInvOf(p),
         Surrounding(p)
  PROVE  SetUpInvOf(p)'
<1>. USE DEF apiVars, taskVars
<1>a. prj[p] \in Object /\ WellFormed(prj[p])
  BY DEF TypeOK, FinalizerInvOf, CopiesKnown
<1>b. ASSUME NEW new, ChangeProject(p, new),
             new.ready = "True" => /\ prj[p].ready = "True"
                                   /\ new.finalizer = prj[p].finalizer
                                   /\ new.namespace = prj[p].namespace
      PROVE  SetUpInvOf(p)'
  BY <1>b DEF ChangeProject, TypeOK, SetUpInvOf, ReadyTells, SetUpSoFar
<1>1. CASE \E kind \in Kinds : Deliver(p, kind)
  BY <1>1, SetUpStays DEF Deliver
<1>2. CASE PurgeNamespace(p) \/ RemoveNamespace(p) \/ DeleteNamespace(p)
           \/ ChangeBindings(p)
  BY <1>2, SetUpStays DEF PurgeNamespace, RemoveNamespace, DeleteNamespace, ChangeBindings
<1>3. CASE ReleaseHold(p)
  <2> DEFINE new == WithoutHold(prj[p])
  <2>1. new.ready = "True" => /\ prj[p].ready = "True"
                              /\ new.finalizer = prj[p].finalizer
                              /\ new.namespace = prj[p].namespace
    BY <1>a, ReleasedFields, AbsentFields
  <2>2. ChangeProject(p, new)
    BY <1>3 DEF ReleaseHold
  <2> HIDE DEF new
  <2>. QED BY <1>b, <2>1, <2>2
<1>4. CASE CreateProject(p)
  <2>1. PICK owners \in OwnerSets, held \in Holds :
          ChangeProject(p, NewObject(owners, held))
    BY <1>4 DEF CreateProject
  <2>2. NewObject(owners, held).ready # "True"
    BY DEF NewObject
  <2>. QED BY <1>b, <2>1, <2>2
<1>5. CASE UpdateOwners(p)
  <2>1. \A owners \in OwnerSets : LET y == WithOwners(prj[p], owners) IN
          /\ y.ready = prj[p].ready /\ y.finalizer = prj[p].finalizer
          /\ y.namespace = prj[p].namespace
    BY <1>a DEF WithOwners, Object
  <2>. QED BY <1>5, <1>b, <2>1 DEF UpdateOwners
<1>6. CASE DeleteProject(p)
  <2> DEFINE new == Deleted(prj[p])
  <2>1. new.ready = "True" => /\ prj[p].ready = "True"
                              /\ new.finalizer = prj[p].finalizer
                              /\ new.namespace = prj[p].namespace
    BY <1>a, ReleasedFields, AbsentFields
  <2>2. ChangeProject(p, new)
    BY <1>6 DEF DeleteProject
  <2> HIDE DEF new
  <2>. QED BY <1>b, <2>1, <2>2
<1>7. CASE FailCall(p)
  BY <1>7, SetUpReturn DEF FailCall, ReturnError
<1>. QED BY <1>1, <1>2, <1>3, <1>4, <1>5, <1>6, <1>7 DEF Surrounding, Environment

LEMMA SetUpNext ==
  TypeOK /\ TypeOK' /\ FinalizerInv /\ SetUpInv /\ [Next]_vars => SetUpInv'
<1>. SUFFICES ASSUME TypeOK, TypeOK', FinalizerInv, SetUpInv, [Next]_vars, NEW x \in Projects
              PROVE  SetUpInvOf(x)'
  BY DEF SetUpInv
<1>0. SetUpInvOf(x) /\ FinalizerInvOf(x)
  BY DEF SetUpInv, FinalizerInv
<1>1. CASE StartManager
  BY <1>0, <1>1 DEF StartManager, apiVars, SetUpInvOf, ReadyTells, SetUpSoFar
<1>2. CASE BecomeCalm \/ UNCHANGED vars
  BY <1>0, <1>2, SetUpStays DEF BecomeCalm, vars, apiVars, taskVars
<1>3. ASSUME NEW p \in Projects, Local(p) PROVE SetUpInvOf(x)'
  <2>1. CASE x = p
    BY <1>0, <1>3, <2>1, SetUpController, SetUpSurrounding DEF Local
  <2>2. CASE x # p
    BY <1>0, <1>3, <2>2, Locality, SetUpStays DEF Untouched
  <2>. QED BY <2>1, <2>2
<1>. QED BY <1>1, <1>2, <1>3, Sources

LEMMA SetUpInvariant == Spec => [](TypeOK /\ FinalizerInv /\ SetUpInv)
<1>1. Init => SetUpInv
  BY AbsentFields DEF Init, SetUpInv, SetUpInvOf, ReadyTells, SetUpSoFar
<1>. QED BY <1>1, FinalizerInvariant, SetUpNext, PTL DEF Spec

\* A Project that is declared ready has its finalizer and the name of
\* its namespace, whatever becomes of it later.
THEOREM ReadyIsSetUp == Spec => []ReadyMeansSetUp
<1>1. SetUpInv => ReadyMeansSetUp
  BY DEF SetUpInv, SetUpInvOf, ReadyTells, ReadyMeansSetUp
<1>. QED BY <1>1, SetUpInvariant, PTL

----------------------------------------------------------------------------
(* The refinement of GuardedOwnership: what a step makes of the phase of a  *)
(* Project, of its namespace, and of what the controller has looked at.     *)

LEMMA ControllerPasses ==
  ASSUME TypeOK, NEW p \in Projects, FinalizerInvOf(p), Controller(p)
  PROVE  Passes(PhaseOf(prj[p]), PhaseOf(prj'[p]), Cleared(p))
<1>. USE DEF apiVars, taskVars
<1>a. /\ obj[p] \in Object /\ prj[p] \in Object /\ subjects[p] \in SUBSET Subjects
      /\ (current[p] => obj[p] = prj[p])
  BY DEF TypeOK, FinalizerInvOf, CopiesKnown
<1>b. CASE prj'[p] = prj[p]
  BY <1>b DEF Passes
\* A write that keeps the marks.
<1>c. ASSUME NEW new, NEW next, Write(p, new, next), new.present = obj[p].present,
             new.deleting = obj[p].deleting, new.finalizer = obj[p].finalizer
      PROVE  Passes(PhaseOf(prj[p]), PhaseOf(prj'[p]), Cleared(p))
  <2>1. prj'[p] = prj[p] \/ (prj'[p] = new /\ obj[p] = prj[p])
    BY <1>a, <1>c DEF Write, Accepts, TypeOK
  <2>. QED BY <1>b, <1>c, <2>1 DEF Passes, PhaseOf
<1>1. CASE UpdateFinalizer(p)
  <2> DEFINE new == [obj[p] EXCEPT !.finalizer = TRUE]
  <2>1. new.finalizer /\ new.present = obj[p].present /\ new.deleting = obj[p].deleting
    BY <1>a, WrittenFields
  <2>2. obj[p].present /\ ~obj[p].deleting
    BY <1>1 DEF UpdateFinalizer, FinalizerInvOf, CallTells
  <2>3. prj'[p] = prj[p] \/ (prj'[p] = new /\ obj[p] = prj[p])
    BY <1>1, <1>a DEF UpdateFinalizer, Write, Accepts, TypeOK
  <2> HIDE DEF new
  <2>4. CASE prj'[p] = new /\ obj[p] = prj[p]
    <3>1. PhaseOf(prj'[p]) = "guarded"
      BY <2>1, <2>2, <2>4 DEF PhaseOf
    <3>2. PhaseOf(prj[p]) \in {"created", "guarded"}
      BY <1>a, <2>2, <2>4 DEF PhaseOf, Object
    <3>. QED BY <3>1, <3>2 DEF Passes
  <2>. QED BY <1>b, <2>3, <2>4
<1>2. CASE UpdateNamespaceName(p)
  <2> DEFINE new == [obj[p] EXCEPT !.namespace = TRUE]
  <2>1. /\ new.finalizer = obj[p].finalizer /\ new.present = obj[p].present
        /\ new.deleting = obj[p].deleting
    BY <1>a, WrittenFields
  <2>2. PICK next : Write(p, new, next)
    BY <1>2 DEF UpdateNamespaceName
  <2> HIDE DEF new
  <2>. QED BY <1>c, <2>1, <2>2
<1>3. CASE UpdateMembers(p)
  <2> DEFINE new == [obj[p] EXCEPT !.members = subjects[p]]
  <2>1. /\ new.finalizer = obj[p].finalizer /\ new.present = obj[p].present
        /\ new.deleting = obj[p].deleting
    BY <1>a, WrittenFields
  <2>2. prj'[p] = prj[p] \/ (prj'[p] = new /\ obj[p] = prj[p])
    BY <1>3, <1>a DEF UpdateMembers, Write, WriteLast, Accepts, TypeOK
  <2> HIDE DEF new
  <2>. QED BY <1>b, <2>1, <2>2 DEF Passes, PhaseOf
<1>4. CASE UpdateTerminating(p)
  <2> DEFINE new == SetReady(obj[p], "Terminating")
  <2>1. /\ new.finalizer = obj[p].finalizer /\ new.present = obj[p].present
        /\ new.deleting = obj[p].deleting
    BY <1>a, WrittenFields DEF ReadyCondition
  <2>2. PICK next : Write(p, new, next)
    BY <1>4 DEF UpdateTerminating
  <2> HIDE DEF new
  <2>. QED BY <1>c, <2>1, <2>2
<1>5. CASE UpdateReady(p)
  <2> DEFINE new == SetReady(obj[p], "True")
  <2>1. /\ new.finalizer = obj[p].finalizer /\ new.present = obj[p].present
        /\ new.deleting = obj[p].deleting
    BY <1>a, WrittenFields DEF ReadyCondition
  <2>2. prj'[p] = prj[p] \/ (prj'[p] = new /\ obj[p] = prj[p])
    BY <1>5, <1>a DEF UpdateReady, WriteLast, Accepts, TypeOK
  <2> HIDE DEF new
  <2>. QED BY <1>b, <2>1, <2>2 DEF Passes, PhaseOf
<1>6. CASE RemoveFinalizer(p)
  <2> DEFINE new == WithoutFinalizer(obj[p])
  <2>1. \/ new = NoObject
        \/ /\ ~new.finalizer /\ new.present = obj[p].present
           /\ new.deleting = obj[p].deleting
    BY <1>a, ReleasedFields
  <2>2. /\ obj[p].present /\ obj[p].deleting
        /\ prj[p].finalizer => Cleared(p)
    BY <1>6 DEF RemoveFinalizer, FinalizerInvOf, CallTells, Removing, Cleared
  <2>3. prj'[p] = prj[p] \/ (prj'[p] = new /\ obj[p] = prj[p])
    BY <1>6, <1>a DEF RemoveFinalizer, WriteLast, Accepts, TypeOK
  <2> HIDE DEF new
  <2>4. CASE prj'[p] = new /\ obj[p] = prj[p]
    <3>1. PhaseOf(prj'[p]) \in {"none", "leaving"}
      BY <2>1, <2>2, <2>4, AbsentFields DEF PhaseOf
    <3>2. PhaseOf(prj[p]) = IF prj[p].finalizer THEN "condemned" ELSE "leaving"
      BY <1>a, <2>2, <2>4 DEF PhaseOf, Object
    <3>. QED BY <2>2, <3>1, <3>2 DEF Passes
  <2>. QED BY <1>b, <2>3, <2>4
<1>7. CASE Start(p) \/ ReconcileNamespace(p) \/ ListMembers(p)
           \/ DeleteObjects(p)
  BY <1>7, <1>b DEF Start, ReconcileNamespace, ListMembers, DeleteObjects
<1>. QED BY <1>1, <1>2, <1>3, <1>4, <1>5, <1>6, <1>7 DEF Controller, Continue

LEMMA SurroundingPasses ==
  ASSUME TypeOK, NEW p \in Projects, FinalizerInvOf(p), Surrounding(p)
  PROVE  Passes(PhaseOf(prj[p]), PhaseOf(prj'[p]), Cleared(p))
<1>. USE DEF apiVars, taskVars
<1>a. prj[p] \in Object /\ WellFormed(prj[p])
  BY DEF TypeOK, FinalizerInvOf, CopiesKnown
<1>1. CASE (\E kind \in Kinds : Deliver(p, kind)) \/ PurgeNamespace(p) \/ RemoveNamespace(p)
           \/ ChangeBindings(p) \/ DeleteNamespace(p) \/ FailCall(p)
  <2>1. prj' = prj
    BY <1>1 DEF Deliver, PurgeNamespace, RemoveNamespace, ChangeBindings,
       DeleteNamespace, FailCall
  <2>. QED BY <2>1 DEF Passes
<1>2. CASE ReleaseHold(p)
  <2> DEFINE new == WithoutHold(prj[p])
  <2>1. /\ prj'[p] = new /\ prj[p].present /\ prj[p].deleting
    BY <1>2 DEF ReleaseHold, ChangeProject, TypeOK
  <2>2. \/ new = NoObject /\ ~prj[p].finalizer
        \/ /\ new.finalizer = prj[p].finalizer /\ new.present = prj[p].present
           /\ new.deleting = prj[p].deleting
    BY <1>a, ReleasedFields
  <2> HIDE DEF new
  <2>. QED BY <2>1, <2>2, AbsentFields DEF Passes, PhaseOf
<1>3. CASE CreateProject(p)
  <2>1. PICK owners \in OwnerSets, held \in Holds :
          ~prj[p].present /\ prj'[p] = NewObject(owners, held)
    BY <1>3 DEF CreateProject, ChangeProject, TypeOK
  <2>2. /\ NewObject(owners, held).present /\ ~NewObject(owners, held).deleting
        /\ ~NewObject(owners, held).finalizer
    BY DEF NewObject
  <2>. QED BY <2>1, <2>2 DEF Passes, PhaseOf
<1>4. CASE UpdateOwners(p)
  <2>1. PICK owners \in OwnerSets : prj'[p] = WithOwners(prj[p], owners)
    BY <1>4 DEF UpdateOwners, ChangeProject, TypeOK
  <2>2. /\ prj'[p].finalizer = prj[p].finalizer /\ prj'[p].present = prj[p].present
        /\ prj'[p].deleting = prj[p].deleting
    BY <1>a, <2>1 DEF WithOwners, Object
  <2>. QED BY <2>2 DEF Passes, PhaseOf
<1>5. CASE DeleteProject(p)
  <2> DEFINE new == Deleted(prj[p])
  <2>1. /\ prj'[p] = new /\ prj[p].present /\ ~prj[p].deleting
    BY <1>5 DEF DeleteProject, ChangeProject, TypeOK
  <2>2. \/ new = NoObject /\ ~prj[p].finalizer
        \/ /\ new.finalizer = prj[p].finalizer /\ new.present = prj[p].present
           /\ new.deleting
    BY <1>a, ReleasedFields
  <2> HIDE DEF new
  <2>3. PhaseOf(prj[p]) = IF prj[p].finalizer THEN "guarded" ELSE "created"
    BY <1>a, <2>1 DEF PhaseOf, Object
  <2>4. PhaseOf(new) = IF new = NoObject THEN "none"
                       ELSE IF prj[p].finalizer THEN "condemned" ELSE "leaving"
    BY <1>a, <2>1, <2>2, AbsentFields DEF PhaseOf, Object
  <2>5. new = NoObject => ~prj[p].finalizer
    BY <2>1, <2>2, AbsentFields
  <2>6. PhaseOf(prj'[p]) = PhaseOf(new)
    BY <2>1
  <2>. QED BY <2>3, <2>4, <2>5, <2>6 DEF Passes
<1>. QED BY <1>1, <1>2, <1>3, <1>4, <1>5 DEF Surrounding, Environment

\* No action changes both the Project and its namespace, and none creates
\* the namespace while the call is about to remove the finalizer.
LEMMA NamespaceTurns ==
  ASSUME TypeOK, FinalizerInv, NEW p \in Projects, Local(p), ns'[p] # ns[p]
  PROVE  /\ prj' = prj /\ Turns(ns[p], ns'[p], PhaseOf(prj[p]))
         /\ pc'[p] = "removeFinalizer" <=> pc[p] = "removeFinalizer"
         /\ ns[p] = "absent" => pc[p] # "removeFinalizer"
<1>. USE DEF apiVars, taskVars
<1>a. prj[p] \in Object
  BY DEF TypeOK
<1>1. CASE ReconcileNamespace(p)
  <2>1. prj' = prj /\ ns[p] = "absent" /\ ns'[p] = "active"
    BY <1>1 DEF ReconcileNamespace, SetNamespace, TypeOK
  <2>2. /\ prj[p].present /\ prj[p].finalizer
    BY <1>1, <1>a DEF ReconcileNamespace, FinalizerInv, FinalizerInvOf, CallTells, CopiesKnown,
       WellFormed, Provisioning
  <2>3. PhaseOf(prj[p]) \in {"guarded", "condemned"}
    BY <1>a, <2>2 DEF PhaseOf, Object
  <2>4. pc[p] = "reconcileNamespace" /\ pc'[p] # "removeFinalizer"
    BY <1>1 DEF ReconcileNamespace, Goto, ReturnError, Return, TypeOK
  <2>. QED BY <2>1, <2>3, <2>4 DEF Turns
<1>2. CASE DeleteObjects(p)
  <2>1. prj' = prj /\ ns[p] = "active" /\ ns'[p] = "terminating"
    BY <1>2 DEF DeleteObjects, SetNamespace, TypeOK
  <2>2. pc[p] = "deleteObjects" /\ pc'[p] = "idle"
    BY <1>2 DEF DeleteObjects, Return, TypeOK
  <2>. QED BY <2>1, <2>2 DEF Turns
<1>3. CASE DeleteNamespace(p) \/ RemoveNamespace(p)
  BY <1>3 DEF DeleteNamespace, RemoveNamespace, SetNamespace, TypeOK, Turns
<1>4. CASE Controller(p) /\ ~ReconcileNamespace(p) /\ ~DeleteObjects(p)
  BY <1>4 DEF Controller, Continue, Start, UpdateFinalizer, UpdateNamespaceName, ListMembers,
     UpdateMembers, UpdateReady, UpdateTerminating, RemoveFinalizer
<1>5. CASE (\E kind \in Kinds : Deliver(p, kind)) \/ PurgeNamespace(p) \/ ReleaseHold(p)
           \/ (Environment(p) /\ ~DeleteNamespace(p))
  BY <1>5 DEF Deliver, PurgeNamespace, ReleaseHold, Environment, CreateProject,
     UpdateOwners, DeleteProject, ChangeProject, ChangeBindings, FailCall
<1>. QED BY <1>1, <1>2, <1>3, <1>4, <1>5 DEF Local, Surrounding, Environment

\* The cache shows the namespace as before, or as it is now; and the finalizer is
\* about to be removed only after a look at the cache that showed none.
LooksOf(p) ==
  /\ \/ cache'[p].ns = cache[p].ns
     \/ cache'[p].ns = ns'[p] /\ prj' = prj
  /\ pc'[p] = "removeFinalizer"
       => \/ pc[p] = "removeFinalizer"
          \/ /\ pc[p] = "deleteObjects" /\ cache[p].ns = "absent"
             /\ UNCHANGED <<prj, ns, cache>>

LEMMA LooksController ==
  ASSUME TypeOK, NEW p \in Projects, Controller(p)
  PROVE  LooksOf(p)
<1>. USE DEF apiVars, taskVars
<1>a. ASSUME cache' = cache, pc'[p] # "removeFinalizer"
      PROVE  LooksOf(p)
  BY <1>a DEF LooksOf
<1>1. CASE Start(p)
  <2>1. pc'[p] = pc[p] \/ pc'[p] = FirstStep(cache[p].prj)
    BY <1>1 DEF Start, Goto, TypeOK
  <2>2. FirstStep(cache[p].prj) # "removeFinalizer"
    BY DEF FirstStep, TypeOK, View, Object
  <2>. QED BY <1>1, <1>a, <2>1, <2>2 DEF Start
<1>b. ASSUME NEW new, NEW next, Write(p, new, next), next # "removeFinalizer", cache' = cache
      PROVE  LooksOf(p)
  BY <1>a, <1>b DEF Write, Goto, ReturnError, Return, TypeOK
<1>c. ASSUME NEW new, WriteLast(p, new), cache' = cache
      PROVE  LooksOf(p)
  BY <1>a, <1>c DEF WriteLast, ReturnError, Return, TypeOK
<1>2. CASE UpdateFinalizer(p) \/ UpdateNamespaceName(p) \/ UpdateTerminating(p)
  BY <1>2, <1>b DEF UpdateFinalizer, UpdateNamespaceName, UpdateTerminating
<1>3. CASE ReconcileNamespace(p)
  <2>1. pc'[p] # "removeFinalizer" /\ prj' = prj
    BY <1>3 DEF ReconcileNamespace, Goto, ReturnError, Return, TypeOK
  <2>2. cache' = cache \/ SetNamespace(p, "active")
    BY <1>3 DEF ReconcileNamespace
  <2>3. SetNamespace(p, "active") => cache'[p].ns = cache[p].ns \/ cache'[p].ns = ns'[p]
    BY DEF SetNamespace, TypeOK, View
  <2>. QED BY <1>a, <2>1, <2>2, <2>3 DEF LooksOf
<1>4. CASE ListMembers(p)
  BY <1>4, <1>a DEF ListMembers, Goto, TypeOK
<1>5. CASE UpdateMembers(p) \/ UpdateReady(p) \/ RemoveFinalizer(p)
  BY <1>5, <1>b, <1>c DEF UpdateMembers, UpdateReady, RemoveFinalizer
<1>6. CASE DeleteObjects(p)
  <2>1. CASE CleanedUp(p)
    <3>1. cache[p].ns = "absent"
      BY <2>1 DEF CleanedUp
    <3>2. UNCHANGED <<prj, ns, cache>> /\ pc[p] = "deleteObjects"
      BY <1>6, <2>1 DEF DeleteObjects
    <3>. QED BY <3>1, <3>2 DEF LooksOf
  <2>2. CASE ~CleanedUp(p)
    <3>1. pc'[p] = "idle" /\ prj' = prj
      BY <1>6, <2>2 DEF DeleteObjects, Return, TypeOK
    <3>2. cache' = cache \/ SetNamespace(p, "terminating")
      BY <1>6, <2>2 DEF DeleteObjects
    <3>3. SetNamespace(p, "terminating") => cache'[p].ns = cache[p].ns \/ cache'[p].ns = ns'[p]
      BY DEF SetNamespace, TypeOK, View
    <3>. QED BY <1>a, <3>1, <3>2, <3>3 DEF LooksOf
  <2>. QED BY <2>1, <2>2
<1>. QED BY <1>1, <1>2, <1>3, <1>4, <1>5, <1>6 DEF Controller, Continue

LEMMA LooksSurrounding ==
  ASSUME TypeOK, NEW p \in Projects, Surrounding(p)
  PROVE  LooksOf(p)
<1>. USE DEF apiVars, taskVars
<1>1. ASSUME NEW kind \in Kinds, Deliver(p, kind) PROVE LooksOf(p)
  <2>1. prj' = prj /\ ns' = ns /\ pc' = pc /\ cache[p] \in View
    BY <1>1 DEF Deliver, TypeOK
  <2>2. CASE kind = "Namespace"
    <3>1. cache'[p] = [cache[p] EXCEPT !.ns = ns[p]]
      BY <1>1, <2>2 DEF Deliver, TypeOK
    <3>. QED BY <2>1, <3>1 DEF LooksOf, View
  <2>3. CASE kind # "Namespace"
    <3>1. \/ cache'[p] = [cache[p] EXCEPT !.prj = prj[p]]
          \/ cache'[p] = [cache[p] EXCEPT !.bindings = bindings[p]]
      BY <1>1, <2>3 DEF Deliver, TypeOK, Kinds
    <3>. QED BY <2>1, <3>1 DEF LooksOf, View
  <2>. QED BY <2>2, <2>3
<1>2. CASE RemoveNamespace(p) \/ DeleteNamespace(p)
  <2>1. prj' = prj /\ pc' = pc /\ \E phase : SetNamespace(p, phase)
    BY <1>2 DEF RemoveNamespace, DeleteNamespace
  <2>2. ASSUME NEW phase, SetNamespace(p, phase)
        PROVE  cache'[p].ns = cache[p].ns \/ cache'[p].ns = ns'[p]
    BY <2>2 DEF SetNamespace, TypeOK, View
  <2>. QED BY <2>1, <2>2 DEF LooksOf
<1>3. CASE PurgeNamespace(p) \/ ChangeBindings(p)
  BY <1>3 DEF PurgeNamespace, ChangeBindings, LooksOf
<1>4. CASE ReleaseHold(p) \/ CreateProject(p) \/ UpdateOwners(p) \/ DeleteProject(p)
  BY <1>4 DEF ReleaseHold, CreateProject, UpdateOwners, DeleteProject,
     ChangeProject, LooksOf
<1>5. CASE FailCall(p)
  BY <1>5 DEF FailCall, ReturnError, Return, LooksOf, TypeOK
<1>. QED BY <1>1, <1>2, <1>3, <1>4, <1>5 DEF Surrounding, Environment

\* Who is about to be released is condemned; the phases with the finalizer are
\* the two.
LEMMA ClearedIsCondemned ==
  ASSUME TypeOK, NEW p \in Projects, FinalizerInvOf(p)
  PROVE  /\ Cleared(p) => PhaseOf(prj[p]) = "condemned"
         /\ prj[p].finalizer <=> PhaseOf(prj[p]) \in {"guarded", "condemned"}
<1>1. prj[p] \in Object /\ WellFormed(prj[p])
  BY DEF TypeOK, FinalizerInvOf, CopiesKnown
<1>2. Cleared(p) => prj[p].finalizer /\ prj[p].deleting
  BY DEF Cleared, FinalizerInvOf, CallTells, Removing
<1>. QED BY <1>1, <1>2 DEF PhaseOf, WellFormed, Object

LEMMA ClearedIsCondemnedNext ==
  ASSUME TypeOK', NEW p \in Projects, FinalizerInvOf(p)', Cleared(p)'
  PROVE  PhaseOf(prj'[p]) = "condemned"
<1>1. prj'[p] \in Object /\ WellFormed(prj'[p])
  BY DEF TypeOK, FinalizerInvOf, CopiesKnown, WellFormed
<1>2. prj'[p].finalizer /\ prj'[p].deleting
  BY DEF Cleared, FinalizerInvOf, CallTells, Removing
<1>. QED BY <1>1, <1>2 DEF PhaseOf, WellFormed, Object

\* A call that is about to release a Project of another phase is not.
LEMMA NotClearedByPassing ==
  ASSUME TypeOK, TypeOK', NEW p \in Projects, FinalizerInvOf(p), FinalizerInvOf(p)', LooksOf(p),
         Passes(PhaseOf(prj[p]), PhaseOf(prj'[p]), Cleared(p)),
         PhaseOf(prj[p]) # PhaseOf(prj'[p])
  PROVE  ~Cleared(p)'
<1>. SUFFICES ASSUME Cleared(p)' PROVE FALSE
  OBVIOUS
<1>1. PhaseOf(prj'[p]) = "condemned" /\ pc'[p] = "removeFinalizer"
  BY ClearedIsCondemnedNext DEF Cleared
<1>2. PhaseOf(prj[p]) = "guarded"
  BY <1>1 DEF Passes
<1>3. prj[p].finalizer /\ ~prj[p].deleting
  <2>1. prj[p].finalizer
    BY <1>2, ClearedIsCondemned
  <2>2. prj[p] \in Object
    BY DEF TypeOK
  <2>. QED BY <1>2, <2>1, <2>2 DEF PhaseOf, Object
<1>4. pc[p] = "removeFinalizer"
  <2>1. prj' # prj
    OBVIOUS
  <2>. QED BY <1>1, <2>1 DEF LooksOf
<1>. QED BY <1>3, <1>4 DEF FinalizerInvOf, CallTells, Removing

LEMMA OwnershipNext ==
  TypeOK /\ FinalizerInv /\ [Next]_vars => [Ownership!Next]_(Ownership!vars)
<1>. SUFFICES ASSUME TypeOK, FinalizerInv, [Next]_vars
              PROVE  [Ownership!Next]_(Ownership!vars)
  OBVIOUS
<1>. DEFINE phase   == [y \in Projects |-> PhaseOf(prj[y])]
            shown   == [y \in Projects |-> cache[y].ns]
            cleared == {y \in Projects : Cleared(y)}
<1>a. TypeOK' /\ FinalizerInv'
  BY NextTypes, FinalizerNext
<1>b. /\ ns \in [Projects -> NamespacePhase] /\ ns' \in [Projects -> NamespacePhase]
  BY <1>a DEF TypeOK
<1>c. ASSUME phase' = phase, ns' = ns, cleared' \in SUBSET cleared, NEW X \in SUBSET Projects,
             shown' = [y \in Projects |-> IF y \in X THEN ns[y] ELSE shown[y]]
      PROVE  [Ownership!Next]_(Ownership!vars)
  <2>1. Ownership!CatchUp
    BY <1>c DEF Ownership!CatchUp
  <2>. QED BY <2>1 DEF Ownership!Next
<1>1. CASE StartManager
  <2>1. prj' = prj /\ ns' = ns
    BY <1>1 DEF StartManager, apiVars
  <2>2. phase' = phase
    BY <2>1
  <2>3. cleared' = {}
    BY <1>1 DEF StartManager, Cleared
  <2>4. \A y \in Projects : cache'[y].ns = ns[y]
    BY <1>1 DEF StartManager, Latest
  <2>5. shown' = [y \in Projects |-> IF y \in Projects THEN ns[y] ELSE shown[y]]
    BY <2>4
  <2>6. cleared' \in SUBSET cleared
    BY <2>3
  <2> HIDE DEF phase, shown, cleared
  <2>. QED BY <1>c, <2>1, <2>2, <2>5, <2>6
<1>2. CASE BecomeCalm \/ UNCHANGED vars
  <2>1. UNCHANGED <<prj, ns, cache, pc>>
    BY <1>2 DEF BecomeCalm, vars, apiVars, taskVars
  <2>2. phase' = phase /\ shown' = shown /\ cleared' = cleared
    BY <2>1 DEF Cleared
  <2>. QED BY <2>1, <2>2 DEF Ownership!vars
<1>3. ASSUME NEW p \in Projects, Local(p)
      PROVE  [Ownership!Next]_(Ownership!vars)
  <2>a. FinalizerInvOf(p) /\ FinalizerInvOf(p)'
    BY <1>a DEF FinalizerInv
  <2>b. \A x \in Projects : x # p => /\ prj'[x] = prj[x] /\ ns'[x] = ns[x]
                                 /\ cache'[x] = cache[x] /\ pc'[x] = pc[x]
    BY <1>3, Locality DEF Untouched
  <2>c. \A x \in Projects : x # p => (Cleared(x)' <=> Cleared(x))
    BY <2>b DEF Cleared
  <2>d. LooksOf(p)
    BY <1>3, LooksController, LooksSurrounding DEF Local
  <2>e. Passes(PhaseOf(prj[p]), PhaseOf(prj'[p]), Cleared(p))
    BY <1>3, <2>a, ControllerPasses, SurroundingPasses DEF Local
  <2>f. phase' = [phase EXCEPT ![p] = PhaseOf(prj'[p])]
    BY <2>b
  <2>g. phase[p] = PhaseOf(prj[p]) /\ shown[p] = cache[p].ns /\ (p \in cleared <=> Cleared(p))
    OBVIOUS
  <2>h. shown' = [shown EXCEPT ![p] = cache'[p].ns]
    BY <2>b
  <2>i. /\ ~Cleared(p)' => cleared' = cleared \ {p}
        /\ Cleared(p)' => cleared' = cleared \cup {p}
    BY <2>c
  <2>1. CASE ns'[p] # ns[p]
    <3>1. /\ prj' = prj /\ Turns(ns[p], ns'[p], PhaseOf(prj[p]))
          /\ pc'[p] = "removeFinalizer" <=> pc[p] = "removeFinalizer"
          /\ ns[p] = "absent" => pc[p] # "removeFinalizer"
      BY <1>3, <2>1, NamespaceTurns
    <3>2. phase' = phase
      BY <3>1
    <3>3. Cleared(p)' <=> Cleared(p)
      BY <3>1 DEF Cleared
    <3>4. cleared' = cleared
      BY <2>c, <3>3
    <3>5. ns[p] = "absent" => p \notin cleared
      BY <3>1 DEF Cleared
    <3>6. ns' = [ns EXCEPT ![p] = ns'[p]]
      BY <1>b, <2>b
    <3>7. shown' \in {shown, [shown EXCEPT ![p] = ns'[p]]}
      <4>1. CASE cache'[p].ns = cache[p].ns
        BY <2>h, <4>1
      <4>2. CASE cache'[p].ns = ns'[p]
        BY <2>h, <4>2
      <4>. QED BY <2>d, <4>1, <4>2 DEF LooksOf
    <3> HIDE DEF phase, shown, cleared
    <3>8. Ownership!Provision(p) \/ Ownership!Reclaim(p) \/ Ownership!Vanish(p)
      BY <2>1, <2>g, <3>1, <3>2, <3>4, <3>5, <3>6, <3>7
         DEF Turns, Ownership!Provision, Ownership!Reclaim, Ownership!Vanish, Ownership!Turn,
             phase, shown, cleared
    <3>. QED BY <3>8 DEF Ownership!Next
  <2>2. CASE ns'[p] = ns[p] /\ PhaseOf(prj'[p]) # PhaseOf(prj[p])
    <3>1. ns' = ns
      BY <1>b, <2>2, <2>b
    <3>2. prj' # prj
      BY <2>2
    <3>3. shown' = shown
      BY <2>d, <2>h, <3>2 DEF LooksOf
    <3>4. cleared' = cleared \ {p}
      BY <1>a, <2>2, <2>a, <2>d, <2>e, <2>i, NotClearedByPassing
    <3>5. \/ Ownership!Create(p) \/ Ownership!Guard(p) \/ Ownership!Condemn(p)
          \/ Ownership!Abandon(p) \/ Ownership!Release(p) \/ Ownership!Leave(p)
      BY <2>2, <2>e, <2>f, <2>g, <3>1, <3>3, <3>4
         DEF Passes, Ownership!Create, Ownership!Guard, Ownership!Condemn,
             Ownership!Abandon, Ownership!Release, Ownership!Leave, Ownership!Pass
    <3>. QED BY <3>5 DEF Ownership!Next
  <2>3. CASE ns'[p] = ns[p] /\ PhaseOf(prj'[p]) = PhaseOf(prj[p])
    <3>1. ns' = ns /\ phase' = phase
      BY <1>b, <2>3, <2>b, <2>f
    <3>2. CASE Cleared(p)' => Cleared(p)
      <4>1. cleared' \in SUBSET cleared
        BY <2>c, <3>2
      <4>2. CASE cache'[p].ns = cache[p].ns
        <5>1. shown' = [y \in Projects |-> IF y \in {} THEN ns[y] ELSE shown[y]]
          BY <2>h, <4>2
        <5>2. {} \in SUBSET Projects
          OBVIOUS
        <5> HIDE DEF phase, shown, cleared
        <5>. QED BY <1>c, <3>1, <4>1, <5>1, <5>2
      <4>3. CASE cache'[p].ns = ns[p]
        <5>1. shown' = [y \in Projects |-> IF y \in {p} THEN ns[y] ELSE shown[y]]
          BY <2>h, <4>3
        <5>2. {p} \in SUBSET Projects
          OBVIOUS
        <5> HIDE DEF phase, shown, cleared
        <5>. QED BY <1>c, <3>1, <4>1, <5>1, <5>2
      <4>. QED BY <2>3, <2>d, <4>2, <4>3 DEF LooksOf
    <3>3. CASE Cleared(p)' /\ ~Cleared(p)
      <4>1. PhaseOf(prj[p]) = "condemned" /\ prj[p].finalizer
        <5>1. PhaseOf(prj'[p]) = "condemned"
          BY <1>a, <2>a, <3>3, ClearedIsCondemnedNext
        <5>. QED BY <2>3, <2>a, <5>1, ClearedIsCondemned
      <4>2. cache[p].ns = "absent" /\ cache' = cache
        BY <2>d, <3>3, <4>1 DEF Cleared, LooksOf
      <4>3. shown' = shown
        BY <4>2
      <4>4. cleared' = cleared \cup {p}
        BY <2>i, <3>3
      <4>5. Ownership!Clear(p)
        BY <2>g, <3>1, <4>1, <4>2, <4>3, <4>4 DEF Ownership!Clear
      <4>. QED BY <4>5 DEF Ownership!Next
    <3>. QED BY <3>2, <3>3
  <2>. QED BY <2>1, <2>2, <2>3
<1>. QED BY <1>1, <1>2, <1>3, Sources

\* The Project controller implements the abstract promise, with informers that
\* lag as they please: every step of the controller, the API server, the users and
\* the faults is a step of GuardedOwnership or a stutter.
THEOREM OwnershipIsKept == Spec => KeepsOwnership
<1>1. Init => Ownership!Init
  <2>1. PhaseOf(NoObject) = "none"
    BY AbsentFields DEF PhaseOf
  <2>. QED BY <2>1 DEF Init, Ownership!Init, Cleared
<1>. QED BY <1>1, FinalizerInvariant, OwnershipNext, PTL DEF Spec, KeepsOwnership, Ownership!Spec

----------------------------------------------------------------------------
(* The controller rests only where it has nothing left to do. *)

\* What has not changed since it was shown is shown as it is.
Shown(p) ==
  /\ "Namespace" \notin pending[p] => cache[p].ns = ns[p]
  /\ "RoleBinding" \notin pending[p] => cache[p].bindings = bindings[p]

\* A Project marked for deletion stays only as long as a finalizer does.
Lingers(p) == prj[p].deleting => prj[p].finalizer \/ prj[p].held

\* A call that is not to run again works with what the caches show: every event
\* that changes them queues the Project.
WorkStands(p) ==
  p \notin queue =>
    /\ pc[p] # "idle" /\ "Project" \notin pending[p] => obj[p] = prj[p]
    /\ pc[p] \in Provisioning \ {"reconcileNamespace"} /\ "Namespace" \notin pending[p]
         => cache[p].ns # "absent"
    /\ pc[p] = "updateMembers" => subjects[p] = cache[p].bindings
    /\ pc[p] = "updateReady" => obj[p].members = cache[p].bindings

RestsConverged(p) == Quiescent(p) => Converged(p)

RestInvOf(p) == Shown(p) /\ Lingers(p) /\ WorkStands(p) /\ RestsConverged(p)
RestInv      == \A p \in Projects : RestInvOf(p)

\* Each informer is behind only as long as an event of its kind is on the way.
LEMMA NamespaceEvent ==
  ASSUME TypeOK, NEW p \in Projects, Shown(p), NEW phase, SetNamespace(p, phase),
         bindings' = bindings
  PROVE  /\ Shown(p)' /\ pending[p] \subseteq pending'[p]
         /\ \/ p \in queue'
            \/ "Namespace" \in pending'[p] /\ cache' = cache /\ queue' = queue
<1>1. CASE NamespaceLag
  BY <1>1 DEF SetNamespace, Notify, Shown, TypeOK
<1>2. CASE ~NamespaceLag
  <2>1. /\ ns'[p] = phase /\ p \in queue' /\ pending' = pending
        /\ cache'[p] = [cache[p] EXCEPT !.ns = phase]
    BY <1>2 DEF SetNamespace, Requests, TypeOK
  <2>2. cache'[p].ns = phase /\ cache'[p].bindings = cache[p].bindings
    BY <2>1 DEF TypeOK, View
  <2>. QED BY <2>1, <2>2 DEF Shown
<1>. QED BY <1>1, <1>2

LEMMA ShownController ==
  ASSUME TypeOK, NEW p \in Projects, Shown(p), Controller(p)
  PROVE  Shown(p)'
<1>. USE DEF apiVars, taskVars
<1>1. CASE /\ UNCHANGED <<ns, bindings, cache>>
           /\ (UNCHANGED pending \/ Notify(p, "Project"))
  BY <1>1 DEF Shown, Notify, TypeOK
<1>2. CASE \/ Start(p) \/ UpdateFinalizer(p) \/ UpdateNamespaceName(p) \/ ListMembers(p)
           \/ UpdateMembers(p) \/ UpdateReady(p) \/ UpdateTerminating(p)
           \/ RemoveFinalizer(p)
  BY <1>1, <1>2 DEF Start, UpdateFinalizer, UpdateNamespaceName, ListMembers, UpdateMembers,
     UpdateReady, UpdateTerminating, RemoveFinalizer, Write, WriteLast
<1>3. CASE ReconcileNamespace(p) \/ DeleteObjects(p)
  BY <1>1, <1>3, NamespaceEvent DEF ReconcileNamespace, DeleteObjects
<1>. QED BY <1>2, <1>3 DEF Controller, Continue

LEMMA ShownSurrounding ==
  ASSUME TypeOK, NEW p \in Projects, Shown(p), Surrounding(p)
  PROVE  Shown(p)'
<1>. USE DEF apiVars, taskVars
<1>1. CASE UNCHANGED <<ns, bindings, cache>> /\ pending[p] \subseteq pending'[p]
  BY <1>1 DEF Shown
<1>2. ASSUME NEW kind \in Kinds, Deliver(p, kind) PROVE Shown(p)'
  <2>a. /\ pending'[p] = pending[p] \ {kind}
        /\ UNCHANGED <<ns, bindings>> /\ cache[p] \in View
    BY <1>2 DEF Deliver, TypeOK
  <2>1. CASE kind = "Project"
    <3>1. cache'[p] = [cache[p] EXCEPT !.prj = prj[p]]
      BY <1>2, <2>1 DEF Deliver, TypeOK
    <3>. QED BY <2>1, <2>a, <3>1 DEF Shown, View
  <2>2. CASE kind = "Namespace"
    <3>1. cache'[p] = [cache[p] EXCEPT !.ns = ns[p]]
      BY <1>2, <2>2 DEF Deliver, TypeOK
    <3>. QED BY <2>2, <2>a, <3>1 DEF Shown, View
  <2>3. CASE kind = "RoleBinding"
    <3>1. cache'[p] = [cache[p] EXCEPT !.bindings = bindings[p]]
      BY <1>2, <2>3 DEF Deliver, TypeOK
    <3>. QED BY <2>3, <2>a, <3>1 DEF Shown, View
  <2>. QED BY <2>1, <2>2, <2>3 DEF Kinds
<1>3. CASE PurgeNamespace(p) \/ ChangeBindings(p)
  BY <1>3 DEF PurgeNamespace, ChangeBindings, Notify, Shown, TypeOK
<1>4. CASE RemoveNamespace(p) \/ DeleteNamespace(p)
  BY <1>4, NamespaceEvent DEF RemoveNamespace, DeleteNamespace
<1>5. CASE ReleaseHold(p) \/ CreateProject(p) \/ UpdateOwners(p) \/ DeleteProject(p)
  <2>1. \E new : ChangeProject(p, new)
    BY <1>5 DEF ReleaseHold, CreateProject, UpdateOwners, DeleteProject
  <2>. QED BY <1>1, <2>1 DEF ChangeProject, Notify, TypeOK
<1>6. CASE FailCall(p)
  BY <1>1, <1>6 DEF FailCall
<1>. QED BY <1>2, <1>3, <1>4, <1>5, <1>6 DEF Surrounding, Environment

\* What becomes of the finalizers.
LEMMA LingersNext ==
  ASSUME TypeOK, NEW p \in Projects, FinalizerInvOf(p), Lingers(p), Local(p)
  PROVE  Lingers(p)'
<1>. USE DEF apiVars, taskVars
<1>a. /\ prj[p] \in Object /\ obj[p] \in Object /\ subjects[p] \in SUBSET Subjects
      /\ current[p] => obj[p] = prj[p]
  BY DEF TypeOK, FinalizerInvOf, CopiesKnown
<1>1. CASE prj'[p] = prj[p]
  BY <1>1 DEF Lingers
<1>b. ASSUME NEW new, NEW next, Write(p, new, next) \/ WriteLast(p, new),
             obj[p] = prj[p] /\ new.deleting => new.finalizer \/ new.held
      PROVE  Lingers(p)'
  BY <1>1, <1>a, <1>b DEF Write, WriteLast, Accepts, Lingers, TypeOK
<1>c. ASSUME NEW new, ChangeProject(p, new), new.deleting => new.finalizer \/ new.held
      PROVE  Lingers(p)'
  BY <1>c DEF ChangeProject, Lingers, TypeOK
<1>2. CASE UpdateFinalizer(p)
  BY <1>2, <1>a, <1>b, WrittenFields DEF UpdateFinalizer
<1>3. CASE UpdateNamespaceName(p)
  <2> DEFINE new == [obj[p] EXCEPT !.namespace = TRUE]
  <2>1. /\ new.deleting = obj[p].deleting /\ new.finalizer = obj[p].finalizer
        /\ new.held = obj[p].held
    BY <1>a, WrittenFields
  <2>2. PICK next : Write(p, new, next)
    BY <1>3 DEF UpdateNamespaceName
  <2> HIDE DEF new
  <2>. QED BY <1>b, <2>1, <2>2 DEF Lingers
<1>4. CASE UpdateMembers(p)
  <2> DEFINE new == [obj[p] EXCEPT !.members = subjects[p]]
  <2>1. /\ new.deleting = obj[p].deleting /\ new.finalizer = obj[p].finalizer
        /\ new.held = obj[p].held
    BY <1>a, WrittenFields
  <2>2. PICK next : Write(p, new, next) \/ WriteLast(p, new)
    BY <1>4 DEF UpdateMembers
  <2> HIDE DEF new
  <2>. QED BY <1>b, <2>1, <2>2 DEF Lingers
<1>5. CASE UpdateTerminating(p)
  <2> DEFINE new == SetReady(obj[p], "Terminating")
  <2>1. /\ new.deleting = obj[p].deleting /\ new.finalizer = obj[p].finalizer
        /\ new.held = obj[p].held
    BY <1>a, WrittenFields DEF ReadyCondition
  <2>2. PICK next : Write(p, new, next)
    BY <1>5 DEF UpdateTerminating
  <2> HIDE DEF new
  <2>. QED BY <1>b, <2>1, <2>2 DEF Lingers
<1>6. CASE UpdateReady(p)
  <2> DEFINE new == SetReady(obj[p], "True")
  <2>1. /\ new.deleting = obj[p].deleting /\ new.finalizer = obj[p].finalizer
        /\ new.held = obj[p].held
    BY <1>a, WrittenFields DEF ReadyCondition
  <2>2. WriteLast(p, new)
    BY <1>6 DEF UpdateReady
  <2> HIDE DEF new
  <2>. QED BY <1>b, <2>1, <2>2 DEF Lingers
<1>7. CASE RemoveFinalizer(p)
  <2> DEFINE new == WithoutFinalizer(obj[p])
  <2>1. new.deleting => new.held
    BY <1>a, ReleasedFields, AbsentFields
  <2>2. WriteLast(p, new)
    BY <1>7 DEF RemoveFinalizer
  <2> HIDE DEF new
  <2>. QED BY <1>b, <2>1, <2>2
<1>8. CASE \/ Start(p) \/ ReconcileNamespace(p) \/ ListMembers(p)
           \/ DeleteObjects(p) \/ (\E kind \in Kinds : Deliver(p, kind))
           \/ PurgeNamespace(p) \/ RemoveNamespace(p)
           \/ ChangeBindings(p) \/ DeleteNamespace(p) \/ FailCall(p)
  BY <1>8, <1>1 DEF Start, ReconcileNamespace, ListMembers, DeleteObjects, Deliver,
     PurgeNamespace, RemoveNamespace, ChangeBindings, DeleteNamespace, FailCall
<1>9. CASE ReleaseHold(p)
  <2>1. LET y == WithoutHold(prj[p]) IN y.deleting => y.finalizer
    BY <1>a, ReleasedFields, AbsentFields
  <2>. QED BY <1>9, <1>c, <2>1 DEF ReleaseHold
<1>10. CASE CreateProject(p)
  <2>1. \A owners \in OwnerSets, held \in Holds : ~NewObject(owners, held).deleting
    BY DEF NewObject
  <2>. QED BY <1>10, <1>c, <2>1 DEF CreateProject
<1>11. CASE UpdateOwners(p)
  <2>1. \A owners \in OwnerSets : LET y == WithOwners(prj[p], owners) IN
          y.deleting = prj[p].deleting /\ y.finalizer = prj[p].finalizer /\ y.held = prj[p].held
    BY <1>a DEF WithOwners, Object
  <2>. QED BY <1>11, <1>c, <2>1 DEF UpdateOwners, Lingers
<1>12. CASE DeleteProject(p)
  <2>1. LET y == Deleted(prj[p]) IN y.deleting => y.finalizer \/ y.held
    BY <1>12, <1>a, ReleasedFields, AbsentFields DEF DeleteProject
  <2>. QED BY <1>12, <1>c, <2>1 DEF DeleteProject
<1>. QED
  BY <1>2, <1>3, <1>4, <1>5, <1>6, <1>7, <1>8, <1>9, <1>10, <1>11, <1>12
  DEF Local, Surrounding, Controller, Continue, Environment

\* What is left alone stands.
LEMMA WorkStays ==
  ASSUME NEW p \in Projects, WorkStands(p), cache'[p] = cache[p], pc'[p] = pc[p],
         obj'[p] = obj[p], subjects'[p] = subjects[p], p \in queue' <=> p \in queue,
         pending[p] \subseteq pending'[p], prj'[p] = prj[p] \/ "Project" \in pending'[p]
  PROVE  WorkStands(p)'
BY DEF WorkStands

\* So does what a call writes, if it was listed from the cache.
LEMMA WorkWrite ==
  ASSUME TypeOK, NEW p \in Projects, WorkStands(p), NEW new, NEW next, Write(p, new, next),
         cache' = cache, next # "updateMembers",
         next \in Provisioning \ {"reconcileNamespace"}
           => pc[p] \in Provisioning \ {"reconcileNamespace"},
         next = "updateReady" /\ p \notin queue => new.members = cache[p].bindings
  PROVE  WorkStands(p)'
<1>1. CASE Accepts(p)
  <2>1. /\ prj'[p] = new /\ obj'[p] = new /\ pc'[p] = next /\ queue' = queue
        /\ "Namespace" \in pending[p] => "Namespace" \in pending'[p]
    BY <1>1 DEF Write, Goto, Notify, TypeOK
  <2>. QED BY <2>1 DEF WorkStands
<1>2. CASE ~Accepts(p)
  BY <1>2 DEF Write, ReturnError, WorkStands
<1>. QED BY <1>1, <1>2

LEMMA WorkController ==
  ASSUME TypeOK, NEW p \in Projects, FinalizerInvOf(p), Shown(p), WorkStands(p), Controller(p)
  PROVE  WorkStands(p)'
<1>. USE DEF apiVars, taskVars
<1>a. obj[p] \in Object /\ subjects[p] \in SUBSET Subjects /\ cache[p].prj \in Object
  BY DEF TypeOK, View
\* A call that returns has nothing to stand by.
<1>b. CASE pc'[p] = "idle" \/ p \in queue'
  BY <1>b DEF WorkStands, Provisioning
<1>1. CASE Start(p)
  <2>1. CASE ~cache[p].prj.present
    BY <1>1, <1>b, <2>1 DEF Start
  <2>2. CASE cache[p].prj.present
    <3>1. /\ obj'[p] = cache[p].prj /\ prj' = prj /\ pending' = pending
          /\ pc'[p] = FirstStep(cache[p].prj)
      BY <1>1, <2>2 DEF Start, Goto, TypeOK
    <3>2. FirstStep(cache[p].prj) \in
            {"updateTerminating", "deleteObjects", "updateFinalizer", "reconcileNamespace"}
      BY <1>a DEF FirstStep, Object
    <3>3. "Project" \notin pending[p] => cache[p].prj = prj[p]
      BY DEF FinalizerInvOf, CopiesKnown
    <3>. QED BY <3>1, <3>2, <3>3 DEF WorkStands, Provisioning
  <2>. QED BY <2>1, <2>2
<1>2. CASE UpdateFinalizer(p)
  BY <1>2, WorkWrite DEF UpdateFinalizer
<1>3. CASE ReconcileNamespace(p)
  <2> DEFINE next == IF obj[p].namespace THEN "listMembers" ELSE "updateNamespaceName"
  <2>a. prj' = prj /\ bindings' = bindings /\ pc[p] = "reconcileNamespace"
    BY <1>3 DEF ReconcileNamespace
  <2>b. next \in {"listMembers", "updateNamespaceName"}
    OBVIOUS
  <2>1. CASE /\ cache[p].ns # "absent" /\ Goto(p, next)
             /\ UNCHANGED <<ns, cache, pending, queue, obj, current, subjects>>
    <3>1. pc'[p] = next
      BY <2>1 DEF Goto, TypeOK
    <3> HIDE DEF next
    <3>. QED BY <2>a, <2>b, <2>1, <3>1 DEF WorkStands, Provisioning
  <2>2. CASE /\ SetNamespace(p, "active") /\ Goto(p, next)
             /\ UNCHANGED <<obj, current, subjects>>
    <3>1. pc'[p] = next
      BY <2>2 DEF Goto, TypeOK
    <3>2. /\ pending[p] \subseteq pending'[p]
          /\ p \in queue' \/ ("Namespace" \in pending'[p] /\ queue' = queue)
      BY <2>2, <2>a, NamespaceEvent
    <3> HIDE DEF next
    <3>. QED BY <2>a, <2>b, <2>2, <3>1, <3>2 DEF WorkStands, Provisioning
  <2>3. CASE ReturnError(p)
    BY <1>b, <2>3 DEF ReturnError
  <2>. QED BY <1>3, <2>1, <2>2, <2>3 DEF ReconcileNamespace
<1>4. CASE UpdateNamespaceName(p)
  BY <1>4, WorkWrite DEF UpdateNamespaceName, Provisioning
<1>5. CASE ListMembers(p)
  <2>1. /\ pc[p] = "listMembers" /\ pc'[p] = "updateMembers" /\ subjects'[p] = cache[p].bindings
        /\ prj' = prj /\ obj' = obj /\ cache' = cache /\ pending' = pending /\ queue' = queue
    BY <1>5 DEF ListMembers, Goto, TypeOK
  <2>. QED BY <2>1 DEF WorkStands, Provisioning
<1>c. ASSUME NEW new, WriteLast(p, new) PROVE WorkStands(p)'
  BY <1>b, <1>c DEF WriteLast, Return, ReturnError, TypeOK
<1>6. CASE UpdateMembers(p)
  <2> DEFINE new == [obj[p] EXCEPT !.members = subjects[p]]
  <2>1. new.members = subjects[p]
    BY <1>a DEF Object
  <2>2. /\ Write(p, new, "updateReady") \/ WriteLast(p, new)
        /\ cache' = cache /\ pc[p] = "updateMembers"
    BY <1>6 DEF UpdateMembers
  <2>3. p \notin queue => subjects[p] = cache[p].bindings
    BY <2>2 DEF WorkStands
  <2> HIDE DEF new
  <2>. QED BY <1>c, <2>1, <2>2, <2>3, WorkWrite DEF Provisioning
<1>7. CASE UpdateReady(p) \/ RemoveFinalizer(p)
  BY <1>7, <1>c DEF UpdateReady, RemoveFinalizer
<1>8. CASE UpdateTerminating(p)
  BY <1>8, WorkWrite DEF UpdateTerminating, Provisioning
<1>9. CASE DeleteObjects(p)
  <2>1. CASE Return(p)
    BY <1>b, <2>1 DEF Return, TypeOK
  <2>2. CASE /\ Goto(p, "removeFinalizer")
             /\ UNCHANGED <<ns, cache, pending, queue, obj, current, subjects>>
    <3>1. pc'[p] = "removeFinalizer" /\ pc[p] = "deleteObjects" /\ prj' = prj
      BY <1>9, <2>2 DEF DeleteObjects, Goto, TypeOK
    <3>. QED BY <2>2, <3>1 DEF WorkStands, Provisioning
  <2>. QED BY <1>9, <2>1, <2>2 DEF DeleteObjects
<1>. QED BY <1>1, <1>2, <1>3, <1>4, <1>5, <1>6, <1>7, <1>8, <1>9 DEF Controller, Continue

LEMMA WorkSurrounding ==
  ASSUME TypeOK, NEW p \in Projects, Shown(p), WorkStands(p), Surrounding(p)
  PROVE  WorkStands(p)' /\ (p \in queue' \/ pending'[p] # {})
<1>. USE DEF apiVars, taskVars
<1>a. ASSUME p \in queue' PROVE WorkStands(p)'
  BY <1>a DEF WorkStands
<1>1. CASE (\E kind \in Kinds : Deliver(p, kind)) \/ FailCall(p)
  BY <1>1, <1>a DEF Deliver, Requests, FailCall, ReturnError
<1>2. CASE RemoveNamespace(p) \/ DeleteNamespace(p)
  <2>1. /\ UNCHANGED <<prj, pc, obj, subjects, bindings>>
        /\ \E phase : SetNamespace(p, phase)
    BY <1>2 DEF RemoveNamespace, DeleteNamespace
  <2>2. /\ pending[p] \subseteq pending'[p]
        /\ p \in queue' \/ ("Namespace" \in pending'[p] /\ cache' = cache /\ queue' = queue)
    BY <2>1, NamespaceEvent
  <2>. QED BY <1>a, <2>1, <2>2, WorkStays
<1>3. CASE PurgeNamespace(p) \/ ChangeBindings(p)
  <2>1. /\ UNCHANGED <<prj, cache, queue, pc, obj, subjects>>
        /\ pending[p] \subseteq pending'[p] /\ pending'[p] # {}
    BY <1>3 DEF PurgeNamespace, ChangeBindings, Notify, TypeOK
  <2>. QED BY <2>1, WorkStays
<1>4. CASE ReleaseHold(p) \/ CreateProject(p) \/ UpdateOwners(p) \/ DeleteProject(p)
  <2>1. \E new : ChangeProject(p, new)
    BY <1>4 DEF ReleaseHold, CreateProject, UpdateOwners, DeleteProject
  <2>2. /\ UNCHANGED <<cache, queue, pc, obj, subjects>>
        /\ pending[p] \subseteq pending'[p] /\ "Project" \in pending'[p]
    BY <2>1 DEF ChangeProject, Notify, TypeOK
  <2>. QED BY <2>2, WorkStays
<1>. QED BY <1>1, <1>2, <1>3, <1>4 DEF Surrounding, Environment

\* When a call ends with a write and nothing is going on, the write has changed
\* nothing.
LEMMA RestWriteLast ==
  ASSUME TypeOK, NEW p \in Projects, FinalizerInvOf(p), RestInvOf(p), NEW new,
         WriteLast(p, new), UNCHANGED <<ns, bindings, cache>>, Quiescent(p)',
         pc[p] \in Provisioning \ {"reconcileNamespace"}
  PROVE  /\ prj' = prj /\ prj[p] = new /\ obj[p] = new /\ p \notin queue
         /\ ns[p] = "active" /\ cache[p].bindings = bindings[p]
<1>1. /\ Accepts(p) /\ queue' = queue /\ pending'[p] = {} /\ p \notin queue
      /\ prj' = [prj EXCEPT ![p] = new]
  BY DEF WriteLast, ReturnError, Quiescent
<1>2. new = prj[p] /\ pending[p] = {}
  <2>1. IF new = prj[p] THEN UNCHANGED pending ELSE Notify(p, "Project")
    BY <1>1 DEF WriteLast
  <2>2. Notify(p, "Project") => "Project" \in pending'[p]
    BY DEF Notify, TypeOK
  <2>. QED BY <1>1, <2>1, <2>2
<1>3. prj' = prj
  BY <1>1, <1>2 DEF TypeOK
<1>4. obj[p] = prj[p]
  BY <1>1 DEF Accepts, FinalizerInvOf, CopiesKnown
<1>5. cache[p].ns = ns[p] /\ cache[p].bindings = bindings[p]
  BY <1>2 DEF RestInvOf, Shown
<1>6. ns[p] = "active"
  BY <1>1, <1>2, <1>5 DEF RestInvOf, WorkStands, Quiescent, TypeOK, NamespacePhase
<1>. QED BY <1>1, <1>2, <1>3, <1>4, <1>5, <1>6

\* When a call ends and nothing is going on, nothing was left to do.
LEMMA RestController ==
  ASSUME TypeOK, NEW p \in Projects, FinalizerInvOf(p), SetUpInvOf(p), RestInvOf(p), Controller(p)
  PROVE  RestsConverged(p)'
<1>. USE DEF apiVars, taskVars
<1>a. CASE pc'[p] # "idle" \/ p \in queue' \/ pending'[p] # {}
  BY <1>a DEF RestsConverged, Quiescent
<1>1. CASE Start(p)
  <2>1. CASE cache[p].prj.present
    <3>1. pc'[p] = FirstStep(cache[p].prj)
      BY <1>1, <2>1 DEF Start, Goto, TypeOK
    <3>2. FirstStep(cache[p].prj) # "idle"
      BY DEF FirstStep, TypeOK, View, Object
    <3>. QED BY <1>a, <3>1, <3>2
  <2>2. CASE ~cache[p].prj.present
    <3>1. pending' = pending /\ prj' = prj
      BY <1>1 DEF Start
    <3>2. "Project" \notin pending[p] => ~prj[p].present
      BY <2>2 DEF FinalizerInvOf, CopiesKnown
    <3>. QED BY <3>1, <3>2 DEF RestsConverged, Quiescent, Converged
  <2>. QED BY <2>1, <2>2
<1>b. ASSUME NEW new, NEW next, Write(p, new, next), next # "idle" PROVE RestsConverged(p)'
  BY <1>a, <1>b DEF Write, Goto, ReturnError, TypeOK
<1>2. CASE UpdateFinalizer(p) \/ UpdateNamespaceName(p) \/ UpdateTerminating(p)
  BY <1>2, <1>b DEF UpdateFinalizer, UpdateNamespaceName, UpdateTerminating
<1>3. CASE ReconcileNamespace(p) \/ ListMembers(p)
  BY <1>3, <1>a DEF ReconcileNamespace, ListMembers, Goto, ReturnError, TypeOK
<1>c. obj[p] \in Object /\ subjects[p] \in SUBSET Subjects
  BY DEF TypeOK
<1>4. CASE UpdateMembers(p)
  <2> DEFINE new == [obj[p] EXCEPT !.members = subjects[p]]
  <2>1. new.members = subjects[p]
    BY <1>c DEF Object
  <2>2. /\ pc[p] = "updateMembers" /\ UNCHANGED <<ns, bindings, cache>>
        /\ Write(p, new, "updateReady") \/ (IsReady(obj[p]) /\ WriteLast(p, new))
    BY <1>4 DEF UpdateMembers
  <2> HIDE DEF new
  <2>3. CASE Write(p, new, "updateReady")
    BY <1>b, <2>3
  <2>4. CASE IsReady(obj[p]) /\ WriteLast(p, new)
    <3>1. SUFFICES ASSUME Quiescent(p)' PROVE Converged(p)'
      BY DEF RestsConverged
    <3>2. /\ prj' = prj /\ prj[p] = new /\ obj[p] = new /\ p \notin queue
          /\ ns[p] = "active" /\ cache[p].bindings = bindings[p]
      BY <2>2, <2>4, <3>1, RestWriteLast DEF Provisioning
    <3>3. subjects[p] = cache[p].bindings
      BY <2>2, <3>2 DEF RestInvOf, WorkStands
    <3>4. obj[p].finalizer /\ obj[p].namespace
      BY <2>2 DEF FinalizerInvOf, CallTells, Provisioning, SetUpInvOf, SetUpSoFar
    <3>. QED BY <2>1, <2>2, <2>4, <3>2, <3>3, <3>4 DEF Converged
  <2>. QED BY <2>2, <2>3, <2>4
<1>5. CASE UpdateReady(p)
  <2> DEFINE new == SetReady(obj[p], "True")
  <2>1. new.observed /\ new.ready = "True"
    BY <1>c DEF SetReady, Object
  <2>2. /\ pc[p] = "updateReady" /\ UNCHANGED <<ns, bindings, cache>>
        /\ WriteLast(p, new)
    BY <1>5 DEF UpdateReady
  <2> HIDE DEF new
  <2>3. SUFFICES ASSUME Quiescent(p)' PROVE Converged(p)'
    BY DEF RestsConverged
  <2>4. /\ prj' = prj /\ prj[p] = new /\ obj[p] = new /\ p \notin queue
        /\ ns[p] = "active" /\ cache[p].bindings = bindings[p]
    BY <2>2, <2>3, RestWriteLast DEF Provisioning
  <2>5. obj[p].members = cache[p].bindings
    BY <2>2, <2>4 DEF RestInvOf, WorkStands
  <2>6. obj[p].finalizer /\ obj[p].namespace /\ ~obj[p].deleting
    BY <2>2 DEF FinalizerInvOf, CallTells, Provisioning, SetUpInvOf, SetUpSoFar
  <2>. QED BY <2>1, <2>2, <2>4, <2>5, <2>6 DEF Converged, IsReady
<1>6. CASE RemoveFinalizer(p)
  <2>1. CASE Accepts(p)
    <3> DEFINE new == WithoutFinalizer(obj[p])
    <3>1. prj'[p] = new
      BY <1>6, <2>1 DEF RemoveFinalizer, WriteLast, TypeOK
    <3>2. obj[p].deleting
      BY <1>6 DEF RemoveFinalizer, FinalizerInvOf, CallTells, Removing
    <3>3. ~new.present \/ (new.deleting /\ new.held)
      BY <1>c, <3>2, ReleasedFields, AbsentFields
    <3> HIDE DEF new
    <3>. QED BY <3>1, <3>3 DEF RestsConverged, Quiescent, Converged
  <2>2. CASE ~Accepts(p)
    BY <1>6, <1>a, <2>2 DEF RemoveFinalizer, WriteLast, ReturnError
  <2>. QED BY <2>1, <2>2
<1>7. CASE DeleteObjects(p)
  <2>1. pc[p] = "deleteObjects" /\ UNCHANGED <<prj, bindings>>
    BY <1>7 DEF DeleteObjects
  <2>2. CASE Goto(p, "removeFinalizer")
    BY <1>a, <2>2 DEF Goto, TypeOK
  <2>3. CASE ~obj[p].finalizer /\ UNCHANGED <<ns, cache, pending, queue>>
    <3>1. pending[p] = {} /\ p \notin queue => obj[p] = prj[p]
      BY <2>1 DEF RestInvOf, WorkStands
    <3>2. obj[p].deleting
      BY <2>1 DEF FinalizerInvOf, CallTells, Removing
    <3>3. prj[p].deleting => prj[p].finalizer \/ prj[p].held
      BY DEF RestInvOf, Lingers
    <3>. QED BY <2>1, <2>3, <3>1, <3>2, <3>3 DEF RestsConverged, Quiescent
  <2>4. CASE SetNamespace(p, "terminating")
    <3>1. p \in queue' \/ "Namespace" \in pending'[p]
      BY <2>1, <2>4, NamespaceEvent DEF RestInvOf
    <3>. QED BY <1>a, <3>1
  <2>5. CASE ~CleanedUp(p) /\ ns[p] # "active" /\ UNCHANGED <<ns, cache, pending, queue>>
    <3>1. "Namespace" \notin pending[p] => ns[p] = "terminating"
      BY <2>5 DEF RestInvOf, Shown, CleanedUp, TypeOK, NamespacePhase
    <3>. QED BY <2>5, <3>1 DEF RestsConverged, Quiescent
  <2>. QED BY <1>7, <2>2, <2>3, <2>4, <2>5 DEF DeleteObjects
<1>. QED BY <1>1, <1>2, <1>3, <1>4, <1>5, <1>6, <1>7 DEF Controller, Continue

LEMMA RestElsewhere ==
  ASSUME NEW x \in Projects, RestInvOf(x), Untouched(x)
  PROVE  RestInvOf(x)'
<1>1. Shown(x)' /\ Lingers(x)' /\ WorkStands(x)'
  BY WorkStays DEF RestInvOf, Shown, Lingers, Untouched
<1>2. Quiescent(x)' => Quiescent(x)
  BY DEF Quiescent, Untouched
<1>3. Converged(x) => Converged(x)'
  BY DEF Converged, Untouched
<1>. QED BY <1>1, <1>2, <1>3 DEF RestInvOf, RestsConverged

\* A manager that starts hears of everything there is, after a panic as well.
LEMMA RestStartManager ==
  ASSUME TypeOK, NEW p \in Projects, RestInvOf(p), StartManager
  PROVE  RestInvOf(p)'
<1>1. /\ UNCHANGED <<prj, ns, bindings>>
      /\ cache'[p] = Latest(p) /\ pc'[p] = "idle"
      /\ prj[p].present => p \in queue'
  BY DEF StartManager, apiVars
<1>2. Shown(p)' /\ Lingers(p)'
  BY <1>1 DEF RestInvOf, Shown, Lingers, Latest
<1>3. WorkStands(p)'
  BY <1>1 DEF WorkStands, Provisioning
<1>4. RestsConverged(p)'
  BY <1>1 DEF RestsConverged, Quiescent, Converged
<1>. QED BY <1>2, <1>3, <1>4 DEF RestInvOf

LEMMA RestNext ==
  TypeOK /\ FinalizerInv /\ SetUpInv /\ RestInv /\ [Next]_vars => RestInv'
<1>. SUFFICES ASSUME TypeOK, FinalizerInv, SetUpInv, RestInv, [Next]_vars,
                     NEW x \in Projects
              PROVE  RestInvOf(x)'
  BY DEF RestInv
<1>0. FinalizerInvOf(x) /\ SetUpInvOf(x) /\ RestInvOf(x)
  BY DEF FinalizerInv, SetUpInv, RestInv
<1>1. CASE StartManager
  BY <1>0, <1>1, RestStartManager
<1>2. CASE BecomeCalm \/ UNCHANGED vars
  <2>1. Untouched(x)
    BY <1>2 DEF BecomeCalm, Untouched, vars, apiVars, taskVars
  <2>. QED BY <1>0, <2>1, RestElsewhere
<1>3. ASSUME NEW p \in Projects, Local(p) PROVE RestInvOf(x)'
  <2>1. CASE x # p
    BY <1>0, <1>3, <2>1, Locality, RestElsewhere
  <2>2. CASE x = p /\ Controller(x)
    BY <1>0, <1>3, <2>2, ShownController, LingersNext, WorkController, RestController
       DEF RestInvOf
  <2>3. CASE x = p /\ Surrounding(x)
    <3>1. Shown(x)' /\ WorkStands(x)' /\ (x \in queue' \/ pending'[x] # {})
      BY <1>0, <2>3, ShownSurrounding, WorkSurrounding DEF RestInvOf
    <3>2. Lingers(x)'
      BY <1>0, <1>3, <2>3, LingersNext DEF RestInvOf
    <3>. QED BY <3>1, <3>2 DEF RestInvOf, RestsConverged, Quiescent
  <2>. QED BY <1>3, <2>1, <2>2, <2>3 DEF Local
<1>. QED BY <1>1, <1>2, <1>3, Sources

LEMMA RestInvariant == Spec => [](TypeOK /\ FinalizerInv /\ RestInv)
<1>1. Init => RestInv
  BY AbsentFields DEF Init, RestInv, RestInvOf, Shown, Lingers, WorkStands, RestsConverged,
     Quiescent, Converged, Provisioning
<1>. QED BY <1>1, SetUpInvariant, RestNext, PTL DEF Spec

\* No wakeup is lost: where nothing is queued, running or on the way about a
\* Project, it is set up and lists the subjects of its RoleBindings, or is gone;
\* and this with lagging caches, conflicts, failed calls, restarts and panics.
THEOREM RestsWhenConverged == Spec => []RestsOnlyWhenConverged
<1>1. RestInv => RestsOnlyWhenConverged
  BY DEF RestInv, RestInvOf, RestsConverged, RestsOnlyWhenConverged
<1>. QED BY <1>1, RestInvariant, PTL

----------------------------------------------------------------------------
(* What guards a namespace. *)

\* The finalizer goes only at the step that removes it, or with a Project
\* that did not have it.
LEMMA FinalizerGoes ==
  ASSUME TypeOK, FinalizerInv, [Next]_vars, NEW x \in Projects,
         prj[x].present /\ prj[x].finalizer, ~(prj'[x].present /\ prj'[x].finalizer)
  PROVE  pc[x] = "removeFinalizer"
<1>a. FinalizerInvOf(x) /\ prj[x] \in Object
  BY DEF FinalizerInv, TypeOK
<1>1. ~StartManager /\ ~BecomeCalm /\ ~UNCHANGED vars
  BY DEF StartManager, BecomeCalm, vars, apiVars
<1>2. PICK p \in Projects : Local(p)
  BY <1>1, Sources
<1>3. x = p
  BY <1>2, Locality DEF Untouched
<1>4. Passes(PhaseOf(prj[x]), PhaseOf(prj'[x]), Cleared(x))
  BY <1>2, <1>3, <1>a, ControllerPasses, SurroundingPasses DEF Local
<1>5. PhaseOf(prj[x]) \in {"guarded", "condemned"}
  BY <1>a, ClearedIsCondemned
<1>6. PhaseOf(prj'[x]) \notin {"guarded", "condemned"}
  BY DEF PhaseOf
<1>. QED BY <1>4, <1>5, <1>6 DEF Passes, Cleared

\* A namespace loses what guards it only where handleDeletion lists it in a cache
\* that has not been told of it: the one way that is left to lose a namespace.
THEOREM LeftOnlyUnshown == Spec => OnlyUnshownIsLeft
<1>1. ASSUME TypeOK, FinalizerInv, RestInv, [Next]_vars, NEW p \in Projects, Left(p)', ~Left(p)
      PROVE  pc[p] = "deleteObjects" /\ cache[p].ns = "absent" /\ "Namespace" \in pending[p]
  <2>a. TypeOK' /\ FinalizerInvOf(p) /\ Shown(p)
    BY <1>1, NextTypes DEF FinalizerInv, RestInv, RestInvOf
  <2>b. ns'[p] # "absent"
    BY <1>1 DEF Left
  <2>1. ns[p] # "absent"
    <3>. SUFFICES ASSUME ns[p] = "absent" PROVE FALSE
      OBVIOUS
    <3>1. ~StartManager /\ ~BecomeCalm /\ ~UNCHANGED vars
      BY <2>b DEF StartManager, BecomeCalm, vars, apiVars
    <3>2. PICK x \in Projects : Local(x)
      BY <1>1, <3>1, Sources
    <3>3. x = p
      BY <1>1, <2>b, <3>2, Locality DEF Untouched
    <3>4. /\ prj' = prj /\ Turns(ns[p], ns'[p], PhaseOf(prj[p]))
          /\ pc'[p] # "removeFinalizer"
      BY <1>1, <2>b, <3>2, <3>3, NamespaceTurns
    <3>5. PhaseOf(prj[p]) \in {"guarded", "condemned"}
      BY <2>b, <3>4 DEF Turns
    <3>6. prj[p].present /\ prj[p].finalizer
      BY <3>5 DEF PhaseOf
    <3>. QED BY <1>1, <3>4, <3>6 DEF Left
  <2>2. prj[p].present /\ prj[p].finalizer /\ pc[p] # "removeFinalizer"
    BY <1>1, <2>1 DEF Left
  <2>3. prj'[p].present /\ prj'[p].finalizer
    BY <1>1, <2>2, FinalizerGoes
  <2>4. pc'[p] = "removeFinalizer"
    BY <1>1, <2>3 DEF Left
  <2>5. ~StartManager /\ ~BecomeCalm /\ ~UNCHANGED vars
    BY <1>1, <2>2, <2>4 DEF StartManager, BecomeCalm, vars, taskVars
  <2>6. PICK x \in Projects : Local(x)
    BY <1>1, <2>5, Sources
  <2>7. x = p
    BY <1>1, <2>2, <2>4, <2>6, Locality DEF Untouched
  <2>8. LooksOf(p)
    BY <1>1, <2>6, <2>7, LooksController, LooksSurrounding DEF Local
  <2>9. pc[p] = "deleteObjects" /\ cache[p].ns = "absent"
    BY <2>2, <2>4, <2>8 DEF LooksOf
  <2>. QED BY <2>1, <2>9, <2>a DEF Shown
<1>2. ASSUME TypeOK, FinalizerInv, RestInv, [Next]_vars
      PROVE  [\A p \in Projects : Left(p)' /\ ~Left(p)
               => pc[p] = "deleteObjects" /\ cache[p].ns = "absent"
                  /\ "Namespace" \in pending[p]]_vars
  BY <1>1, <1>2
<1>. QED BY <1>2, RestInvariant, PTL DEF Spec, OnlyUnshownIsLeft
=============================================================================
