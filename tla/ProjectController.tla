------------------------- MODULE ProjectController -------------------------
(***************************************************************************)
(* The Project controller of the Bulward manager                           *)
(* (pkg/manager/internal/controllers/project_controller.go) against the    *)
(* Kubernetes API server.                                                  *)
(*                                                                         *)
(* A Project owns a namespace of its own, as an Organization does, and the *)
(* two controllers have the handling of the finalizer and of the namespace *)
(* in common.  The Project controller differs in how it hears of           *)
(* RoleBindings: its handler looks the namespace up in the cache, and      *)
(* panics when it is not there, which takes the whole manager down.        *)
(***************************************************************************)
EXTENDS ManagedObject, FiniteSets, Naturals

CONSTANTS Projects,         \* names of Projects (namespace and name); each has its own namespace
          Invited,          \* subjects that users make RoleBindings for
          MaxWorkers,       \* MaxConcurrentReconciles of the controller
          Holds,            \* may Projects have other finalizers? {FALSE} or BOOLEAN
          NamespaceLag      \* does the Namespace informer lag behind the API server?

ASSUME ControllerAssumption ==
  /\ Invited \subseteq Subjects
  /\ MaxWorkers \in Nat \ {0}
  /\ Holds \subseteq BOOLEAN
  /\ NamespaceLag \in BOOLEAN

VARIABLES
  \* The API server.
  prj,         \* prj[p]: the Project p
  ns,          \* ns[p]: its namespace <namespace>-<name>, labelled as owned by it
  bindings,    \* bindings[p]: subjects of the RoleBindings in that namespace
  \* The manager process.
  cache,       \* cache[p]: what its informers hold about p
  pending,     \* pending[p]: kinds with a watch event about p not yet delivered
  queue,       \* the workqueue: names to be reconciled
  pc,          \* pc[p]: the next step of the Reconcile call for p
  obj,         \* obj[p]: its variable project
  current,     \* current[p]: obj[p] carries the stored resourceVersion
  subjects,    \* subjects[p]: its variable subjects in reconcileMembers
  \* The environment.
  calm         \* users and faults have stopped for good

apiVars  == <<prj, ns, bindings>>
taskVars == <<pc, obj, current, subjects>>
vars     == <<apiVars, cache, pending, queue, taskVars, calm>>

NamespacePhase == {"absent", "active", "terminating"}
Kinds          == {"Project", "Namespace", "RoleBinding"}

Provisioning == {"reconcileNamespace", "updateNamespaceName", "listMembers",
                 "updateMembers", "updateReady"}
Removing     == {"updateTerminating", "deleteObjects", "removeFinalizer"}
Steps        == {"idle", "updateFinalizer"} \cup Provisioning \cup Removing

View == [prj : Object, ns : NamespacePhase, bindings : SUBSET Subjects]

TypeOK ==
  /\ prj \in [Projects -> Object]
  /\ ns \in [Projects -> NamespacePhase]
  /\ bindings \in [Projects -> SUBSET Subjects]
  /\ cache \in [Projects -> View]
  /\ pending \in [Projects -> SUBSET Kinds]
  /\ queue \in SUBSET Projects
  /\ pc \in [Projects -> Steps]
  /\ obj \in [Projects -> Object]
  /\ current \in [Projects -> BOOLEAN]
  /\ subjects \in [Projects -> SUBSET Subjects]
  /\ calm \in BOOLEAN

Init ==
  /\ prj = [p \in Projects |-> NoObject]
  /\ ns = [p \in Projects |-> "absent"]
  /\ bindings = [p \in Projects |-> {}]
  /\ cache = [p \in Projects |-> [prj |-> NoObject, ns |-> "absent", bindings |-> {}]]
  /\ pending = [p \in Projects |-> {}]
  /\ queue = {}
  /\ pc = [p \in Projects |-> "idle"]
  /\ obj = [p \in Projects |-> NoObject]
  /\ current = [p \in Projects |-> FALSE]
  /\ subjects = [p \in Projects |-> {}]
  /\ calm = FALSE

----------------------------------------------------------------------------
(* The Reconcile call as a task of a worker. *)

Goto(p, step) == pc' = [pc EXCEPT ![p] = step]

\* Reconcile returns; its variables are gone.
Return(p) ==
  /\ pc' = [pc EXCEPT ![p] = "idle"]
  /\ obj' = [obj EXCEPT ![p] = NoObject]
  /\ current' = [current EXCEPT ![p] = FALSE]
  /\ subjects' = [subjects EXCEPT ![p] = {}]

\* Faulty: the error is only logged.
ReturnNoError(p) ==
  /\ Return(p)
  /\ UNCHANGED queue

\* Reconcile returns an error: the request is queued again.
ReturnError(p) ==
  /\ Return(p)
  /\ queue' = queue \cup {p}

\* A watch event of a kind is on its way to the manager.
Notify(p, kind) == pending' = [pending EXCEPT ![p] = @ \cup {kind}]

\* The requests that the handlers of SetupWithManager make of an event: for the
\* Project itself, or for the owner of the namespace or of the namespace that a
\* RoleBinding lives in.
\* Faulty: without Watches(&corev1.Namespace{}).
RequestsUnwatched(p, kind) == IF kind = "Namespace" THEN {} ELSE {p}
Requests(p, kind)          == {p}

\* The namespace p enters a phase.  Without lag its event is delivered at once.
SetNamespace(p, phase) ==
  /\ ns' = [ns EXCEPT ![p] = phase]
  /\ IF NamespaceLag
     THEN /\ Notify(p, "Namespace")
          /\ UNCHANGED <<cache, queue>>
     ELSE /\ cache' = [cache EXCEPT ![p].ns = phase]
          /\ queue' = queue \cup Requests(p, "Namespace")
          /\ UNCHANGED pending

\* The server compares the resourceVersion of the copy with the stored one.
Accepts(p) == current[p]

\* r.Update and r.Status().Update: the server accepts the write if the copy is
\* current; a write that changes nothing causes no event.  Otherwise it
\* answers Conflict or NotFound and Reconcile returns the error.
Write(p, new, next) ==
  \/ /\ Accepts(p)
     /\ prj' = [prj EXCEPT ![p] = new]
     /\ IF new = prj[p] THEN UNCHANGED pending ELSE Notify(p, "Project")
     /\ obj' = [obj EXCEPT ![p] = new]
     /\ Goto(p, next)
     /\ UNCHANGED <<queue, current, subjects>>
  \/ /\ ~Accepts(p)
     /\ ReturnError(p)
     /\ UNCHANGED <<prj, pending>>

\* The same as the last step of a call.
WriteLast(p, new) ==
  \/ /\ Accepts(p)
     /\ prj' = [prj EXCEPT ![p] = new]
     /\ IF new = prj[p] THEN UNCHANGED pending ELSE Notify(p, "Project")
     /\ Return(p)
     /\ UNCHANGED queue
  \/ /\ ~Accepts(p)
     /\ ReturnError(p)
     /\ UNCHANGED <<prj, pending>>

----------------------------------------------------------------------------
(* Reconcile. *)

\* Where the branches at the top of Reconcile and of handleDeletion lead.
FirstStep(project) ==
  CASE project.deleting /\ project.ready # "Terminating" -> "updateTerminating"
    [] project.deleting /\ project.ready = "Terminating" -> "deleteObjects"
    [] ~project.deleting /\ ~project.finalizer           -> "updateFinalizer"
    [] ~project.deleting /\ project.finalizer            -> "reconcileNamespace"

\* A worker takes a request.  No two workers hold the same name.  The
\* Project is read from the cache; not found ends the call.
Start(p) ==
  /\ p \in queue
  /\ pc[p] = "idle"
  /\ Cardinality({w \in Projects : pc[w] # "idle"}) < MaxWorkers
  /\ queue' = queue \ {p}
  /\ LET project == cache[p].prj IN
       IF ~project.present THEN UNCHANGED taskVars
       ELSE /\ obj' = [obj EXCEPT ![p] = project]
            /\ current' = [current EXCEPT ![p] = "Project" \notin pending[p]]
            /\ Goto(p, FirstStep(project))
            /\ UNCHANGED subjects
  /\ UNCHANGED <<apiVars, cache, pending, calm>>

\* util.AddFinalizer, r.Update.
UpdateFinalizer(p) ==
  /\ pc[p] = "updateFinalizer"
  /\ Write(p, [obj[p] EXCEPT !.finalizer = TRUE], "reconcileNamespace")
  /\ UNCHANGED <<ns, bindings, cache, calm>>

\* owner.ReconcileOwnedObjects for the one namespace: it is created when the
\* cache has none, which fails if the server has one (a terminating one included).
ReconcileNamespace(p) ==
  /\ pc[p] = "reconcileNamespace"
  /\ LET next == IF obj[p].namespace THEN "listMembers" ELSE "updateNamespaceName" IN
     \/ /\ cache[p].ns # "absent"
        /\ Goto(p, next)
        /\ UNCHANGED <<ns, cache, pending, queue, obj, current, subjects>>
     \/ /\ cache[p].ns = "absent" /\ ns[p] = "absent"
        /\ SetNamespace(p, "active")
        /\ Goto(p, next)
        /\ UNCHANGED <<obj, current, subjects>>
     \/ /\ cache[p].ns = "absent" /\ ns[p] # "absent"
        /\ ReturnError(p)
        /\ UNCHANGED <<ns, cache, pending>>
  /\ UNCHANGED <<prj, bindings, calm>>

\* Faulty: the name is kept in memory only.
ForgetNamespaceName(p) ==
  /\ pc[p] = "updateNamespaceName"
  /\ Write(p, obj[p], "listMembers")
  /\ UNCHANGED <<ns, bindings, cache, calm>>

\* status.namespace is filled in once.
UpdateNamespaceName(p) ==
  /\ pc[p] = "updateNamespaceName"
  /\ Write(p, [obj[p] EXCEPT !.namespace = TRUE], "listMembers")
  /\ UNCHANGED <<ns, bindings, cache, calm>>

\* The List call of reconcileMembers reads the cache.
ListMembers(p) ==
  /\ pc[p] = "listMembers"
  /\ subjects' = [subjects EXCEPT ![p] = cache[p].bindings]
  /\ Goto(p, "updateMembers")
  /\ UNCHANGED <<apiVars, cache, pending, queue, obj, current, calm>>

\* status.members is written on every call; that is the last step of a call
\* for a Project that is ready.
UpdateMembers(p) ==
  /\ pc[p] = "updateMembers"
  /\ LET new == [obj[p] EXCEPT !.members = subjects[p]] IN
     \/ /\ ~IsReady(obj[p])
        /\ Write(p, new, "updateReady")
     \/ /\ IsReady(obj[p])
        /\ WriteLast(p, new)
  /\ UNCHANGED <<ns, bindings, cache, calm>>

\* The Project is declared ready and Reconcile returns.
UpdateReady(p) ==
  /\ pc[p] = "updateReady"
  /\ WriteLast(p, SetReady(obj[p], "True"))
  /\ UNCHANGED <<ns, bindings, cache, calm>>

----------------------------------------------------------------------------
(* handleDeletion. *)

UpdateTerminating(p) ==
  /\ pc[p] = "updateTerminating"
  /\ Write(p, SetReady(obj[p], "Terminating"), "deleteObjects")
  /\ UNCHANGED <<ns, bindings, cache, calm>>

\* Faulty: a namespace that is being deleted does not count.
CleanedUpSoon(p) == cache[p].ns # "active"
\* util.DeleteObjects lists the owned namespaces in the cache and deletes them;
\* cleanedUp: the list was empty.
CleanedUp(p) == cache[p].ns = "absent"

\* Unless everything is cleaned up the call returns, and the deletion of the
\* namespace will queue the Project again.
DeleteObjects(p) ==
  /\ pc[p] = "deleteObjects"
  /\ \/ /\ CleanedUp(p) /\ obj[p].finalizer
        /\ Goto(p, "removeFinalizer")
        /\ UNCHANGED <<ns, cache, pending, queue, obj, current, subjects>>
     \/ /\ CleanedUp(p) /\ ~obj[p].finalizer
        /\ Return(p)
        /\ UNCHANGED <<ns, cache, pending, queue>>
     \/ /\ ~CleanedUp(p)
        /\ IF ns[p] = "active" THEN SetNamespace(p, "terminating")
                               ELSE UNCHANGED <<ns, cache, pending, queue>>
        /\ Return(p)
  /\ UNCHANGED <<prj, bindings, calm>>

\* util.RemoveFinalizer, r.Update: the last write of the Project's life.
RemoveFinalizer(p) ==
  /\ pc[p] = "removeFinalizer"
  /\ WriteLast(p, WithoutFinalizer(obj[p]))
  /\ UNCHANGED <<ns, bindings, cache, calm>>

\* The steps after Start.
Continue(p) ==
  \/ UpdateFinalizer(p) \/ ReconcileNamespace(p) \/ UpdateNamespaceName(p)
  \/ ListMembers(p) \/ UpdateMembers(p) \/ UpdateReady(p)
  \/ UpdateTerminating(p) \/ DeleteObjects(p) \/ RemoveFinalizer(p)

----------------------------------------------------------------------------
(* The informers.  A delivered event updates the cache and makes requests.  *)

Latest(p) == [prj |-> prj[p], ns |-> ns[p], bindings |-> bindings[p]]

\* Does the handler of RoleBinding events find the namespace in the cache?
FindsNamespace(p) == cache[p].ns # "absent"

Deliver(p, kind) ==
  /\ kind \in pending[p]
  /\ kind = "RoleBinding" => FindsNamespace(p)
  /\ cache' = [cache EXCEPT ![p] =
       CASE kind = "Project"     -> [@ EXCEPT !.prj = prj[p]]
         [] kind = "Namespace"   -> [@ EXCEPT !.ns = ns[p]]
         [] kind = "RoleBinding" -> [@ EXCEPT !.bindings = bindings[p]]]
  /\ pending' = [pending EXCEPT ![p] = @ \ {kind}]
  /\ queue' = queue \cup Requests(p, kind)
  /\ UNCHANGED <<apiVars, taskVars, calm>>

\* A new manager process: its informers list everything and queue every
\* Project they hear of.
StartManager ==
  /\ cache' = [p \in Projects |-> Latest(p)]
  /\ pending' = [p \in Projects |-> {}]
  /\ queue' = {p \in Projects : prj[p].present \/ ns[p] # "absent"}
  /\ pc' = [p \in Projects |-> "idle"]
  /\ obj' = [p \in Projects |-> NoObject]
  /\ current' = [p \in Projects |-> FALSE]
  /\ subjects' = [p \in Projects |-> {}]
  /\ UNCHANGED <<apiVars, calm>>

\* The handler panics: the manager process dies and is started again.
Panic(p) ==
  /\ "RoleBinding" \in pending[p]
  /\ ~FindsNamespace(p)
  /\ StartManager

----------------------------------------------------------------------------
(* The namespace controller of Kubernetes: it empties a terminating         *)
(* namespace, then removes it.                                              *)

PurgeNamespace(p) ==
  /\ ns[p] = "terminating" /\ bindings[p] # {}
  /\ bindings' = [bindings EXCEPT ![p] = {}]
  /\ Notify(p, "RoleBinding")
  /\ UNCHANGED <<prj, ns, cache, queue, taskVars, calm>>

RemoveNamespace(p) ==
  /\ ns[p] = "terminating" /\ bindings[p] = {}
  /\ SetNamespace(p, "absent")
  /\ UNCHANGED <<prj, bindings, taskVars, calm>>

----------------------------------------------------------------------------
(* Users, and the other controllers. *)

\* Any write of the Project by somebody else makes the copy in the
\* Reconcile call outdated.
ChangeProject(p, new) ==
  /\ prj' = [prj EXCEPT ![p] = new]
  /\ Notify(p, "Project")
  /\ current' = [current EXCEPT ![p] = FALSE]
  /\ UNCHANGED <<ns, bindings, cache, queue, pc, obj, subjects, calm>>

CreateProject(p) ==
  /\ ~calm /\ ~prj[p].present
  /\ \E owners \in OwnerSets, held \in Holds :
       ChangeProject(p, NewObject(owners, held))

\* Whoever put another finalizer on the Project removes it.
ReleaseHold(p) ==
  /\ prj[p].present /\ prj[p].deleting /\ prj[p].held
  /\ ChangeProject(p, WithoutHold(prj[p]))

UpdateOwners(p) ==
  /\ ~calm /\ prj[p].present
  /\ \E owners \in OwnerSets \ {prj[p].owners} :
       ChangeProject(p, WithOwners(prj[p], owners))

DeleteProject(p) ==
  /\ ~calm /\ prj[p].present /\ ~prj[p].deleting
  /\ ChangeProject(p, Deleted(prj[p]))

\* RoleBindings come and go; nothing is created in a terminating namespace.
ChangeBindings(p) ==
  /\ ~calm /\ ns[p] # "absent"
  /\ \E s \in Invited :
       \/ /\ ns[p] = "active" /\ s \notin bindings[p]
          /\ bindings' = [bindings EXCEPT ![p] = @ \cup {s}]
       \/ /\ s \in bindings[p]
          /\ bindings' = [bindings EXCEPT ![p] = @ \ {s}]
  /\ Notify(p, "RoleBinding")
  /\ UNCHANGED <<prj, ns, cache, queue, taskVars, calm>>

\* Somebody other than the controller deletes the namespace.
DeleteNamespace(p) ==
  /\ ~calm /\ ns[p] = "active"
  /\ SetNamespace(p, "terminating")
  /\ UNCHANGED <<prj, bindings, taskVars, calm>>

----------------------------------------------------------------------------
(* Faults. *)

\* An API call of a running Reconcile fails, before or after it took effect.
FailCall(p) ==
  /\ ~calm /\ pc[p] # "idle"
  /\ ReturnError(p)
  /\ UNCHANGED <<apiVars, cache, pending, calm>>

\* The manager process is stopped at any point; or it panics at a RoleBinding
\* of some other namespace, since the handler sees all of the cluster's.
Restart == ~calm /\ StartManager

\* From now on there are neither user actions nor faults.
BecomeCalm ==
  /\ ~calm
  /\ calm' = TRUE
  /\ UNCHANGED <<apiVars, cache, pending, queue, taskVars>>

----------------------------------------------------------------------------
Controller(p) == Start(p) \/ Continue(p)

System(p) ==
  \/ Controller(p)
  \/ (\E kind \in Kinds : Deliver(p, kind)) \/ Panic(p)
  \/ PurgeNamespace(p) \/ RemoveNamespace(p) \/ ReleaseHold(p)

Environment(p) ==
  \/ CreateProject(p) \/ UpdateOwners(p) \/ DeleteProject(p)
  \/ ChangeBindings(p) \/ DeleteNamespace(p)
  \/ FailCall(p)

Next == (\E p \in Projects : System(p) \/ Environment(p)) \/ Restart \/ BecomeCalm

Spec == Init /\ [][Next]_vars

\* The workqueue is first in, first out: a queued name gets its turn (SF), a
\* running call goes on, informers deliver or the manager panics, terminating
\* namespaces and other finalizers go.
Fairness ==
  \A p \in Projects :
    /\ SF_vars(Start(p))
    /\ WF_vars(Continue(p))
    /\ \A kind \in Kinds \ {"RoleBinding"} : WF_vars(Deliver(p, kind))
    /\ WF_vars(Deliver(p, "RoleBinding") \/ Panic(p))
    /\ WF_vars(PurgeNamespace(p) \/ RemoveNamespace(p))
    /\ WF_vars(ReleaseHold(p))

FairSpec == Spec /\ Fairness

----------------------------------------------------------------------------
(* Properties. *)

\* Whoever finds a Project declared ready may use status.namespace (the role
\* template controllers dereference it), and the namespace will be cleaned up.
ReadyMeansSetUp ==
  \A p \in Projects : prj[p].ready = "True" => prj[p].finalizer /\ prj[p].namespace

\* A namespace is left when its Project has lost the finalizer, or is about to.
\* The list of handleDeletion, which the cache answers, is all that guards it: a
\* namespace is left only by a call that lists while the event of the namespace
\* is still on its way, whatever else lags, conflicts, fails or restarts.
Left(p) ==
  /\ ns[p] # "absent"
  /\ ~(prj[p].present /\ prj[p].finalizer) \/ pc[p] = "removeFinalizer"
OnlyUnshownIsLeft ==
  [][\A p \in Projects : Left(p)' /\ ~Left(p)
       => pc[p] = "deleteObjects" /\ cache[p].ns = "absent" /\ "Namespace" \in pending[p]]_vars

\* A Project, its namespace and what the controller is shown of it keep the
\* promise of GuardedOwnership, whenever the manager panics: the finalizer goes
\* only after a look, since the deletion, that showed no namespace, and none is
\* created after that look.
PhaseOf(project) ==
  CASE ~project.present -> "none"
    [] project.present /\ ~project.deleting /\ ~project.finalizer -> "created"
    [] project.present /\ ~project.deleting /\ project.finalizer -> "guarded"
    [] project.present /\ project.deleting /\ project.finalizer -> "condemned"
    [] project.present /\ project.deleting /\ ~project.finalizer -> "leaving"

\* The call has found nothing and goes on to remove the finalizer.
Cleared(p) == pc[p] = "removeFinalizer" /\ prj[p].finalizer

Ownership == INSTANCE GuardedOwnership WITH
  Objects   <- Projects,
  phase     <- [p \in Projects |-> PhaseOf(prj[p])],
  dependent <- ns,
  shown     <- [p \in Projects |-> cache[p].ns],
  cleared   <- {p \in Projects : Cleared(p)}

KeepsOwnership == Ownership!Spec

\* What panic(err) in the handler asserts: the namespace of a RoleBinding is in
\* the cache when the event of the RoleBinding is.
NeverPanics == [][\A p \in Projects : ~Panic(p)]_vars

\* What the controller works towards: a Project marked for deletion is
\* gone, any other is completely set up and lists its members.
Converged(p) ==
  prj[p].present =>
    /\ IsReady(prj[p])
    /\ prj[p].finalizer /\ prj[p].namespace /\ ns[p] = "active"
    /\ prj[p].members = bindings[p]

\* Nothing is going on: no event, request or call, no one to wait for.
Quiescent(p) ==
  /\ pending[p] = {} /\ p \notin queue /\ pc[p] = "idle"
  /\ ns[p] # "terminating" /\ ~(prj[p].deleting /\ prj[p].held)

\* No wakeup is lost: the controller rests only where it has nothing left to
\* do.  A change of the RoleBindings has its effect on status.members even if
\* the manager panicked at it.
RestsOnlyWhenConverged == \A p \in Projects : Quiescent(p) => Converged(p)

\* When users and faults stop, every Project is set up, or removed, for good:
\* panics, retries after conflicts and waits for the namespace end.
EventuallyConverged == calm ~> [](\A p \in Projects : Converged(p))
=============================================================================
