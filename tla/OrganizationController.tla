----------------------- MODULE OrganizationController -----------------------
(***************************************************************************)
(* The Organization controller of the Bulward manager                      *)
(* (pkg/manager/internal/controllers/organization_controller.go) against   *)
(* the Kubernetes API server.                                              *)
(*                                                                         *)
(* The controller reads from informer caches that follow the API server    *)
(* with a delay, one informer per kind, and writes to the API server with  *)
(* optimistic concurrency.  Reconcile is one action per API write, so that *)
(* users, informers, failures and restarts interleave with it.             *)
(***************************************************************************)
EXTENDS ManagedObject, FiniteSets, Naturals

CONSTANTS Orgs,             \* names of Organizations; the namespace has the same name
          Projects,         \* names of the Projects of a namespace
          Templates,        \* DefaultOrganizationRoleTemplatesForOwners
          MaxWorkers,       \* MaxConcurrentReconciles of the controller
          Holds,            \* may Organizations have other finalizers? {FALSE} or BOOLEAN
          NamespaceLag      \* does the Namespace informer lag behind the API server?

ASSUME ControllerAssumption ==
  /\ Templates # {}
  /\ MaxWorkers \in Nat \ {0}
  /\ Holds \subseteq BOOLEAN
  /\ NamespaceLag \in BOOLEAN

VARIABLES
  \* The API server.
  org,         \* org[o]: the Organization o
  ns,          \* ns[o]: the namespace o, labelled as owned by Organization o
  bindings,    \* bindings[o]: subjects of the RoleBindings in namespace o
  projects,    \* projects[o][p]: readiness and status.members of Project p in namespace o
  templates,   \* the default OrganizationRoleTemplates that exist
  \* The manager process.
  cache,       \* cache[o]: what its informers hold about o
  pending,     \* pending[o]: kinds with a watch event about o not yet delivered
  queue,       \* the workqueue: names to be reconciled
  pc,          \* pc[o]: the next step of the Reconcile call for o
  obj,         \* obj[o]: its variable organization
  current,     \* current[o]: obj[o] carries the stored resourceVersion
  subjects,    \* subjects[o]: its variable subjects in reconcileMembers
  todo,        \* todo[o]: templates its loop has still to create
  \* The environment.
  calm         \* users and faults have stopped for good

apiVars  == <<org, ns, bindings, projects, templates>>
taskVars == <<pc, obj, current, subjects, todo>>
vars     == <<apiVars, cache, pending, queue, taskVars, calm>>

NamespacePhase == {"absent", "active", "terminating"}
Kinds          == {"Organization", "Namespace", "RoleBinding", "Project"}
ProjectView    == [ready : BOOLEAN, members : SUBSET Subjects]
NoProject      == [ready |-> FALSE, members |-> {}]
Contents       == [Projects -> ProjectView]
NoContents     == [p \in Projects |-> NoProject]

Provisioning == {"reconcileNamespace", "updateNamespaceName", "listMembers",
                 "updateMembers", "checkTemplates", "updateReady"}
Removing     == {"updateTerminating", "deleteObjects", "removeFinalizer"}
Steps        == {"idle", "updateFinalizer"} \cup Provisioning \cup Removing

View == [org : Object, ns : NamespacePhase, bindings : SUBSET Subjects, projects : Contents]

TypeOK ==
  /\ org \in [Orgs -> Object]
  /\ ns \in [Orgs -> NamespacePhase]
  /\ bindings \in [Orgs -> SUBSET Subjects]
  /\ projects \in [Orgs -> Contents]
  /\ templates \in SUBSET Templates
  /\ cache \in [Orgs -> View]
  /\ pending \in [Orgs -> SUBSET Kinds]
  /\ queue \in SUBSET Orgs
  /\ pc \in [Orgs -> Steps]
  /\ obj \in [Orgs -> Object]
  /\ current \in [Orgs -> BOOLEAN]
  /\ subjects \in [Orgs -> SUBSET Subjects]
  /\ todo \in [Orgs -> SUBSET Templates]
  /\ calm \in BOOLEAN

Init ==
  /\ org = [o \in Orgs |-> NoObject]
  /\ ns = [o \in Orgs |-> "absent"]
  /\ bindings = [o \in Orgs |-> {}]
  /\ projects = [o \in Orgs |-> NoContents]
  /\ templates = {}
  /\ cache = [o \in Orgs |-> [org |-> NoObject, ns |-> "absent",
                              bindings |-> {}, projects |-> NoContents]]
  /\ pending = [o \in Orgs |-> {}]
  /\ queue = {}
  /\ pc = [o \in Orgs |-> "idle"]
  /\ obj = [o \in Orgs |-> NoObject]
  /\ current = [o \in Orgs |-> FALSE]
  /\ subjects = [o \in Orgs |-> {}]
  /\ todo = [o \in Orgs |-> {}]
  /\ calm = FALSE

----------------------------------------------------------------------------
(* The Reconcile call as a task of a worker. *)

Goto(o, step) == pc' = [pc EXCEPT ![o] = step]

\* Reconcile returns; its variables are gone.
Return(o) ==
  /\ pc' = [pc EXCEPT ![o] = "idle"]
  /\ obj' = [obj EXCEPT ![o] = NoObject]
  /\ current' = [current EXCEPT ![o] = FALSE]
  /\ subjects' = [subjects EXCEPT ![o] = {}]
  /\ todo' = [todo EXCEPT ![o] = {}]

\* Faulty: the error is only logged.
ReturnNoError(o) ==
  /\ Return(o)
  /\ UNCHANGED queue

\* Reconcile returns an error: the request is queued again.
ReturnError(o) ==
  /\ Return(o)
  /\ queue' = queue \cup {o}

\* A watch event of a kind is on its way to the manager.
Notify(o, kind) == pending' = [pending EXCEPT ![o] = @ \cup {kind}]

\* The requests that the handlers of SetupWithManager make of an event: for the
\* object itself, the owner of a namespace, or the Organization that has the
\* name of the namespace a RoleBinding or a Project lives in.
\* Faulty: without Watches(&corev1.Namespace{}).
RequestsUnwatched(o, kind) == IF kind = "Namespace" THEN {} ELSE {o}
Requests(o, kind)          == {o}

\* The namespace o enters a phase.  Without lag its event is delivered at once.
SetNamespace(o, phase) ==
  /\ ns' = [ns EXCEPT ![o] = phase]
  /\ IF NamespaceLag
     THEN /\ Notify(o, "Namespace")
          /\ UNCHANGED <<cache, queue>>
     ELSE /\ cache' = [cache EXCEPT ![o].ns = phase]
          /\ queue' = queue \cup Requests(o, "Namespace")
          /\ UNCHANGED pending

\* The server compares the resourceVersion of the copy with the stored one.
\* Faulty: a patch without a resourceVersion.
AcceptsAny(o) == org[o].present
Accepts(o)    == current[o]

\* r.Update and r.Status().Update: the server accepts the write if the copy is
\* current; a write that changes nothing causes no event.  Otherwise it
\* answers Conflict or NotFound and Reconcile returns the error.
Write(o, new, next) ==
  \/ /\ Accepts(o)
     /\ org' = [org EXCEPT ![o] = new]
     /\ IF new = org[o] THEN UNCHANGED pending ELSE Notify(o, "Organization")
     /\ obj' = [obj EXCEPT ![o] = new]
     /\ Goto(o, next)
     /\ UNCHANGED <<queue, current, subjects>>
  \/ /\ ~Accepts(o)
     /\ ReturnError(o)
     /\ UNCHANGED <<org, pending>>

----------------------------------------------------------------------------
(* Reconcile. *)

\* Faulty: no finalizer is added.
FirstStepUnguarded(organization) ==
  CASE organization.deleting -> "updateTerminating"
    [] OTHER                 -> "reconcileNamespace"

\* Where the branches at the top of Reconcile and of handleDeletion lead.
FirstStep(organization) ==
  CASE organization.deleting /\ organization.ready # "Terminating" -> "updateTerminating"
    [] organization.deleting /\ organization.ready = "Terminating" -> "deleteObjects"
    [] ~organization.deleting /\ ~organization.finalizer           -> "updateFinalizer"
    [] ~organization.deleting /\ organization.finalizer            -> "reconcileNamespace"

\* A worker takes a request.  No two workers hold the same name.  The
\* Organization is read from the cache; not found ends the call.
Start(o) ==
  /\ o \in queue
  /\ pc[o] = "idle"
  /\ Cardinality({w \in Orgs : pc[w] # "idle"}) < MaxWorkers
  /\ queue' = queue \ {o}
  /\ LET organization == cache[o].org IN
       IF ~organization.present THEN UNCHANGED taskVars
       ELSE /\ obj' = [obj EXCEPT ![o] = organization]
            /\ current' = [current EXCEPT ![o] = "Organization" \notin pending[o]]
            /\ Goto(o, FirstStep(organization))
            /\ UNCHANGED <<subjects, todo>>
  /\ UNCHANGED <<apiVars, cache, pending, calm>>

\* util.AddFinalizer, r.Update.
UpdateFinalizer(o) ==
  /\ pc[o] = "updateFinalizer"
  /\ Write(o, [obj[o] EXCEPT !.finalizer = TRUE], "reconcileNamespace")
  /\ UNCHANGED <<ns, bindings, projects, templates, cache, todo, calm>>

\* owner.ReconcileOwnedObjects for the one namespace: it is created when the
\* cache has none, which fails if the server has one (a terminating one included).
ReconcileNamespace(o) ==
  /\ pc[o] = "reconcileNamespace"
  /\ LET next == IF obj[o].namespace THEN "listMembers" ELSE "updateNamespaceName" IN
     \/ /\ cache[o].ns # "absent"
        /\ Goto(o, next)
        /\ UNCHANGED <<ns, cache, pending, queue, obj, current, subjects, todo>>
     \/ /\ cache[o].ns = "absent" /\ ns[o] = "absent"
        /\ SetNamespace(o, "active")
        /\ Goto(o, next)
        /\ UNCHANGED <<obj, current, subjects, todo>>
     \/ /\ cache[o].ns = "absent" /\ ns[o] # "absent"
        /\ ReturnError(o)
        /\ UNCHANGED <<ns, cache, pending>>
  /\ UNCHANGED <<org, bindings, projects, templates, calm>>

\* Faulty: the name is kept in memory only.
ForgetNamespaceName(o) ==
  /\ pc[o] = "updateNamespaceName"
  /\ Write(o, obj[o], "listMembers")
  /\ UNCHANGED <<ns, bindings, projects, templates, cache, todo, calm>>

\* status.namespace is filled in once.
UpdateNamespaceName(o) ==
  /\ pc[o] = "updateNamespaceName"
  /\ Write(o, [obj[o] EXCEPT !.namespace = TRUE], "listMembers")
  /\ UNCHANGED <<ns, bindings, projects, templates, cache, todo, calm>>

\* The subjects of the cached RoleBindings and of the cached ready Projects.
MembersIn(v) ==
  v.bindings \cup UNION {v.projects[p].members : p \in {q \in Projects : v.projects[q].ready}}

\* The two List calls of reconcileMembers read the caches.
ListMembers(o) ==
  /\ pc[o] = "listMembers"
  /\ subjects' = [subjects EXCEPT ![o] = MembersIn(cache[o])]
  /\ Goto(o, "updateMembers")
  /\ UNCHANGED <<apiVars, cache, pending, queue, obj, current, todo, calm>>

\* status.members is written on every call, then the templates are checked.
UpdateMembers(o) ==
  /\ pc[o] = "updateMembers"
  /\ Write(o, [obj[o] EXCEPT !.members = subjects[o]], "checkTemplates")
  /\ todo' = [todo EXCEPT ![o] = IF Accepts(o) THEN Templates ELSE {}]
  /\ UNCHANGED <<ns, bindings, projects, templates, cache, calm>>

\* One iteration of checkOrganizationRoleTemplatesForOwners: created, or
\* AlreadyExists and passed over.
CheckTemplate(o) ==
  /\ pc[o] = "checkTemplates"
  /\ \E t \in todo[o] :
       /\ templates' = templates \cup {t}
       /\ IF todo[o] # {t}
          THEN /\ todo' = [todo EXCEPT ![o] = @ \ {t}]
               /\ UNCHANGED <<pc, obj, current, subjects>>
          ELSE IF IsReady(obj[o]) THEN Return(o)
          ELSE /\ todo' = [todo EXCEPT ![o] = {}]
               /\ Goto(o, "updateReady")
               /\ UNCHANGED <<obj, current, subjects>>
  /\ UNCHANGED <<org, ns, bindings, projects, cache, pending, queue, calm>>

\* The Organization is declared ready and Reconcile returns.
UpdateReady(o) ==
  /\ pc[o] = "updateReady"
  /\ \/ /\ Accepts(o)
        /\ org' = [org EXCEPT ![o] = SetReady(obj[o], "True")]
        /\ Notify(o, "Organization")
        /\ Return(o)
        /\ UNCHANGED queue
     \/ /\ ~Accepts(o)
        /\ ReturnError(o)
        /\ UNCHANGED <<org, pending>>
  /\ UNCHANGED <<ns, bindings, projects, templates, cache, calm>>

----------------------------------------------------------------------------
(* handleDeletion. *)

UpdateTerminating(o) ==
  /\ pc[o] = "updateTerminating"
  /\ Write(o, SetReady(obj[o], "Terminating"), "deleteObjects")
  /\ UNCHANGED <<ns, bindings, projects, templates, cache, todo, calm>>

\* Faulty: a namespace that is being deleted does not count.
CleanedUpSoon(o) == cache[o].ns # "active"
\* util.DeleteObjects lists the owned namespaces in the cache and deletes them;
\* cleanedUp: the list was empty.
CleanedUp(o) == cache[o].ns = "absent"

\* Unless everything is cleaned up the call returns, and the deletion of the
\* namespace will queue the Organization again.
DeleteObjects(o) ==
  /\ pc[o] = "deleteObjects"
  /\ \/ /\ CleanedUp(o) /\ obj[o].finalizer
        /\ Goto(o, "removeFinalizer")
        /\ UNCHANGED <<ns, cache, pending, queue, obj, current, subjects, todo>>
     \/ /\ CleanedUp(o) /\ ~obj[o].finalizer
        /\ Return(o)
        /\ UNCHANGED <<ns, cache, pending, queue>>
     \/ /\ ~CleanedUp(o)
        /\ IF ns[o] = "active" THEN SetNamespace(o, "terminating")
                               ELSE UNCHANGED <<ns, cache, pending, queue>>
        /\ Return(o)
  /\ UNCHANGED <<org, bindings, projects, templates, calm>>

\* util.RemoveFinalizer, r.Update: the last write of the Organization's life.
RemoveFinalizer(o) ==
  /\ pc[o] = "removeFinalizer"
  /\ \/ /\ Accepts(o)
        /\ org' = [org EXCEPT ![o] = WithoutFinalizer(obj[o])]
        /\ Notify(o, "Organization")
        /\ Return(o)
        /\ UNCHANGED queue
     \/ /\ ~Accepts(o)
        /\ ReturnError(o)
        /\ UNCHANGED <<org, pending>>
  /\ UNCHANGED <<ns, bindings, projects, templates, cache, calm>>

\* The steps after Start.
Continue(o) ==
  \/ UpdateFinalizer(o) \/ ReconcileNamespace(o) \/ UpdateNamespaceName(o)
  \/ ListMembers(o) \/ UpdateMembers(o) \/ CheckTemplate(o) \/ UpdateReady(o)
  \/ UpdateTerminating(o) \/ DeleteObjects(o) \/ RemoveFinalizer(o)

----------------------------------------------------------------------------
(* The informers.  A delivered event updates the cache and makes requests.  *)

Latest(o) == [org |-> org[o], ns |-> ns[o], bindings |-> bindings[o], projects |-> projects[o]]

Deliver(o, kind) ==
  /\ kind \in pending[o]
  /\ cache' = [cache EXCEPT ![o] =
       CASE kind = "Organization" -> [@ EXCEPT !.org = org[o]]
         [] kind = "Namespace"    -> [@ EXCEPT !.ns = ns[o]]
         [] kind = "RoleBinding"  -> [@ EXCEPT !.bindings = bindings[o]]
         [] kind = "Project"      -> [@ EXCEPT !.projects = projects[o]]]
  /\ pending' = [pending EXCEPT ![o] = @ \ {kind}]
  /\ queue' = queue \cup Requests(o, kind)
  /\ UNCHANGED <<apiVars, taskVars, calm>>

----------------------------------------------------------------------------
(* The namespace controller of Kubernetes: it empties a terminating         *)
(* namespace, then removes it.                                              *)

PurgeNamespace(o) ==
  /\ ns[o] = "terminating"
  /\ \/ /\ bindings[o] # {}
        /\ bindings' = [bindings EXCEPT ![o] = {}]
        /\ Notify(o, "RoleBinding")
        /\ UNCHANGED projects
     \/ /\ projects[o] # NoContents
        /\ projects' = [projects EXCEPT ![o] = NoContents]
        /\ Notify(o, "Project")
        /\ UNCHANGED bindings
  /\ UNCHANGED <<org, ns, templates, cache, queue, taskVars, calm>>

RemoveNamespace(o) ==
  /\ ns[o] = "terminating"
  /\ bindings[o] = {} /\ projects[o] = NoContents
  /\ SetNamespace(o, "absent")
  /\ UNCHANGED <<org, bindings, projects, templates, taskVars, calm>>

----------------------------------------------------------------------------
(* Users and the Project controller, seen from here. *)

\* Any write of the Organization by somebody else makes the copy in the
\* Reconcile call outdated.
ChangeOrganization(o, new) ==
  /\ org' = [org EXCEPT ![o] = new]
  /\ Notify(o, "Organization")
  /\ current' = [current EXCEPT ![o] = FALSE]
  /\ UNCHANGED <<ns, bindings, projects, templates, cache, queue,
                 pc, obj, subjects, todo, calm>>

CreateOrganization(o) ==
  /\ ~calm /\ ~org[o].present
  /\ \E owners \in OwnerSets, held \in Holds :
       ChangeOrganization(o, NewObject(owners, held))

\* Whoever put another finalizer on the Organization removes it.
ReleaseHold(o) ==
  /\ org[o].present /\ org[o].deleting /\ org[o].held
  /\ ChangeOrganization(o, WithoutHold(org[o]))

UpdateOwners(o) ==
  /\ ~calm /\ org[o].present
  /\ \E owners \in OwnerSets \ {org[o].owners} :
       ChangeOrganization(o, WithOwners(org[o], owners))

DeleteOrganization(o) ==
  /\ ~calm /\ org[o].present /\ ~org[o].deleting
  /\ ChangeOrganization(o, Deleted(org[o]))

\* RoleBindings come and go; nothing is created in a terminating namespace.
ChangeBindings(o) ==
  /\ ~calm /\ ns[o] # "absent"
  /\ \E s \in Subjects :
       \/ /\ ns[o] = "active" /\ s \notin bindings[o]
          /\ bindings' = [bindings EXCEPT ![o] = @ \cup {s}]
       \/ /\ s \in bindings[o]
          /\ bindings' = [bindings EXCEPT ![o] = @ \ {s}]
  /\ Notify(o, "RoleBinding")
  /\ UNCHANGED <<org, ns, projects, templates, cache, queue, taskVars, calm>>

\* The status of a Project changes, or the Project appears or disappears.
ChangeProject(o) ==
  /\ ~calm /\ ns[o] = "active"
  /\ \E p \in Projects, v \in ProjectView :
       /\ v # projects[o][p]
       /\ projects' = [projects EXCEPT ![o][p] = v]
  /\ Notify(o, "Project")
  /\ UNCHANGED <<org, ns, bindings, templates, cache, queue, taskVars, calm>>

\* Somebody other than the controller deletes the namespace.
DeleteNamespace(o) ==
  /\ ~calm /\ ns[o] = "active"
  /\ SetNamespace(o, "terminating")
  /\ UNCHANGED <<org, bindings, projects, templates, taskVars, calm>>

----------------------------------------------------------------------------
(* Faults. *)

\* An API call of a running Reconcile fails, before or after it took effect.
FailCall(o) ==
  /\ ~calm /\ pc[o] # "idle"
  /\ ReturnError(o)
  /\ UNCHANGED <<apiVars, cache, pending, calm>>

\* The manager process stops at any point and starts again: its informers list
\* everything and queue every Organization they hear of.
Restart ==
  /\ ~calm
  /\ cache' = [o \in Orgs |-> Latest(o)]
  /\ pending' = [o \in Orgs |-> {}]
  /\ queue' = {o \in Orgs : org[o].present \/ ns[o] # "absent"}
  /\ pc' = [o \in Orgs |-> "idle"]
  /\ obj' = [o \in Orgs |-> NoObject]
  /\ current' = [o \in Orgs |-> FALSE]
  /\ subjects' = [o \in Orgs |-> {}]
  /\ todo' = [o \in Orgs |-> {}]
  /\ UNCHANGED <<apiVars, calm>>

\* From now on there are neither user actions nor faults.
BecomeCalm ==
  /\ ~calm
  /\ calm' = TRUE
  /\ UNCHANGED <<apiVars, cache, pending, queue, taskVars>>

----------------------------------------------------------------------------
Controller(o) == Start(o) \/ Continue(o)

System(o) ==
  \/ Controller(o)
  \/ \E kind \in Kinds : Deliver(o, kind)
  \/ PurgeNamespace(o) \/ RemoveNamespace(o) \/ ReleaseHold(o)

Environment(o) ==
  \/ CreateOrganization(o) \/ UpdateOwners(o) \/ DeleteOrganization(o)
  \/ ChangeBindings(o) \/ ChangeProject(o) \/ DeleteNamespace(o)
  \/ FailCall(o)

Next == (\E o \in Orgs : System(o) \/ Environment(o)) \/ Restart \/ BecomeCalm

Spec == Init /\ [][Next]_vars

\* The workqueue is first in, first out: a queued name gets its turn (SF), a
\* running call goes on, informers deliver, terminating namespaces and other
\* finalizers go.
Fairness ==
  \A o \in Orgs :
    /\ SF_vars(Start(o))
    /\ WF_vars(Continue(o))
    /\ \A kind \in Kinds : WF_vars(Deliver(o, kind))
    /\ WF_vars(PurgeNamespace(o) \/ RemoveNamespace(o))
    /\ WF_vars(ReleaseHold(o))

FairSpec == Spec /\ Fairness

----------------------------------------------------------------------------
(* Properties. *)

\* A namespace is created only for an Organization that exists and carries the
\* controller's finalizer, however old the cached copy is that Reconcile works
\* on: reconcileNamespace runs after the finalizer has been seen or written.
NamespaceUnderFinalizer ==
  [][\A o \in Orgs : ns[o] = "absent" /\ ns'[o] = "active"
                       => org[o].present /\ org[o].finalizer]_vars

\* The writes of Reconcile send the whole object back.  They never undo what
\* somebody else has written since it was read: the owners, the deletion mark,
\* a foreign finalizer.
KeepsOthersWrites ==
  [][\A o \in Orgs : Controller(o) /\ org'[o].present
       => /\ org'[o].owners = org[o].owners
          /\ org'[o].deleting = org[o].deleting
          /\ org'[o].held = org[o].held]_vars

\* Once Terminating, an Organization is never declared ready again, and one
\* marked for deletion does not become ready by a call that began before.
TerminatingIsFinal ==
  [][\A o \in Orgs : org[o].deleting /\ org'[o].present
       => \/ org'[o].ready = org[o].ready
          \/ org'[o].ready = "Terminating"]_vars

\* Whoever finds an Organization declared ready may use status.namespace (the
\* OrganizationRoleTemplate controller dereferences it) and finds the default
\* templates; and its namespace will be cleaned up.
ReadyMeansSetUp ==
  \A o \in Orgs : org[o].ready = "True"
    => org[o].finalizer /\ org[o].namespace /\ templates = Templates

\* Every namespace has an Organization that will clean it up.
NoOrphanNamespace ==
  \A o \in Orgs : ns[o] # "absent" => org[o].present /\ org[o].finalizer

\* A namespace is left when its Organization has lost the finalizer, or is about to.
\* The list of handleDeletion, which the cache answers, is all that guards it: a
\* namespace is left only by a call that lists while the event of the namespace
\* is still on its way, whatever else lags, conflicts, fails or restarts.
Left(o) ==
  /\ ns[o] # "absent"
  /\ ~(org[o].present /\ org[o].finalizer) \/ pc[o] = "removeFinalizer"
OnlyUnshownIsLeft ==
  [][\A o \in Orgs : Left(o)' /\ ~Left(o)
       => pc[o] = "deleteObjects" /\ cache[o].ns = "absent" /\ "Namespace" \in pending[o]]_vars

\* An Organization, its namespace and what the controller is shown of it keep the
\* promise of GuardedOwnership: the finalizer goes only after a look, since the
\* deletion, that showed no namespace, and none is created after that look.
PhaseOf(organization) ==
  CASE ~organization.present -> "none"
    [] organization.present /\ ~organization.deleting /\ ~organization.finalizer -> "created"
    [] organization.present /\ ~organization.deleting /\ organization.finalizer -> "guarded"
    [] organization.present /\ organization.deleting /\ organization.finalizer -> "condemned"
    [] organization.present /\ organization.deleting /\ ~organization.finalizer -> "leaving"

\* The call has found nothing and goes on to remove the finalizer.
Cleared(o) == pc[o] = "removeFinalizer" /\ org[o].finalizer

Ownership == INSTANCE GuardedOwnership WITH
  Objects   <- Orgs,
  phase     <- [o \in Orgs |-> PhaseOf(org[o])],
  dependent <- ns,
  shown     <- [o \in Orgs |-> cache[o].ns],
  cleared   <- {o \in Orgs : Cleared(o)}

KeepsOwnership == Ownership!Spec

\* What the controller works towards: an Organization marked for deletion is
\* gone, any other is completely set up and lists its members.
Converged(o) ==
  org[o].present =>
    /\ IsReady(org[o])
    /\ org[o].finalizer /\ org[o].namespace /\ ns[o] = "active"
    /\ org[o].members = MembersIn(Latest(o))
    /\ templates = Templates

\* Nothing is going on: no event, request or call, no one to wait for.
Quiescent(o) ==
  /\ pending[o] = {} /\ o \notin queue /\ pc[o] = "idle"
  /\ ns[o] # "terminating" /\ ~(org[o].deleting /\ org[o].held)

\* No wakeup is lost: the controller rests only where it has nothing left to
\* do, whatever events were merged, calls failed or processes restarted.
RestsOnlyWhenConverged == \A o \in Orgs : Quiescent(o) => Converged(o)

\* When users and faults stop, every Organization is set up, or removed, for
\* good: the retries after conflicts and the waits for the namespace end.
EventuallyConverged == calm ~> [](\A o \in Orgs : Converged(o))
=============================================================================
