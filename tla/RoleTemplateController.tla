----------------------- MODULE RoleTemplateController -----------------------
(***************************************************************************)
(* The OrganizationRoleTemplate controller of the Bulward manager          *)
(* (pkg/manager/internal/controllers/organizationroletemplate_controller.go)*)
(* and one template: it brings a Role, and for templates bound to owners a *)
(* RoleBinding, to the namespaces of all ready Organizations and Projects. *)
(*                                                                         *)
(* Templates share nothing but the worker, so one of them is enough.       *)
(* Informers, resource versions and generations are treated as in          *)
(* OrganizationController.                                                 *)
(***************************************************************************)
CONSTANTS Name,           \* the name of the template
          None,           \* no value
          Orgs,           \* names of Organizations
          ProjectNames,   \* names of the Projects of an Organization
          Owners,         \* values of spec.owners of an Organization
          Rules,          \* values of spec.rules of the template
          Specs,          \* specs the template may have
          Holds,          \* may the template have finalizers? {FALSE} or BOOLEAN
          RoleLag,        \* do the informers of Roles and RoleBindings lag?
          Alterations     \* do users alter the Roles and RoleBindings?

Projects == Orgs \X ProjectNames
Targets  == Orgs \cup Projects
Scopes   == {"Organization", "Project"}

ASSUME TemplateAssumption ==
  /\ Owners # {} /\ Rules # {}
  /\ Specs \subseteq [scopes : SUBSET Scopes, binds : BOOLEAN, rules : Rules]
  /\ Specs # {}
  /\ Holds \subseteq BOOLEAN
  /\ RoleLag \in BOOLEAN /\ Alterations \in BOOLEAN
  /\ Orgs \cap Projects = {}
  /\ Name \notin Targets /\ None \notin Owners \cup Targets

VARIABLES
  \* The API server.
  template,      \* the OrganizationRoleTemplate
  phase,         \* phase[x]: of the target x and its namespace
  owners,        \* owners[o]: spec.owners of Organization o, None if it is absent
  rbac,          \* rbac[x]: its Role and its RoleBinding named after the template
  \* The manager process.
  cache,         \* what its informers show of the template and the targets
  pending,       \* what has changed and is not shown yet
  seen,          \* what its informers show of rbac
  outdated,      \* the entries of seen that have changed
  queued,        \* the template is in the workqueue
  pc,            \* the running Reconcile call
  obj,           \* its variable organizationRoleTemplate
  current,       \* obj carries the stored resourceVersion
  former,        \* the template that obj is a copy of has been removed
  listed,        \* its variable organizations: owners of the ready ones
  left,          \* the Organizations whose Projects it has still to list
  todo,          \* the targets it has still to reconcile
  at,            \* the target whose Role is done and whose RoleBinding is not
  done,          \* its variable targets
  \* The environment.
  calm           \* users and faults have stopped for good

targetVars == <<phase, owners>>
cacheVars  == <<cache, pending, seen, outdated>>
callVars   == <<pc, obj, current, former, listed, left, todo, at, done>>
vars       == <<template, targetVars, rbac, cacheVars, queued, callVars, calm>>

Kinds == {"Role", "RoleBinding"}

\* observed: status.observedGeneration = metadata.generation.
Template ==
  [ present : BOOLEAN, deleting : BOOLEAN, held : BOOLEAN, spec : Specs,
    observed : BOOLEAN, ready : {"Unset", "True", "Terminating"}, targets : SUBSET Targets ]

NewTemplate(spec, held) ==
  [ present |-> TRUE, deleting |-> FALSE, held |-> held, spec |-> spec,
    observed |-> FALSE, ready |-> "Unset", targets |-> {} ]
NoTemplate == [NewTemplate(CHOOSE s \in Specs : TRUE, FALSE) EXCEPT !.present = FALSE]

IsReady(t) == ~t.deleting /\ t.observed /\ t.ready = "True"

\* unready: not IsReady, with an active namespace; leaving: both are being deleted.
Phases == {"absent", "unready", "ready", "leaving"}

\* owner: the controller reference is to the present template, to a former one
\* of the same name, or there is none.
Content(k) == IF k = "Role" THEN Rules ELSE Owners
Entry(k)   == [content : Content(k), owner : {"current", "former", "nobody"}]
Rbac       == [Targets -> {e \in [Kinds -> Entry("Role") \cup Entry("RoleBinding") \cup {None}] :
                             \A k \in Kinds : e[k] \in Entry(k) \cup {None}}]
NoRbac     == [x \in Targets |-> [k \in Kinds |-> None]]

\* former: the template shown has been removed; owners: of ready Organizations.
Cache == [template : Template, former : BOOLEAN,
          ready : SUBSET Targets, owners : [Orgs -> Owners \cup {None}]]

NoOwners == [o \in Orgs |-> None]

TypeOK ==
  /\ template \in Template
  /\ phase \in [Targets -> Phases]
  /\ owners \in [Orgs -> Owners \cup {None}]
  /\ rbac \in Rbac
  /\ cache \in Cache /\ pending \subseteq {Name} \cup Targets
  /\ seen \in Rbac /\ outdated \subseteq Targets \X Kinds
  /\ queued \in BOOLEAN
  /\ pc \in {"idle", "reconcile", "updateTerminating"}
  /\ obj \in Template /\ current \in BOOLEAN /\ former \in BOOLEAN
  /\ listed \in [Orgs -> Owners \cup {None}]
  /\ left \subseteq Orgs /\ todo \subseteq Targets /\ done \subseteq Targets
  /\ todo \cap done = {}
  /\ at \in todo \cup {None}
  /\ calm \in BOOLEAN

Init ==
  /\ template = NoTemplate
  /\ phase = [x \in Targets |-> "absent"]
  /\ owners = NoOwners
  /\ rbac = NoRbac
  /\ cache = [template |-> NoTemplate, former |-> FALSE, ready |-> {}, owners |-> NoOwners]
  /\ pending = {} /\ seen = NoRbac /\ outdated = {} /\ queued = FALSE
  /\ pc = "idle" /\ obj = NoTemplate /\ current = FALSE /\ former = FALSE
  /\ listed = NoOwners /\ left = {} /\ todo = {} /\ at = None /\ done = {}
  /\ calm = FALSE

OrganizationOf(x) == IF x \in Orgs THEN x ELSE x[1]

----------------------------------------------------------------------------
(* The Reconcile call. *)

\* Faulty: the loop variables outlive the call.
ReturnDirty ==
  /\ pc' = "idle" /\ obj' = NoTemplate /\ current' = FALSE /\ former' = FALSE
  /\ listed' = NoOwners
  /\ UNCHANGED <<left, todo, at, done>>

Return ==
  /\ pc' = "idle" /\ obj' = NoTemplate /\ current' = FALSE /\ former' = FALSE
  /\ listed' = NoOwners /\ left' = {} /\ todo' = {} /\ at' = None /\ done' = {}

\* Faulty: the error is only logged.
ReturnNoError == Return /\ UNCHANGED queued

\* Reconcile returns an error: the request is queued again.
ReturnError == Return /\ queued' = TRUE

\* The Role is brought to the targets of a scope that the template has.
TargetsOf(scope, candidates) == IF scope \in cache.template.spec.scopes THEN candidates ELSE {}

\* The template and all Organizations are read from the caches.  A template
\* marked for deletion is only reported Terminating.
Start ==
  /\ queued /\ pc = "idle"
  /\ queued' = FALSE
  /\ LET t     == cache.template
         ready == Orgs \cap cache.ready
     IN IF ~t.present \/ (t.deleting /\ t.ready = "Terminating") THEN UNCHANGED callVars
        ELSE /\ obj' = t
             /\ current' = (Name \notin pending)
             /\ former' = cache.former
             /\ IF t.deleting
                THEN /\ pc' = "updateTerminating"
                     /\ UNCHANGED <<listed, left, todo>>
                ELSE /\ pc' = "reconcile"
                     /\ listed' = cache.owners
                     /\ todo' = TargetsOf("Organization", ready)
                     /\ left' = TargetsOf("Project", ready)
             /\ UNCHANGED <<at, done>>
  /\ UNCHANGED <<template, targetVars, rbac, cacheVars, calm>>

\* An entry as Reconcile writes it.  Faulty: without SetControllerReference.
EntryUnowned(content) == [content |-> content, owner |-> "nobody"]
EntryOf(content)      == [content |-> content, owner |-> IF former THEN "former" ELSE "current"]

\* The entry of x changes in the API server.
Put(x, k, entry) ==
  /\ rbac' = [rbac EXCEPT ![x][k] = entry]
  /\ IF RoleLag THEN /\ outdated' = outdated \cup {<<x, k>>}
                     /\ UNCHANGED seen
                ELSE /\ seen' = [seen EXCEPT ![x][k] = entry]
                     /\ UNCHANGED outdated

\* controllerutil.CreateOrUpdate with SetControllerReference: the cached entry is
\* compared with the desired one.  There may be nothing to do, or something to
\* create or to update, which the server may refuse: the entry exists, the
\* namespace is being deleted or gone, the cached entry is not the stored one.
\* References are told apart by name: that to a former template is replaced.
\*
\* Faulty: whatever is there is good enough.
InPlaceIfPresent(x, k, content) == seen[x][k] # None
InPlace(x, k, content) == seen[x][k] = EntryOf(content)
MayCreate(x, k) ==
  /\ seen[x][k] = None /\ rbac[x][k] = None
  /\ phase[x] \in {"unready", "ready"}
MayUpdate(x, k, content) ==
  /\ seen[x][k] # None /\ ~InPlace(x, k, content)
  /\ <<x, k>> \notin outdated

Reconciled(x, k, content) ==
  \/ /\ InPlace(x, k, content)
     /\ UNCHANGED <<rbac, seen, outdated>>
  \/ /\ MayCreate(x, k) \/ MayUpdate(x, k, content)
     /\ Put(x, k, EntryOf(content))

Refused(x, k, content) ==
  ~InPlace(x, k, content) /\ ~MayCreate(x, k) /\ ~MayUpdate(x, k, content)

\* The target is added to status.targets.
Complete(x) == todo' = todo \ {x} /\ done' = done \cup {x}

\* reconcileRole, from reconcileRBACForOrganization or reconcileRBACForProject.
ReconcileRole(x) ==
  /\ pc = "reconcile" /\ at = None /\ x \in todo
  /\ \/ /\ Reconciled(x, "Role", obj.spec.rules)
        /\ IF obj.spec.binds THEN at' = x /\ UNCHANGED <<todo, done>>
                             ELSE Complete(x) /\ UNCHANGED at
        /\ UNCHANGED <<queued, pc, obj, current, former, listed, left>>
     \/ /\ Refused(x, "Role", obj.spec.rules)
        /\ ReturnError
        /\ UNCHANGED <<rbac, seen, outdated>>
  /\ UNCHANGED <<template, targetVars, cache, pending, calm>>

\* reconcileRoleBinding: the owners of the Organization, for its Projects too.
ReconcileRoleBinding(x) ==
  /\ pc = "reconcile" /\ at = x
  /\ LET subjects == listed[OrganizationOf(x)] IN
     \/ /\ Reconciled(x, "RoleBinding", subjects)
        /\ Complete(x)
        /\ at' = None
        /\ UNCHANGED <<queued, pc, obj, current, former, listed, left>>
     \/ /\ Refused(x, "RoleBinding", subjects)
        /\ ReturnError
        /\ UNCHANGED <<rbac, seen, outdated>>
  /\ UNCHANGED <<template, targetVars, cache, pending, calm>>

\* The Projects of the next Organization are listed, later than the Organizations.
ListProjects(o) ==
  /\ pc = "reconcile" /\ todo = {} /\ o \in left
  /\ left' = left \ {o}
  /\ todo' = {p \in Projects \cap cache.ready : OrganizationOf(p) = o}
  /\ UNCHANGED <<template, targetVars, rbac, cacheVars, queued, pc, obj, current, former,
                 listed, at, done, calm>>

Notify(what) == pending' = pending \cup {what}

\* Faulty: written although somebody else has changed the template.
AcceptsAny == template.present
\* The server accepts an update of the status from a current copy.
Accepts == current

\* The status is written if the targets or the condition have changed.  The
\* targets are compared as lists, with generations, and a cache lists objects in
\* any order: the same targets may count as changed.
UpdateStatus ==
  /\ pc = "reconcile" /\ todo = {} /\ left = {}
  /\ \/ /\ obj.targets = done /\ IsReady(obj)
        /\ Return
        /\ UNCHANGED <<template, pending, queued>>
     \/ /\ obj.targets # done \/ ~IsReady(obj) \/ done # {}
        /\ Accepts
        /\ template' = [obj EXCEPT !.targets = done, !.observed = TRUE, !.ready = "True"]
        /\ Notify(Name)
        /\ Return
        /\ UNCHANGED queued
     \/ /\ obj.targets # done \/ ~IsReady(obj) \/ done # {}
        /\ ~Accepts
        /\ ReturnError
        /\ UNCHANGED <<template, pending>>
  /\ UNCHANGED <<targetVars, rbac, cache, seen, outdated, calm>>

\* handleDeletion.
UpdateTerminating ==
  /\ pc = "updateTerminating"
  /\ \/ /\ Accepts
        /\ template' = [obj EXCEPT !.observed = TRUE, !.ready = "Terminating"]
        /\ Notify(Name)
        /\ Return
        /\ UNCHANGED queued
     \/ /\ ~Accepts
        /\ ReturnError
        /\ UNCHANGED <<template, pending>>
  /\ UNCHANGED <<targetVars, rbac, cache, seen, outdated, calm>>

Continue ==
  \/ \E x \in Targets : ReconcileRole(x) \/ ReconcileRoleBinding(x)
  \/ \E o \in Orgs : ListProjects(o)
  \/ UpdateStatus \/ UpdateTerminating

----------------------------------------------------------------------------
(* The informers. *)

\* Faulty: without Watches(&storagev1alpha1.Organization{}).
RequestedProjectsOnly(what) == what = Name \/ (what \in Projects /\ cache.template.present)
\* An event of the template queues it, one of an Organization or a Project all
\* templates in the cache.
Requested(what) == what = Name \/ (what \in Targets /\ cache.template.present)

ReadyTargets  == {x \in Targets : phase[x] = "ready"}
OwnersOfReady == [o \in Orgs |-> IF phase[o] = "ready" THEN owners[o] ELSE None]

Deliver(what) ==
  /\ what \in pending
  /\ pending' = pending \ {what}
  /\ cache' = IF what = Name THEN [cache EXCEPT !.template = template, !.former = FALSE]
              ELSE [cache EXCEPT
                      !.ready = (@ \ {what}) \cup (ReadyTargets \cap {what}),
                      !.owners = [o \in Orgs |-> IF o = what THEN OwnersOfReady[o] ELSE cache.owners[o]]]
  /\ queued' = (queued \/ Requested(what))
  /\ UNCHANGED <<template, targetVars, rbac, seen, outdated, callVars, calm>>

\* Every SyncPeriod, ten hours unless the manager sets it, the informers hand over
\* all that is in their caches once more.
Resync ==
  /\ cache.template.present
  /\ queued' = TRUE
  /\ UNCHANGED <<template, targetVars, rbac, cacheVars, callVars, calm>>

\* Nobody is told: the controller does not watch Roles and RoleBindings.
DeliverRole(x, k) ==
  /\ <<x, k>> \in outdated
  /\ outdated' = outdated \ {<<x, k>>}
  /\ seen' = [seen EXCEPT ![x][k] = rbac[x][k]]
  /\ UNCHANGED <<template, targetVars, rbac, cache, pending, queued, callVars, calm>>

----------------------------------------------------------------------------
(* Kubernetes: the garbage collector and the namespace controller. *)

Remove(x, k) ==
  /\ rbac[x][k] # None
  /\ Put(x, k, None)
  /\ UNCHANGED <<template, targetVars, cache, pending, queued, callVars, calm>>

CollectGarbage(x, k) == rbac[x][k] # None /\ rbac[x][k].owner = "former" /\ Remove(x, k)

PurgeNamespace(x) == phase[x] = "leaving" /\ \E k \in Kinds : Remove(x, k)

SetPhase(x, new) ==
  /\ phase' = [phase EXCEPT ![x] = new]
  /\ Notify(x)
  /\ UNCHANGED <<template, rbac, cache, seen, outdated, queued, callVars, calm>>

Empty(x) == \A k \in Kinds : rbac[x][k] = None

\* The Projects of an Organization go with its namespace.
RemoveTarget(x) ==
  \/ /\ phase[x] = "leaving" /\ Empty(x)
     /\ x \in Orgs => \A p \in Projects : OrganizationOf(p) = x => phase[p] = "absent"
     /\ SetPhase(x, "absent")
     /\ owners' = [o \in Orgs |-> IF o = x THEN None ELSE owners[o]]
  \/ /\ x \in Projects /\ phase[x] \in {"unready", "ready"}
     /\ phase[OrganizationOf(x)] = "leaving"
     /\ SetPhase(x, "leaving")
     /\ UNCHANGED owners

----------------------------------------------------------------------------
(* The Organization and Project controllers, and the users, seen from here. *)

CreateTarget(x) ==
  /\ ~calm /\ phase[x] = "absent"
  /\ x \in Projects => phase[OrganizationOf(x)] \in {"unready", "ready"}
  /\ IF x \in Orgs THEN \E v \in Owners : owners' = [owners EXCEPT ![x] = v] ELSE UNCHANGED owners
  /\ SetPhase(x, "unready")

BecomeReady(x) ==
  /\ ~calm /\ phase[x] = "unready"
  /\ SetPhase(x, "ready")
  /\ UNCHANGED owners

\* A change of the spec makes the Organization unready until its controller has
\* seen it.
ChangeOwners(o) ==
  /\ ~calm /\ phase[o] \in {"unready", "ready"}
  /\ \E v \in Owners \ {owners[o]} : owners' = [owners EXCEPT ![o] = v]
  /\ SetPhase(o, "unready")

DeleteTarget(x) ==
  /\ ~calm /\ phase[x] \in {"unready", "ready"}
  /\ SetPhase(x, "leaving")
  /\ UNCHANGED owners

\* A write of the template by somebody else.
ChangeTemplate(new) ==
  /\ template' = new
  /\ Notify(Name)
  /\ current' = FALSE
  /\ UNCHANGED <<targetVars, outdated, queued, pc, obj, listed, left, todo, at, done, calm>>

CreateTemplate ==
  /\ ~calm /\ ~template.present
  /\ \E spec \in Specs, held \in Holds : ChangeTemplate(NewTemplate(spec, held))
  /\ UNCHANGED <<rbac, cache, seen, former>>

UpdateSpec ==
  /\ ~calm /\ template.present
  /\ \E spec \in Specs \ {template.spec} :
       ChangeTemplate([template EXCEPT !.spec = spec, !.observed = FALSE])
  /\ UNCHANGED <<rbac, cache, seen, former>>

\* What referred to the template refers to a former one now.
Orphaned(r) ==
  [x \in Targets |-> [k \in Kinds |->
     IF r[x][k] # None /\ r[x][k].owner = "current" THEN [r[x][k] EXCEPT !.owner = "former"]
                                                   ELSE r[x][k]]]

Disappear ==
  /\ ChangeTemplate(NoTemplate)
  /\ rbac' = Orphaned(rbac) /\ seen' = Orphaned(seen)
  /\ cache' = [cache EXCEPT !.former = cache.template.present]
  /\ former' = (pc # "idle")

DeleteTemplate ==
  /\ ~calm /\ template.present /\ ~template.deleting
  /\ \/ /\ ~template.held
        /\ Disappear
     \/ /\ template.held
        /\ ChangeTemplate([template EXCEPT !.deleting = TRUE, !.observed = FALSE])
        /\ UNCHANGED <<rbac, cache, seen, former>>

\* Whoever put a finalizer on the template removes it.
ReleaseHold == template.present /\ template.deleting /\ Disappear

\* A user deletes or alters what the controller has made.
Alter(x, k) ==
  /\ Alterations /\ ~calm /\ rbac[x][k] # None
  /\ \/ Put(x, k, None)
     \/ \E v \in Content(k) \ {rbac[x][k].content} : Put(x, k, [rbac[x][k] EXCEPT !.content = v])
  /\ UNCHANGED <<template, targetVars, cache, pending, queued, callVars, calm>>

----------------------------------------------------------------------------
(* Faults. *)

FailCall ==
  /\ ~calm /\ pc # "idle"
  /\ ReturnError
  /\ UNCHANGED <<template, targetVars, rbac, cacheVars, calm>>

Restart ==
  /\ ~calm
  /\ cache' = [template |-> template, former |-> FALSE,
               ready |-> ReadyTargets, owners |-> OwnersOfReady]
  /\ pending' = {} /\ seen' = rbac /\ outdated' = {}
  /\ Return
  /\ queued' = template.present
  /\ UNCHANGED <<template, targetVars, rbac, calm>>

BecomeCalm ==
  /\ ~calm
  /\ calm' = TRUE
  /\ UNCHANGED <<template, targetVars, rbac, cacheVars, queued, callVars>>

----------------------------------------------------------------------------
System ==
  \/ Start \/ Continue \/ Resync
  \/ \E what \in {Name} \cup Targets : Deliver(what)
  \/ \E x \in Targets : \/ \E k \in Kinds : DeliverRole(x, k) \/ CollectGarbage(x, k)
                         \/ PurgeNamespace(x) \/ RemoveTarget(x)
  \/ ReleaseHold

Environment ==
  \/ \E x \in Targets : \/ CreateTarget(x) \/ BecomeReady(x) \/ DeleteTarget(x)
                         \/ \E k \in Kinds : Alter(x, k)
  \/ \E o \in Orgs : ChangeOwners(o)
  \/ CreateTemplate \/ UpdateSpec \/ DeleteTemplate
  \/ FailCall \/ Restart

Next == System \/ Environment \/ BecomeCalm

Spec == Init /\ [][Next]_vars

Fairness ==
  /\ SF_vars(Start) /\ WF_vars(Continue) /\ WF_vars(Resync)
  /\ \A what \in {Name} \cup Targets : WF_vars(Deliver(what))
  /\ \A x \in Targets : /\ WF_vars(PurgeNamespace(x)) /\ WF_vars(RemoveTarget(x))
                        /\ \A k \in Kinds : WF_vars(DeliverRole(x, k)) /\ WF_vars(CollectGarbage(x, k))
  /\ WF_vars(ReleaseHold)

FairSpec == Spec /\ Fairness
----------------------------------------------------------------------------
(* Properties. *)

InScope(x) ==
  /\ phase[x] = "ready" /\ phase[OrganizationOf(x)] = "ready"
  /\ (IF x \in Orgs THEN "Organization" ELSE "Project") \in template.spec.scopes

\* What the template means x to have; there is nothing to have of a RoleBinding
\* if it binds nobody.
AsWanted(x, k) ==
  CASE k = "Role" ->
         rbac[x][k] = [content |-> template.spec.rules, owner |-> "current"]
    [] k = "RoleBinding" /\ template.spec.binds ->
         rbac[x][k] = [content |-> owners[OrganizationOf(x)], owner |-> "current"]
    [] OTHER -> TRUE

\* Every ready Organization and Project in scope has the Role of the template,
\* and grants it to the present owners of the Organization if the template says so.
Granted ==
  template.present /\ ~template.deleting =>
    \A x \in Targets, k \in Kinds : InScope(x) => AsWanted(x, k)

\* The controller rests only when it has reported what it has done: the template is
\* ready and lists its targets, or is Terminating.
Quiescent == pending = {} /\ ~queued /\ pc = "idle"
RestsOnlyWhenReported ==
  Quiescent /\ template.present =>
    IF template.deleting THEN template.ready = "Terminating"
    ELSE IsReady(template) /\ template.targets = {x \in Targets : InScope(x)}

\* Where Roles and RoleBindings are shown at once and nobody else touches them, it
\* rests only when they are in place as well, whatever changed between the lists,
\* the writes and the events.
RestsOnlyWhenGranted == RestsOnlyWhenReported /\ (Quiescent => Granted)

\* The controller is done with an entry of x: nothing that is known to have changed,
\* and no call that is still to come there, leads it back.
Settled(x, k) ==
  /\ ~queued /\ {Name, x, OrganizationOf(x)} \cap pending = {}
  /\ pc = "idle" \/ x \in done \/ (at = x /\ k = "Role")
Neglected(x, k) ==
  /\ template.present /\ ~template.deleting /\ InScope(x)
  /\ Settled(x, k) /\ ~AsWanted(x, k)

\* Of all that may go wrong between the lists, the writes and the events, only two
\* things make the controller leave an entry that is not as it should be: it is
\* compared while its own event is on the way, or altered by a user.  Nobody but a
\* resync leads the controller back to those.
OnlyOutdatedIsNeglected ==
  [][\A x \in Targets, k \in Kinds : Neglected(x, k)' /\ ~Neglected(x, k)
       => \/ <<x, k>> \in outdated /\ (ReconcileRole(x) \/ ReconcileRoleBinding(x))
          \/ Alter(x, k)]_vars

\* A template declared ready has its present rules, not those of an earlier
\* spec, in every target it lists that still has its Role: reports are not
\* ahead of the writes.
ReadyMeansWritten ==
  IsReady(template) =>
    \A x \in template.targets :
      rbac[x]["Role"] # None => rbac[x]["Role"].content = template.spec.rules

\* A Role counts as written, in the status of the template or in a call that is to
\* report it, with other rules than those that are reported.  Again only a Role that
\* is outdated when compared, or altered by a user, comes to be misreported: no change
\* of the spec, return of the template or outdated copy of it has that effect.
Misreported(x) ==
  /\ rbac[x]["Role"] # None
  /\ \/ /\ IsReady(template) /\ x \in template.targets
        /\ rbac[x]["Role"].content # template.spec.rules
     \/ /\ x \in done \cup {at}
        /\ rbac[x]["Role"].content # obj.spec.rules
OnlyOutdatedIsMisreported ==
  [][\A x \in Targets : Misreported(x)' /\ ~Misreported(x)
       => \/ <<x, "Role">> \in outdated /\ ReconcileRole(x)
          \/ Alter(x, "Role")]_vars

\* "Owner permissions are reconciled, if deleted or altered" (docs/concept.md):
\* when users and faults stop, the Roles and RoleBindings are in place for good,
\* whatever became of them, of the template and of the Organization before ...
EventuallyGranted == calm ~> []Granted

\* ... and nothing is left of a template that has been deleted, whatever a
\* running call still wrote.
EventuallyCollected == calm ~> [](~template.present => \A x \in Targets : Empty(x))
=============================================================================
