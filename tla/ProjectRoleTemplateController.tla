------------------- MODULE ProjectRoleTemplateController -------------------
(***************************************************************************)
(* The ProjectRoleTemplate controller of the Bulward manager               *)
(* (pkg/manager/internal/controllers/projectroletemplate_controller.go),   *)
(* one template, the Projects of its Organization, and the part of the     *)
(* Project controller that collects their members.                         *)
(*                                                                         *)
(* The two controllers feed each other: a template for everyone binds its  *)
(* Role to status.members of a Project, and the Project controller         *)
(* collects status.members from the RoleBindings in its namespace, that of *)
(* the template among them.                                                *)
(*                                                                         *)
(* Informers, resource versions and generations are treated as in          *)
(* OrganizationController.                                                 *)
(***************************************************************************)
EXTENDS SubjectList, FiniteSets

CONSTANTS Name,           \* the name of the template
          None,           \* no value
          Projects,       \* names of the Projects of the Organization
          Subjects,       \* subjects, by rank
          Invited,        \* those that users make RoleBindings for
          OwnerLists,     \* values of spec.owners of a Project
          Labels,         \* labels of Projects
          Rules,          \* values of spec.rules of the template
          Specs,          \* specs the template may have
          Holds,          \* may the template have other finalizers? {FALSE} or BOOLEAN
          Lagging         \* the kinds of entries of rbac whose events take their time

Bindings == {"Owners", "Everyone"}

\* The Role and the RoleBinding of the template, and all other RoleBindings.
Owned == {"Role", "RoleBinding"}
Kinds == Owned \cup {"others"}

ASSUME ProjectTemplateAssumption ==
  /\ Subjects \subseteq Nat /\ Invited \subseteq Subjects /\ IsFiniteSet(Invited)
  /\ Labels # {} /\ Rules # {} /\ Specs # {}
  /\ OwnerLists \subseteq Seq(Subjects) /\ OwnerLists # {}
  /\ Specs \subseteq [binds : SUBSET Bindings, selects : SUBSET Labels, rules : Rules]
  /\ Holds \subseteq BOOLEAN
  /\ Lagging \subseteq Kinds
  /\ Name \notin Projects /\ None \notin Rules \cup Seq(Subjects) \cup Projects

VARIABLES
  \* The API server.
  template,      \* the ProjectRoleTemplate
  prj,           \* prj[p]: the Project p
  rbac,          \* rbac[p]: the Roles and RoleBindings in its namespace
  \* The manager process.
  cache,         \* what its informers show of the template and the Projects
  pending,       \* what has changed and is not shown yet
  seen,          \* what its informers show of rbac
  outdated,      \* the parts of seen that have changed
  queued,        \* the template is in the workqueue of its controller
  projectQueue,  \* the Projects in the workqueue of the Project controller
  pc,            \* the running Reconcile call
  obj,           \* its variable projectRoleTemplate
  current,       \* obj carries the stored resourceVersion
  listed,        \* its variable selectedReadyProjects
  todo,          \* the Projects it has still to reconcile
  at,            \* the Project whose Role is done and whose RoleBinding is not
  done,          \* its variable targets
  \* The environment.
  calm           \* users and faults have stopped for good

cacheVars == <<cache, pending, seen, outdated>>
queueVars == <<queued, projectQueue>>
callVars  == <<pc, obj, current, listed, todo, at, done>>
vars      == <<template, prj, rbac, cacheVars, queueVars, callVars, calm>>

\* observed: status.observedGeneration = metadata.generation.
Template ==
  [ present : BOOLEAN, deleting : BOOLEAN, finalizer : BOOLEAN, held : BOOLEAN, spec : Specs,
    observed : BOOLEAN, ready : {"Unset", "True", "Terminating"}, targets : SUBSET Projects ]

NewTemplate(spec, held) ==
  [ present |-> TRUE, deleting |-> FALSE, finalizer |-> FALSE, held |-> held, spec |-> spec,
    observed |-> FALSE, ready |-> "Unset", targets |-> {} ]
NoTemplate == [NewTemplate(CHOOSE s \in Specs : TRUE, FALSE) EXCEPT !.present = FALSE]

IsReady(t)        == ~t.deleting /\ t.observed /\ t.ready = "True"
HasBinding(t, b)  == b \in t.spec.binds

\* unready: not IsReady, with an active namespace; leaving: both are being deleted.
Project ==
  [ phase : {"absent", "unready", "ready", "leaving"}, owners : OwnerLists \cup {<<>>},
    members : Seq(Subjects), label : Labels ]
NewProject(owners, label) ==
  [phase |-> "unready", owners |-> owners, members |-> <<>>, label |-> label]
NoProject == [NewProject(<<>>, CHOOSE l \in Labels : TRUE) EXCEPT !.phase = "absent"]

\* others: the subjects of the other RoleBindings, one of each.  A Role or
\* RoleBinding of the template carries labels that name its owner: one made for a
\* former template of that name counts as owned.
Namespace == [Role : Rules \cup {None}, RoleBinding : Seq(Subjects) \cup {None}, others : SUBSET Invited]
NoEntries == [Role |-> None, RoleBinding |-> None, others |-> {}]

TypeOK ==
  /\ template \in Template
  /\ prj \in [Projects -> Project]
  /\ rbac \in [Projects -> Namespace]
  /\ cache.template \in Template /\ cache.prj \in [Projects -> Project]
  /\ pending \subseteq {Name} \cup Projects
  /\ seen \in [Projects -> Namespace] /\ outdated \subseteq Projects \X Kinds
  /\ queued \in BOOLEAN /\ projectQueue \subseteq Projects
  /\ pc \in {"idle", "updateFinalizer", "reconcile",
             "updateTerminating", "deleteObjects", "removeFinalizer"}
  /\ obj \in Template /\ current \in BOOLEAN
  /\ listed \in [Projects -> Project]
  /\ todo \subseteq Projects /\ done \subseteq Projects \ todo /\ at \in todo \cup {None}
  /\ calm \in BOOLEAN

NoProjects == [p \in Projects |-> NoProject]

Init ==
  /\ template = NoTemplate
  /\ prj = NoProjects
  /\ rbac = [p \in Projects |-> NoEntries]
  /\ cache = [template |-> NoTemplate, prj |-> NoProjects]
  /\ pending = {} /\ seen = rbac /\ outdated = {} /\ queued = FALSE /\ projectQueue = {}
  /\ pc = "idle" /\ obj = NoTemplate /\ current = FALSE
  /\ listed = NoProjects /\ todo = {} /\ at = None /\ done = {}
  /\ calm = FALSE

----------------------------------------------------------------------------
(* The Reconcile call. *)

\* Faulty: targets outlives the call.
ReturnKeepingTargets ==
  /\ pc' = "idle" /\ obj' = NoTemplate /\ current' = FALSE
  /\ listed' = NoProjects /\ todo' = {} /\ at' = None /\ done' = done

Return ==
  /\ pc' = "idle" /\ obj' = NoTemplate /\ current' = FALSE
  /\ listed' = NoProjects /\ todo' = {} /\ at' = None /\ done' = {}

\* Reconcile returns an error: the request is queued again.
ReturnError == Return /\ queued' = TRUE

Notify(what) == pending' = pending \cup {what}

\* The test of listSelectedReadyProjects.
IsSelected(t, project) == project.label \in t.spec.selects /\ project.phase = "ready"

\* listSelectedReadyProjects, from the cache.
ListProjects(t) ==
  /\ pc' = "reconcile"
  /\ todo' = {p \in Projects : IsSelected(t, cache.prj[p])}
  /\ listed' = [p \in Projects |-> IF p \in todo' THEN cache.prj[p] ELSE NoProject]

\* Where the branches at the top of Reconcile and of handleDeletion lead.
Start ==
  /\ queued /\ pc = "idle"
  /\ queued' = FALSE
  /\ LET t == cache.template IN
     \/ /\ ~t.present
        /\ UNCHANGED callVars
     \/ /\ t.present
        /\ obj' = t /\ current' = (Name \notin pending)
        /\ \/ /\ ~t.deleting /\ t.finalizer
              /\ ListProjects(t)
           \/ /\ ~t.deleting /\ ~t.finalizer
              /\ pc' = "updateFinalizer"
              /\ UNCHANGED <<todo, listed>>
           \/ /\ t.deleting
              /\ pc' = IF t.ready = "Terminating" THEN "deleteObjects" ELSE "updateTerminating"
              /\ UNCHANGED <<todo, listed>>
        /\ UNCHANGED <<at, done>>
  /\ UNCHANGED <<template, prj, rbac, cacheVars, projectQueue, calm>>

\* The server accepts an update from a current copy.
Write(new) ==
  /\ current
  /\ template' = new
  /\ Notify(Name)

Conflict ==
  /\ ~current
  /\ ReturnError
  /\ UNCHANGED <<template, pending>>

\* Faulty: the finalizer is added to the copy only.
UpdateFinalizerInMemory ==
  /\ pc = "updateFinalizer"
  /\ obj' = [obj EXCEPT !.finalizer = TRUE]
  /\ ListProjects(obj')
  /\ UNCHANGED <<template, pending, queued, current, at, done>>
  /\ UNCHANGED <<prj, rbac, cache, seen, outdated, projectQueue, calm>>

\* util.AddFinalizer, r.Update, and the list that follows.
UpdateFinalizer ==
  /\ pc = "updateFinalizer"
  /\ \/ /\ Write([obj EXCEPT !.finalizer = TRUE])
        /\ obj' = template'
        /\ ListProjects(obj')
        /\ UNCHANGED <<queued, current, at, done>>
     \/ Conflict
  /\ UNCHANGED <<prj, rbac, cache, seen, outdated, projectQueue, calm>>

\* The Roles and RoleBindings change in the API server.  The event of a
\* RoleBinding queues the Project whose namespace it is in.
Store(new) ==
  LET changed == {e \in Projects \X Kinds : new[e[1]][e[2]] # rbac[e[1]][e[2]]}
      shown   == {e \in changed : e[2] \notin Lagging}
  IN
  /\ rbac' = new
  /\ outdated' = outdated \cup (changed \ shown)
  /\ seen' = [p \in Projects |-> [k \in Kinds |-> IF <<p, k>> \in shown THEN new[p][k] ELSE seen[p][k]]]
  /\ projectQueue' = projectQueue \cup {e[1] : e \in {c \in shown : c[2] # "Role"}}

\* owner.ReconcileOwnedObjects for the Role or the RoleBinding of one Project:
\* the cached entry is compared with the desired one; it may have to be created or
\* updated, which the server may refuse: the entry exists, the namespace is being
\* deleted or gone, the cached entry is not the stored one.  What the helper
\* does with the template's entries in other namespaces is left out.
InPlace(p, k, content) == seen[p][k] = content
Possible(p, k, content) ==
  \/ InPlace(p, k, content)
  \/ /\ seen[p][k] = None /\ rbac[p][k] = None
     /\ prj[p].phase \in {"unready", "ready"}
  \/ seen[p][k] # None /\ <<p, k>> \notin outdated

ReconcileOwned(p, k, content) ==
  Store(IF InPlace(p, k, content) THEN rbac ELSE [rbac EXCEPT ![p][k] = content])

\* The first half of reconcileRBACForProject.
ReconcileRole(p) ==
  /\ pc = "reconcile" /\ at = None /\ p \in todo
  /\ \/ /\ Possible(p, "Role", obj.spec.rules)
        /\ ReconcileOwned(p, "Role", obj.spec.rules)
        /\ at' = p
        /\ UNCHANGED <<queued, pc, obj, current, listed, todo, done>>
     \/ /\ ~Possible(p, "Role", obj.spec.rules)
        /\ ReturnError
        /\ UNCHANGED <<rbac, seen, outdated, projectQueue>>
  /\ UNCHANGED <<template, prj, cache, pending, calm>>

\* Faulty: members only.
GrantedToMembers(t, project) ==
  IF HasBinding(t, "Everyone") THEN project.members
  ELSE IF HasBinding(t, "Owners") THEN project.owners ELSE <<>>
\* The subjects of the RoleBinding.
GrantedTo(t, project) ==
  IF HasBinding(t, "Everyone") THEN project.owners \o project.members
  ELSE IF HasBinding(t, "Owners") THEN project.owners ELSE <<>>

\* The second half; the Project is added to the targets.
ReconcileRoleBinding(p) ==
  /\ pc = "reconcile" /\ at = p
  /\ LET subjects == ExtractSubjects(GrantedTo(obj, listed[p])) IN
     \/ /\ Possible(p, "RoleBinding", subjects)
        /\ ReconcileOwned(p, "RoleBinding", subjects)
        /\ at' = None /\ todo' = todo \ {p} /\ done' = done \cup {p}
        /\ UNCHANGED <<queued, pc, obj, current, listed>>
     \/ /\ ~Possible(p, "RoleBinding", subjects)
        /\ ReturnError
        /\ UNCHANGED <<rbac, seen, outdated, projectQueue>>
  /\ UNCHANGED <<template, prj, cache, pending, calm>>

\* The status is written if the targets or the condition have changed.  The
\* targets are compared as lists, with generations: the same Projects may count
\* as changed.
UpdateStatus ==
  /\ pc = "reconcile" /\ todo = {}
  /\ \/ /\ obj.targets = done /\ IsReady(obj)
        /\ Return
        /\ UNCHANGED <<template, pending, queued>>
     \/ /\ obj.targets # done \/ ~IsReady(obj) \/ done # {}
        /\ \/ /\ Write([obj EXCEPT !.targets = done,
                                   !.observed = @ \/ ~IsReady(obj),
                                   !.ready = IF IsReady(obj) THEN @ ELSE "True"])
              /\ Return
              /\ UNCHANGED queued
           \/ Conflict
  /\ UNCHANGED <<prj, rbac, cache, seen, outdated, projectQueue, calm>>

----------------------------------------------------------------------------
(* handleDeletion. *)

UpdateTerminating ==
  /\ pc = "updateTerminating"
  /\ \/ /\ Write([obj EXCEPT !.observed = TRUE, !.ready = "Terminating"])
        /\ obj' = template'
        /\ pc' = "deleteObjects"
        /\ UNCHANGED <<queued, current, listed, todo, at, done>>
     \/ Conflict
  /\ UNCHANGED <<prj, rbac, cache, seen, outdated, projectQueue, calm>>

Without(entries) ==
  [p \in Projects |-> [k \in Kinds |-> IF <<p, k>> \in entries THEN None ELSE rbac[p][k]]]

\* util.DeleteObjects: the list of owned objects in the cache was empty.
CleanedUp(there) == there = {}

\* util.DeleteObjects lists and deletes the Roles, then the RoleBindings; one of
\* the calls may fail.  Unless the list was empty Reconcile ends, and nothing
\* queues the template again when the objects have gone.
DeleteObjects ==
  /\ pc = "deleteObjects"
  /\ LET there == {e \in Projects \X Owned : seen[e[1]][e[2]] # None} IN
     \/ \E deleted \in SUBSET there :
          /\ Store(Without(deleted))
          /\ IF deleted # there THEN ~calm /\ ReturnError
             ELSE IF CleanedUp(there) /\ obj.finalizer
             THEN /\ pc' = "removeFinalizer"
                  /\ UNCHANGED <<queued, obj, current, listed, todo, at, done>>
             ELSE Return /\ UNCHANGED queued
  /\ UNCHANGED <<template, prj, cache, pending, calm>>

\* util.RemoveFinalizer, r.Update.
RemoveFinalizer ==
  /\ pc = "removeFinalizer"
  /\ \/ /\ Write(IF obj.held THEN [obj EXCEPT !.finalizer = FALSE] ELSE NoTemplate)
        /\ Return
        /\ UNCHANGED queued
     \/ Conflict
  /\ UNCHANGED <<prj, rbac, cache, seen, outdated, projectQueue, calm>>

Continue ==
  \/ UpdateFinalizer \/ UpdateStatus
  \/ \E p \in Projects : ReconcileRole(p) \/ ReconcileRoleBinding(p)
  \/ UpdateTerminating \/ DeleteObjects \/ RemoveFinalizer

----------------------------------------------------------------------------
(* The Project controller, from reconcileMembers on. *)

\* The RoleBindings of a namespace, each a list of subjects, in any order.
RoleBindingLists(entries) ==
  LET roleBindings == {<<s, <<s>>>> : s \in entries.others}
                        \cup {<<Name, list>> : list \in {entries.RoleBinding} \ {None}}
  IN {[i \in DOMAIN order |-> order[i][2]] : order \in SetToSeqs(roleBindings)}

\* A call for a Project that has been deleted collects nothing.  One whose copy
\* is outdated fails, and is repeated.
CollectMembers(p) ==
  /\ p \in projectQueue /\ p \notin pending
  /\ projectQueue' = projectQueue \ {p}
  /\ \/ /\ prj[p].phase \in {"unready", "ready"}
        /\ \E lists \in RoleBindingLists(seen[p]) :
             LET members == ExtractSubjects(FlattenSeq(lists)) IN
             /\ prj' = [prj EXCEPT ![p].members = members, ![p].phase = "ready"]
             /\ IF prj' = prj THEN UNCHANGED pending ELSE Notify(p)
     \/ /\ prj[p].phase \in {"absent", "leaving"}
        /\ UNCHANGED <<prj, pending>>
  /\ UNCHANGED <<template, rbac, cache, seen, outdated, queued, callVars, calm>>

----------------------------------------------------------------------------
(* The informers. *)

\* Faulty: without Watches(&storagev1alpha1.Project{}).
RequestedTemplateOnly(what) == what = Name
\* An event of the template queues it, one of a Project all templates in the cache.
Requested(what) == what = Name \/ cache.template.present

Deliver(what) ==
  /\ what \in pending
  /\ pending' = pending \ {what}
  /\ cache' = IF what = Name THEN [cache EXCEPT !.template = template]
                             ELSE [cache EXCEPT !.prj[what] = prj[what]]
  /\ queued' = (queued \/ Requested(what))
  /\ projectQueue' = projectQueue \cup ({what} \cap Projects)
  /\ UNCHANGED <<template, prj, rbac, seen, outdated, callVars, calm>>

\* An event of a Role or RoleBinding does not queue the template.
DeliverRole(p, k) ==
  /\ <<p, k>> \in outdated
  /\ outdated' = outdated \ {<<p, k>>}
  /\ seen' = [seen EXCEPT ![p][k] = rbac[p][k]]
  /\ projectQueue' = IF k = "Role" THEN projectQueue ELSE projectQueue \cup {p}
  /\ UNCHANGED <<template, prj, rbac, cache, pending, queued, callVars, calm>>

Present == {p \in Projects : cache.prj[p].phase # "absent"}

\* Every SyncPeriod the informers hand over all that is in their caches.
Resync ==
  /\ queued' = (queued \/ cache.template.present)
  /\ projectQueue' = projectQueue \cup Present
  /\ UNCHANGED <<template, prj, rbac, cacheVars, callVars, calm>>

----------------------------------------------------------------------------
(* The namespace controller of Kubernetes, and users. *)

SetProject(p, new) ==
  /\ prj' = [prj EXCEPT ![p] = new]
  /\ Notify(p)
  /\ UNCHANGED <<template, rbac, cache, seen, outdated, queueVars, callVars, calm>>

\* Somebody other than the controllers changes an entry.
SetEntry(p, k, content) ==
  /\ Store([rbac EXCEPT ![p][k] = content])
  /\ UNCHANGED <<template, prj, cache, pending, queued, callVars, calm>>

PurgeNamespace(p) ==
  /\ prj[p].phase = "leaving"
  /\ \E k \in Kinds : rbac[p][k] # NoEntries[k] /\ SetEntry(p, k, NoEntries[k])

RemoveProject(p) ==
  /\ prj[p].phase = "leaving" /\ rbac[p] = NoEntries
  /\ SetProject(p, NoProject)

CreateProject(p) ==
  /\ ~calm /\ prj[p].phase = "absent"
  /\ \E owners \in OwnerLists, label \in Labels : SetProject(p, NewProject(owners, label))

IsPresent(p) == prj[p].phase \in {"unready", "ready"}

\* A change of the spec makes the Project unready, one of a label does not.
ChangeOwners(p) ==
  /\ ~calm /\ IsPresent(p)
  /\ \E owners \in OwnerLists \ {prj[p].owners} :
       SetProject(p, [prj[p] EXCEPT !.owners = owners, !.phase = "unready"])

ChangeLabel(p) ==
  /\ ~calm /\ IsPresent(p)
  /\ \E label \in Labels \ {prj[p].label} : SetProject(p, [prj[p] EXCEPT !.label = label])

DeleteProject(p) ==
  /\ ~calm /\ IsPresent(p)
  /\ SetProject(p, [prj[p] EXCEPT !.phase = "leaving"])

\* Users make and remove RoleBindings; nothing is made in a terminating namespace.
ChangeRoleBindings(p) ==
  /\ ~calm /\ prj[p].phase # "absent"
  /\ \E s \in Invited :
       \/ prj[p].phase # "leaving" /\ s \notin rbac[p].others /\ SetEntry(p, "others", rbac[p].others \cup {s})
       \/ s \in rbac[p].others /\ SetEntry(p, "others", rbac[p].others \ {s})

ChangeTemplate(new) ==
  /\ template' = new
  /\ Notify(Name)
  /\ current' = FALSE
  /\ UNCHANGED <<prj, rbac, cache, seen, outdated, queueVars,
                 pc, obj, listed, todo, at, done, calm>>

CreateTemplate ==
  /\ ~calm /\ ~template.present
  /\ \E spec \in Specs, held \in Holds : ChangeTemplate(NewTemplate(spec, held))

UpdateSpec ==
  /\ ~calm /\ template.present
  /\ \E spec \in Specs \ {template.spec} :
       ChangeTemplate([template EXCEPT !.spec = spec, !.observed = FALSE])

DeleteTemplate ==
  /\ ~calm /\ template.present /\ ~template.deleting
  /\ ChangeTemplate(IF template.finalizer \/ template.held
                    THEN [template EXCEPT !.deleting = TRUE, !.observed = FALSE]
                    ELSE NoTemplate)

\* Whoever put another finalizer on the template removes it.
ReleaseHold ==
  /\ template.present /\ template.deleting /\ template.held
  /\ ChangeTemplate(IF template.finalizer THEN [template EXCEPT !.held = FALSE] ELSE NoTemplate)

----------------------------------------------------------------------------
(* Faults. *)

FailCall ==
  /\ ~calm /\ pc # "idle"
  /\ ReturnError
  /\ UNCHANGED <<template, prj, rbac, cacheVars, projectQueue, calm>>

Restart ==
  /\ ~calm
  /\ cache' = [template |-> template, prj |-> prj]
  /\ pending' = {} /\ seen' = rbac /\ outdated' = {}
  /\ queued' = template.present
  /\ projectQueue' = {p \in Projects : prj[p].phase # "absent"}
  /\ Return
  /\ UNCHANGED <<template, prj, rbac, calm>>

BecomeCalm ==
  /\ ~calm
  /\ calm' = TRUE
  /\ UNCHANGED <<template, prj, rbac, cacheVars, queueVars, callVars>>

----------------------------------------------------------------------------
System ==
  \/ Start \/ Continue \/ Resync \/ ReleaseHold
  \/ \E what \in {Name} \cup Projects : Deliver(what)
  \/ \E p \in Projects :
       \/ CollectMembers(p) \/ PurgeNamespace(p) \/ RemoveProject(p)
       \/ \E k \in Kinds : DeliverRole(p, k)

Environment ==
  \/ CreateTemplate \/ UpdateSpec \/ DeleteTemplate
  \/ \E p \in Projects : \/ CreateProject(p) \/ ChangeOwners(p) \/ ChangeLabel(p) \/ DeleteProject(p)
                          \/ ChangeRoleBindings(p)
  \/ FailCall \/ Restart

Next == System \/ Environment \/ BecomeCalm

Spec == Init /\ [][Next]_vars

Fairness ==
  /\ SF_vars(Start) /\ WF_vars(Continue) /\ WF_vars(Resync) /\ WF_vars(ReleaseHold)
  /\ \A what \in {Name} \cup Projects : WF_vars(Deliver(what))
  /\ \A p \in Projects :
       /\ SF_vars(CollectMembers(p)) /\ WF_vars(PurgeNamespace(p) \/ RemoveProject(p))
       /\ \A k \in Lagging : WF_vars(DeliverRole(p, k))
----------------------------------------------------------------------------
(* Properties. *)

SetOf(list) == IF list = None THEN {} ELSE ToSet(list)

\* The members of a ready Project are the subjects of the RoleBindings in its
\* namespace, each once, in one order.
MembersCollected ==
  \A p \in Projects : prj[p].phase \in {"unready", "ready"} =>
    /\ prj[p].phase = "ready"
    /\ prj[p].members = Ranked(rbac[p].others \cup SetOf(rbac[p].RoleBinding))

\* Whom the template means to bind its Role to in a Project.
Grantees(p) ==
  (IF template.spec.binds # {} THEN SetOf(prj[p].owners) ELSE {})
    \cup (IF "Everyone" \in template.spec.binds THEN SetOf(prj[p].members) ELSE {})

Chosen == {p \in Projects : prj[p].phase = "ready" /\ prj[p].label \in template.spec.selects}

\* A selected ready Project has the Role, bound to those it is meant for; nothing
\* is to be left of a template that is being deleted.
AsWanted(p, k) ==
  IF template.deleting THEN rbac[p][k] = None
  ELSE p \in Chosen => rbac[p][k] = IF k = "Role" THEN template.spec.rules ELSE Ranked(Grantees(p))
Granted ==
  template.present /\ ~template.deleting => \A p \in Chosen, k \in Owned : AsWanted(p, k)

\* Owners, and the subjects of the RoleBindings of users, have what the template
\* grants them.
Served(p) ==
  LET bound == SetOf(rbac[p].RoleBinding) IN
  /\ rbac[p].Role = template.spec.rules
  /\ template.spec.binds # {} => SetOf(prj[p].owners) \subseteq bound
  /\ "Everyone" \in template.spec.binds => rbac[p].others \subseteq bound
EveryoneServed ==
  template.present => ~template.deleting /\ \A p \in Chosen : Served(p)

\* The two controllers, who wake each other up through status.members and the
\* RoleBindings, rest only when the members are collected from the last
\* RoleBindings and the template is ready with the Projects it is in as targets,
\* or Terminating.
Quiescent ==
  pending = {} /\ outdated = {} /\ ~queued /\ projectQueue = {} /\ pc = "idle"
RestsOnlyWhenReported ==
  Quiescent =>
    /\ MembersCollected
    /\ template.present => IF template.deleting THEN template.ready = "Terminating"
                           ELSE IsReady(template) /\ template.targets = Chosen

\* The template's controller is done with an entry: nothing that is known to have
\* changed, and no call that is still to come there, leads it back.
Settled(p, k) ==
  /\ ~queued /\ {Name, p} \cap pending = {}
  /\ pc = "idle" \/ p \in done \/ (at = p /\ k = "Role")
Neglected(p, k) == template.present /\ Settled(p, k) /\ ~AsWanted(p, k)

\* Members and RoleBindings change each other, specs, labels and owners change and
\* calls fail between the list, the writes and the events: what makes the controller
\* leave an entry that is not as it should be is only that it has compared it, or
\* listed it for removal, while its own event was on the way.
OnlyOutdatedIsNeglected ==
  [][\A p \in Projects, k \in Owned : Neglected(p, k)' /\ ~Neglected(p, k)
       => /\ <<p, k>> \in outdated
          /\ ReconcileRole(p) \/ ReconcileRoleBinding(p) \/ DeleteObjects]_vars

\* "handleDeletion handles the deletion of the ProjectRoleTemplate object": the
\* controller rests only when it has released the template.
DeletionCompletes == Quiescent => ~(template.present /\ template.deleting /\ template.finalizer)

\* A Role or RoleBinding that no finalizer will wait for: the template has gone, or
\* handleDeletion has found nothing that is left and is about to release it.
Left(p, k) ==
  /\ rbac[p][k] # None
  /\ ~(template.present /\ template.finalizer) \/ pc = "removeFinalizer"

\* Only an entry whose event is on the way when handleDeletion lists the cache comes
\* to be left: no call that began before the deletion, fails half-way through it or
\* works from an outdated copy of the template leaves any.
OnlyOutdatedIsLeft ==
  [][\A p \in Projects, k \in Owned : Left(p, k)' /\ ~Left(p, k)
       => <<p, k>> \in outdated /\ DeleteObjects]_vars
=============================================================================
