# Bulward in TLA+

Bulward manages tenants in a Kubernetes cluster: Organizations and, in them,
Projects. Each of them owns a namespace and has owners and members. The program
has two processes, a controller manager (`pkg/manager`) and an extension API
server (`pkg/apis/apiserver`, `pkg/apiserver`); both keep all of their durable
state in the Kubernetes API server.

These modules describe what the processes do to that state, step by step, and
state what must hold of it whatever order the steps are taken in.

## The system

```
  users ---> extension API server ---> Kubernetes API server <--- users, kubectl
             (Organization, Project     |  watch events  ^
              of apiserver.bulward.io)  v                | writes
                                       controller manager
                       informer caches -> workqueues -> Reconcile
```

| component | state | operations | hard parts |
|---|---|---|---|
| Organization controller (`organization_controller.go`) | Organization, its namespace, default templates in the API server; informer caches, workqueue, running Reconcile calls | set-up: finalizer, namespace, `status.namespace`, `status.members`, default templates, Ready; deletion: Terminating, namespaces, finalizer | caches that lag, conflicting writers, merged events, calls that fail half-way, restarts |
| Project controller (`project_controller.go`) | the same for a Project | the same without templates; RoleBinding events are mapped through the cached namespace | the same, and a handler that panics |
| OrganizationRoleTemplate controller | Roles and RoleBindings in namespaces of Organizations and Projects; `status.targets` | create or update them for each ready Organization and Project | no watch on what it writes; nothing is removed when a template shrinks |
| ProjectRoleTemplate controller | the same in the namespaces of the selected Projects | the same with a finalizer | `status.members` is both its input and, through its RoleBinding, its output |
| `extractSubjects` | none | sort, drop adjacent duplicates | result independent of the order of its input |
| Extension API server, requests (`organization_REST.go`, `project_REST.go`) | none of its own | Get, List, Create, Update, Delete, DeleteCollection: read, check membership or ownership, forward | check and act are two requests |
| Extension API server, Watch | a goroutine per watch, an unbuffered channel | forward the events of objects the caller is a member of | stop while sending; visibility that changes |
| Membership checks (`ownership.go`) | none | containsUser, isMember, checkMembership, checkOwnership | unknown kinds of subjects |
| API types (`*_types.go`) | `status.conditions`, `status.phase` | SetCondition, GetCondition, IsReady, updatePhase | phase and transition time after any sequence of writes |
| Default role templates (`pkg/templates`) | none | the two templates for owners | created by every Organization |

The components meet in the API server only. The Organization controller reads
the `status.members` of the ready Projects in its namespace, which the Project
controller writes from the RoleBindings in the Project's namespace, which the
role template controllers write from owners and members.

## What makes each component correct

* Organization and Project controller: a namespace exists only under the
  protection of a finalizer; an object declared ready is set up; nobody's write
  is undone; deletion is final; no wakeup is lost; everything converges.
* Role templates: every ready target carries the Role and the RoleBinding; no
  subject keeps a role, or stays a member, without a reason; a removed template
  leaves nothing behind.
* Requests of the extension API server: what is changed is what was checked.
* Watch: every event of a visible object, in order, until the client stops;
  then the upstream watch is stopped.
* Types and helpers: phase agrees with the conditions; `extractSubjects`
  returns each subject once, in an order of its own.

## Modules

| module | what it is |
|---|---|
| `ManagedObject` | an Organization or a Project as the API server stores it: the fields the controllers branch on, the methods of the API types, what the server does on create, update and delete. No state. |
| `ManagedObject_proofs` | lemmas about it that the proofs of both controllers use. |
| `GuardedOwnership` | the abstract specification: objects pass through phases, the namespace of an object comes and goes while the object is guarded by the finalizer, and the finalizer goes only after a look that showed no namespace; what is shown may be late. |
| `OrganizationController` | the Organization controller against the API server: informers, workqueue, Reconcile, users, namespace controller, faults. Implements `GuardedOwnership`. |
| `MCOrganization` | a specification with fewer users for the instance in which the owners change. |
| `OrganizationController_proofs` | theorems about the Organization controller: types, the finalizer, what a ready Organization has, that it implements `GuardedOwnership`, how a namespace can come to be left, and the states it rests in. |
| `ProjectController` | the Project controller, with the handler that panics. Implements `GuardedOwnership`. |
| `MCProject` | a specification in which either the owners or the RoleBindings change. |
| `ProjectController_proofs` | the same theorems about the Project controller. |
| `RoleTemplateController` | the OrganizationRoleTemplate controller: one template, the Roles and RoleBindings it brings to Organizations and Projects, users who alter them, the garbage collector. |
| `MCRoleTemplate` | templates, and specifications with some of the users, for its instances. |
| `RoleTemplate_proofs` | theorems about it: types, what it has reported when it rests, and how a Role or RoleBinding can come to be neglected or misreported. |
| `SubjectList` | `extractSubjects` as operators on lists, sort and loop, and the list that stands for a set of subjects. |
| `ProjectRoleTemplateController` | the ProjectRoleTemplate controller: one template, the Projects it selects, its Role and RoleBinding in their namespaces, in a loop with the Project controller, which collects `status.members` from the RoleBindings. |
| `MCProjectRoleTemplate` | templates, owners, and a specification with some of the users, for its instances. |
| `ProjectRoleTemplate_proofs` | theorems about it and about `extractSubjects`: what the latter makes of any list, types, what the two controllers have collected and reported when they rest, and how an entry can come to be neglected or left behind. |
| `WatchProxy` | Watch of the extension API server: upstream watch, goroutine, client. Organizations and Projects have the same code. |
| `WatchProxy_proofs` | theorems about it: types, and that a client misses nothing. |
| `OwnedStorage` | the other requests of the extension API server, for Organizations or for the Projects of one namespace: several callers, the controllers and clients of the Kubernetes API on the same objects. |
| `MCOwnedStorage` | the symmetry of its instance. |
| `OwnedStorage_proofs` | theorems about it. |
| `ObjectStatus` | conditions, transition times, phase and generations of one object, as the methods of the four API types treat them; `Represents` links it to `ManagedObject`. |
| `ObjectStatus_proofs` | theorems about it, `Represents` among them. |


### How the code becomes actions

* **Reconcile** is one action per API write. Between two writes a call reads
  only its variables and the caches, so users, informers, the namespace
  controller, failures and restarts interleave exactly at the writes. `pc[o]`
  names the next write; `obj`, `subjects` and `todo` are the variables of the
  call; `Start` is the first part of Reconcile, from the workqueue to the first
  write. `FirstStep` has the branches at the top of Reconcile and of
  handleDeletion.
* **Informers.** One cache per kind follows the API server. `pending[o]` holds
  the kinds of which something has changed that the cache does not show yet;
  `Deliver` brings the cache up to date and makes the requests that the
  handlers of SetupWithManager make. A cache may be behind for any time; how
  many changes it is behind makes no difference, since events of one object are
  merged in the workqueue.
* **Resource versions.** The server accepts an update when the copy carries the
  stored resourceVersion. `current[o]` is that comparison: TRUE while the object
  has not been changed by anybody else since the copy was taken. A copy taken
  from a cache that is behind is not current. A write that is not accepted
  returns an error and the request is queued again.
* **Generations.** metadata.generation and status.observedGeneration are only
  compared for equality: the field `observed`.
* **Finalizers.** `finalizer` is the controller's, `held` stands for all others
  (foreground deletion, say). The object disappears with its last finalizer.
* **Workqueue.** A set of names: requests are merged, a name in work is not
  handed to a second worker. MaxConcurrentReconciles is not set in the code, so
  it is 1 (`MaxWorkers`); the proofs are for any number.
* **Requests** of the extension API server that check and then act are two
  actions, `Check...` and the one that carries the request out; those that only
  read, or only write, are one. A caller has one request at a time; `copy[u]` is
  what it has read before. A copy carries the two results of the comparisons the
  server makes: `fresh` (resourceVersion) and `same` (uid).
* **Failing calls.** `FailCall` ends a call with an error before any of its
  writes: this is a write that failed before it took effect, or the previous
  one that failed afterwards.
* **Restart** gives the process fresh caches and queues all objects. In
  `ProjectController` the same happens when the handler panics.
* **calm.** Users and faults are steps like all others until `calm` becomes
  TRUE, at any time and for good. Liveness is stated as `calm ~> ...`. It is
  what keeps the specifications free of counters of faults.

Not in the models: an administrator who removes the controller's own finalizer,
two managers at a time (leader election is on), namespaces of the same name made
by somebody else, Roles of the name of a template that a user has made before
it, the deletion of default templates.

## Runs

| run | module | checks | shows |
|---|---|---|---|
| `organization` (pass) | `MCOrganization` | `TypeOK`, `ReadyMeansSetUp`, `RestsOnlyWhenConverged`, `OnlyUnshownIsLeft`, `TerminatingIsFinal` | One Organization with its namespace, RoleBindings, a Project, conflicting writers, failing calls, restarts and every informer lagging: it is ready only when set up, the controller rests only when converged, an Organization marked for deletion is not declared ready, and a namespace is left without a finalizer only when handleDeletion missed it because its event was on the way. |
| `organization_live` (pass) | `MCOrganization` | `KeepsOwnership`, `NamespaceUnderFinalizer`, `KeepsOthersWrites`, `EventuallyConverged` | With every informer lagging and users changing the owners, the controller implements GuardedOwnership, a namespace is created only under the finalizer, Reconcile never undoes the write of somebody else, and the Organization is set up or removed for good once users and faults stop. |
| `organization_orphan` (violation) | `MCOrganization` | `NoOrphanNamespace` | With a lagging Namespace informer the finalizer is removed while the namespace exists: handleDeletion lists the namespaces in the cache. |
| `project` (pass) | `MCProject` | `TypeOK`, `ReadyMeansSetUp`, `RestsOnlyWhenConverged`, `KeepsOwnership`, `OnlyUnshownIsLeft`, `EventuallyConverged` | One Project with its namespace and RoleBindings, every informer lagging, through panics of the RoleBinding handler: the controller implements GuardedOwnership, the Project is ready only when set up, the controller rests only when converged, a namespace is left without a finalizer only when its event was on the way, and the Project is set up or removed for good once users and faults stop. |
| `project_panic` (violation) | `ProjectController` | `NeverPanics` | The event of a RoleBinding may be handled before the one of its namespace, and the handler panics. |
| `role_template` (pass) | `MCRoleTemplate` | `TypeOK`, `RestsOnlyWhenGranted`, `ReadyMeansWritten` | A template whose rules and scopes change, which goes and returns, and an Organization that does; or an Organization and a Project in it that come, go and change owners between the lists and the writes of one call: a template declared ready has its present rules in all its targets, and the controller rests only when every ready target has the Role and the RoleBinding for the owners; the Role informers do not lag here. |
| `role_template_live` (pass) | `MCRoleTemplate` | `RestsOnlyWhenReported`, `OnlyOutdatedIsNeglected`, `OnlyOutdatedIsMisreported`, `EventuallyGranted`, `EventuallyCollected` | Every informer lags, the spec changes and changes back, or users delete and alter the Role and the RoleBinding while the template goes and returns: an entry is left as it should not be, or reported as it is not, only by a call that compared it while its event was on the way; the controller rests only when it has reported, and in the end the resync of the informers has brought everything back, and nothing is left of a template that has gone. |
| `project_role_template` (pass) | `MCProjectRoleTemplate` | `TypeOK`, `RestsOnlyWhenReported`, `OnlyOutdatedIsNeglected`, `OnlyOutdatedIsLeft`, `EventuallySettled` | A template for everyone or for owners and a Project whose labels, owners or RoleBindings change, either of which goes and returns, with informers that lag: the two controllers, which wake each other up, rest only with the members collected and the status reported; an entry is neglected, or left behind by a template that goes, only when it was read in the cache while its event was on the way; and in the end everyone has what the template grants. |
| `project_role_template_stuck` (violation) | `MCProjectRoleTemplate` | `DeletionCompletes` | After a restart or a failed call in the middle of handleDeletion the controller rests with the finalizer on a template all of whose Roles have gone. |
| `watch` (pass) | `WatchProxy` | `TypeOK`, `FollowsVisible`, `EndIsTold`, `StopReleasesUpstream` | A watching client is up to date with the objects it owns or is a member of whenever nothing is under way, learns of the end of the watch, and after Stop the upstream watch is stopped unless the goroutine has an event in its hands that nobody receives. |
| `requests` (pass) | `MCOwnedStorage` | `TypeOK`, `UpdatesWhatItChecked`, `DeletesWhatItChecked` | Two callers get, create, change and delete objects of two names, each request checked in one step and carried out in a later one, while controllers and clients of the Kubernetes API write the same objects: an update replaces the version that was checked, a delete with a uid the object that was checked. |
| `object_status` (pass) | `ObjectStatus` | `TypeOK`, `PhaseTells`, `OneEntryPerType`, `TimesTransitions`, `Represents` | Phase, conditions and transition times agree after any sequence of status writes, spec changes and a deletion, and the short form of the status in ManagedObject represents it. |

CHECK_DEADLOCK is FALSE in the runs of the controllers: a calm system whose
controllers have nothing to do does stop, and `RestsOnlyWhenConverged` says in
which states it may. So may a watch that has ended, and an object whose
generations and time are used up.

### Bounds

There are no counters in the models of the controllers, so the only bounds
there are the sizes of the sets. One object with its namespace has all the
interleavings of the controller with users, informers and faults, since objects share nothing but the workers
and the default templates, which are only ever created. One subject is enough for the
members (present in the status or not); two are used where the owners change.

Templates share nothing but the worker either: `RoleTemplateController` has one.
Everything that users can change at once is more than TLC can enumerate, so the
MC modules of the Project controller and of the role templates have a variable
`users`, chosen in the initial state, that says which of them are at work; the
program, and most of the faults, are the same for all its values.

`organization` and `project` are checked with every informer lagging, as in the
deployed manager. `organization` has one subject and a Project whose phase and
members change; `organization_live` two sets of owners and no Project. `project`
has two owners, one of whom users may invite, and other finalizers; `users` says
whether the owners or the RoleBindings change. Safety and liveness are checked
on that one instance.

`role_template` has, for "template", one Organization, two rules and a shape
with other scopes, and finalizers of somebody else; for "tenants" an
Organization and a Project in it, two values of the owners, and a template that
stays. Its informers of Roles and RoleBindings do not lag: with lag, a spec that
changes and changes back leaves the Role of the second spec in place until the
resync, and neither `RestsOnlyWhenGranted` nor `ReadyMeansWritten` holds.
`role_template_live` is checked with lag: users alter the Role and RoleBinding
("entries") or change the rules ("rules"). What holds there is that nothing else
leads to such a state (`OnlyOutdatedIsNeglected`, `OnlyOutdatedIsMisreported`)
and that it does not last (`EventuallyGranted`).

`project_role_template` has one Project, because a call handles one after the
other and the entries of two Projects have nothing in common in the model, three
subjects (one for whom users make RoleBindings, two owners, one of them listed
in either order), two labels and two specs. What changes is the template, its
other finalizers, the labels, the owners, the RoleBindings of users, or whether
there is a Project. The events of the RoleBindings of users always lag, and with
a template that somebody holds ("hold") those of the Role as well; elsewhere the
event of the Role comes before the next step, and the events of the RoleBinding
of the template take no time. The proofs are for any lag. Calls fail while the
template or the members change, the manager restarts while the template does.

`OwnedStorage` has two callers, so that one changes what the other has checked,
and two names, so that a DeleteCollection and a List have something to choose
from; the requests of a third caller would change the objects in the same ways
as those of the second, or as the controllers do.

`WatchProxy` has two objects, so that events of one pass while those of the
other are withheld, and `MaxBacklog` 2: one event to be taken while another
waits. `ObjectStatus` has `MaxGeneration` 4 (two spec changes and the deletion)
and `MaxTime` 4 (more moments than a condition has transitions between two
writes); the second condition type is one that other clients may write.

### Fairness

The workqueue is first in, first out, so a queued name is handed out in the end
although the worker is busy with others in between: strong fairness of `Start`.
A running call goes on, an informer delivers what the server sends (or, in
`ProjectController`, the handler panics), the namespace controller empties and
removes a terminating namespace, and whoever holds another finalizer removes it:
weak fairness. So does, for templates, the garbage collector. Informers resync
every ten hours, the default of the SyncPeriod that manager.go does not set:
weak fairness of `Resync`. It is only in `RoleTemplateController` and
`ProjectRoleTemplateController`, whose controllers do not watch what they write;
everything the others promise they promise without it. A Project in the
workqueue of the Project controller gets its turn, as a template does: strong
fairness of `CollectMembers`. Nothing is assumed of users and faults.

The select of Watch takes one of the ready cases at random, so a ready
`StopChan` is taken in the end although events go on arriving: strong fairness
of `TakeStop`. The rest of the goroutine has weak fairness; a client receives
while it watches and, if it `drains`, after Stop.

### Findings

* `organization_orphan`: with the Namespace informer lagging, as it does in the
  deployed manager, `NoOrphanNamespace` fails. The namespace is created, the
  Organization is marked for deletion at once, the next call runs handleDeletion
  before the event of the namespace has arrived, finds no namespace in the
  cache, and removes the finalizer. The Project controller has the same code.
  It is the only way: `OnlyUnshownIsLeft` says, for both controllers and for any
  lag, that a namespace comes to be without the finalizer only by a call of
  handleDeletion that finds nothing in the cache while the event of the
  namespace is on its way. And up to the removal the promise is kept:
  `KeepsOwnership` holds with every informer lagging, because it promises of the
  look at the cache only what the cache can show. Both are checked and proved.
* `project_panic`: the RoleBinding event may be handled when the namespace is
  not in the cache, and the manager panics. `RestsOnlyWhenConverged` and
  `EventuallyConverged` show that the members are right in the end anyway: the
  new process lists everything. Dropping the event instead would lose nothing
  either, because the event of the namespace queues the Project.
* `project_role_template_stuck`: handleDeletion of a ProjectRoleTemplate removes
  the finalizer only in a call that finds no Roles, and the call that deletes
  them returns nil. What brings the next call is the event of the write of
  Terminating. If the manager restarts after that write, or the call fails, the
  next call skips the write, deletes the Roles, and nobody calls again: the
  controller rests with the finalizer in place (`DeletionCompletes`) until a
  Project changes or the informers resync. `EventuallySettled` shows that the
  resync is enough. The other controllers either watch what they delete
  (namespaces) or have no finalizer.

A third observation is not a run, because nothing in the repository says
otherwise: after Stop a goroutine of Watch that has an event in its hands sends
it to nobody, unless the client goes on receiving. It blocks for ever, and
`wi.Stop()` is not called (`Stuck` in `WatchProxy`).

A fourth is the loop between the Project controller and a ProjectRoleTemplate
for everyone. Once the RoleBinding that made somebody a member has been removed,
two lists of members satisfy both controllers, with and without that subject, so
a removed member may stay. And if each controller always works from the
previous result of the other, they go from one list to the other and back for
ever: TLC finds this behaviour when `EventuallySettled` is asked to promise a
fixed point for `users` "owners" or "members" too. It therefore promises there
that nobody is without what the template grants, and a fixed point elsewhere.

## Proofs

`OrganizationController_proofs` holds for every set of Organizations, Projects,
templates and owners, any number of workers, with or without lag of the
Namespace informer. The only assumptions are those the modules name:
`OwnerSetsAssumption` and `ControllerAssumption`, about the types of constants.

* `TypeCorrect`: every reachable state is well typed.
* `FinalizerInvariant`: the inductive invariant `FinalizerInv`. A copy that is
  current equals the stored object, and so does the cache when no event is
  pending (`CopiesKnown`); what the cache says about the finalizer still tells
  something of the stored object, because nobody but the controller touches it
  and there is one call per name at a time (`CacheTells`); each step of
  Reconcile knows of its copy what the branches before it found out
  (`CallTells`). None of the parts is inductive alone: the branch at the start
  reads the cache, the writes compare with the stored object.
* `CreatedUnderFinalizer`, `OthersWritesKept` and `TerminatingStays` follow
  from it for each step.
* `ReadyIsSetUp`: `SetUpInv` says which of finalizer, `status.namespace` and
  templates a running call has already seen or written, per step, for the copy
  it will write; a Ready write is accepted only from a current copy, and the
  templates only grow.
* `OwnershipIsKept`: the refinement of `GuardedOwnership`. `Passes` and `Turns`
  list the changes of the phase and of the namespace that the abstract
  specification allows; each action is shown to make one of them or none, and no
  action both. `LooksOf` adds what it does to the cached namespace, and that a
  call comes to removing the finalizer only where handleDeletion has found
  nothing in the cache. That such a call stays released, and creates nothing,
  needs that all steps which could create a namespace are steps of the same call.
* `LeftOnlyUnshown`: from the same facts. A finalizer goes only at the step that
  removes it (`FinalizerGoes`), a namespace is created only under it, and an
  informer without pending events shows the namespace there is (`Shown`, below):
  so if handleDeletion found none and there was one, its event was on its way.
* `RestsWhenConverged`: no wakeup is lost. The
  property says what holds when nothing is queued, running or under way, so it
  is far from inductive. `RestInv` says of every Organization that an informer
  without pending events shows what is stored (`Shown`), that one marked for
  deletion has a finalizer left (`Lingers`), and, of a call after which nothing
  is queued, that its copy, its list of subjects and what it wrote are those the
  caches show (`WorkStands`): every event that makes them old queues the
  Organization again. It stands on `FinalizerInv` and `SetUpInv`, from which it
  takes what the last step of a call may rely on.

`ProjectController_proofs` follows the same
argument for Projects, for any Projects, subjects, owners and workers, with or
without lag, under the assumptions `OwnerSetsAssumption` and those named in
`ProjectController`. Three things differ. A panic or a restart
(`StartManager`) ends every call and forgets every cache; it keeps the
invariants because all they say of a call is said of a call that runs, and
because the cache is filled from the API server before the first call. Every
other step but `BecomeCalm` concerns one Project: `Sources` says so, and
`Locality` that it leaves the others alone. And `UpdateMembers` ends the call
when the Project is ready already, and goes on to `UpdateReady` when it is not.

* `TypeCorrect` and `FinalizerInvariant`: as above.
* `ReadyIsSetUp`: `SetUpInv` says that the steps after the namespace work on a
  copy with `status.namespace`, and the last steps of a deletion on one that is
  Terminating.
* `OwnershipIsKept` and `LeftOnlyUnshown`: by the same argument. `StartManager`
  shows namespaces anew and forgets what calls had found, for all Projects at
  once, which the abstract specification allows as `CatchUp`.
* `RestsWhenConverged`: the same `RestInv`. After a panic all that is present is
  queued, so the invariant has nothing to say until the calls have run.

`RoleTemplate_proofs` holds for any Organizations, Projects, owners and specs,
under `TemplateAssumption`.

* `TypeCorrect`: whatever lags and whatever users alter. `LoopShape` is what it
  needs of the two loops: a Project is not listed a second time in a call, and
  an Organization whose targets are being reconciled has owners in the list.
* `RestsReported`, whatever lags and whatever users alter. The invariant `Inv`
  follows a call through its lists and loops. What has not changed since it was
  shown is shown as it is (`CacheTells`); what the call has done and has still
  to do are the targets in scope that the caches show, unless the template is
  queued (`PlanHolds`). `CallTells` has the delicate case: the template may be
  deleted and made anew while a call for the former one runs, and what the call
  writes then belongs to the former until the event of its removal arrives.
* `NeglectedOnlyOutdated` and `MisreportedOnlyOutdated` are about steps, under
  the same invariant. The controller watches neither Roles nor RoleBindings, so
  nobody leads it back to an entry once it is done there. Of each step it is
  shown that it either leaves the entry to be visited again, or leaves it as it
  should be, or is one of those the property names. The comparison with an entry
  that the cache shows as it is (`EntryShown`) makes it what the call wants, and
  a call that is not to run again wants what the stored template and the ready
  targets say.

`ProjectRoleTemplate_proofs` holds for any Projects, specs and subjects, under
`ProjectTemplateAssumption`.

* `ExtractedIsRanked`: `extractSubjects` returns the one increasing list of the
  subjects it is given, for every list. Sorting puts at each place the subject
  that by count belongs there (`SortedList`); the loop over a sorted list leaves
  each subject once and in order (`WithoutRepeatsOfSorted`); there is only one
  such list of a set (`IncreasingUnique`). Where a proof needs induction over
  the length it takes the least counterexample instead (`NatLeast`), because an
  induction theorem with an operator as its parameter cannot be used here. In
  the same way `Flattened` says what `FlattenSeq` makes of the RoleBindings of
  a namespace, in whatever order the cache lists them (`CollectedSubjects`).
* `TypeCorrect`, from these, whatever lags.
* `RestsReported`, whatever lags. Each controller works on what the other has
  made, and is woken up by the writes of the other. `Shown` and `Collected` say
  what the Project controller knows: a Project that is not to be looked at has
  the members that the RoleBindings, as they are shown, give. `CallWorks` and
  `WorkDone` say the same of the other: while neither an event of the template
  nor a further call is to come, the running call works for the stored template
  and the selected Projects of the cache, and a call that has ended has reported
  them. `DataSteps` divides the steps by what they do to Projects, entries and
  caches, so that the first two are proved without looking at the call.
* `NeglectedOnlyOutdated`, whatever lags. A step that keeps template and call
  neglects nothing new (`NeglectKept`): what it changes of a Project makes an
  event of that Project, and the namespace controller takes entries only from
  Projects that are not ready. A write to an entry that is shown as it is makes
  it the desired one (`ReconciledEntry`), and what the call desires is what the
  template, the owners and the members say, by `CallWorks`.
* `LeftOnlyOutdated`, whatever lags. Only `RemoveFinalizer` takes the finalizer
  from a template, and only `DeleteObjects` leads there, after a list without
  entries. Nothing is written meanwhile: the cached template, although it may be
  old, still tells whether there is a live template with the finalizer
  (`CopiesKnown`, `CacheTells`), since only this controller sets and removes it,
  and a call that writes entries has a template with the finalizer
  (`CallTells`). By `Shown` an entry that the list did not have had its event on
  the way.

`OwnedStorage_proofs` holds for any callers and names, under
`StorageAssumption` (the value for "nothing" is not an object). The inductive
invariant `Inv` says of every caller (`Sound`) that its copies tell the truth
about the stored objects, that a checked copy which is still the latest version
shows an object the caller owns, and that the client's own copy is not newer
than the one that was checked. The last part is what makes a PUT safe: the
resourceVersion the server compares is that of the client's copy, the ownership
was checked on another. `SoundThroughWrite` shows once that a write by anybody
leaves this true of everybody else.

* `TypeCorrect`: `TypeOK`, which contains what a copy says of the stored objects.
* `UpdatesAreChecked` and `DeletesAreChecked`: an update or a delete ends in its
  own step only (`RequestEnds`), and there `Inv` and the comparison the server
  makes give the property.

`WatchProxy_proofs` holds for any names and contents, under `WatchAssumption`
(the upstream watch may hold back at least one event).

* `TypeCorrect`: the goroutine and the client hold events exactly where they
  wait for each other.
* `ClientFollows`: `Inv` follows the last event of an object on its way. While
  it waits in the upstream watch it shows the object as it is (`LastShows`),
  then it is in the hands of the goroutine (`HandShows`), then the client knows
  (`ClientKnows`). What the filter drops is not visible to the caller, and when
  it becomes visible that is an event of its own, so the last part survives a
  dropped event. `FollowsVisible` is the case in which nothing is on its way.

`ObjectStatus_proofs` holds for any condition types and any bounds, under
`StatusAssumption`. `SetsOneEntry` says once what `SetCondition` does to a list
without a second entry of a type: it has the entry it should have, every other
type is found as before, and there is still no second one. `FindsTheEntry` lets
the loops over the list be read as "the entry of that type"; it needs the
uniqueness, so the invariant is `OneEntryPerType` together with `PhaseFollows`,
that the phase is the one of the conditions. `PhaseTells` and `TimesTransitions`
follow. `ShortFormIsFaithful` is the refinement that the
modules of the controllers rest on when they use `ManagedObject`.

No theorem assumes anything about the lag of informers or about users. Only
model-checked are the liveness properties, which need fairness and ENABLED, out
of the prover's reach, and `RestsOnlyWhenGranted` and `ReadyMeansWritten` of
`RoleTemplateController`, which hold only where the informers of Roles do not
lag and no user alters them. What remains true with lag is what the theorems
about that controller say.

## Simplifications

* `ProjectRoleTemplateController` contains the Project controller only as far as
  the two wake each other: `CollectMembers` writes members and Ready in one step
  from a current copy. `ProjectController` has the two writes apart, with
  outdated copies and conflicts.
* `OwnedStorage.IsMember` answers for a caller and a set of subjects. A request
  without a user and the error for a subject of an unknown kind are left out
  there; `WatchProxy` has that error as one of the answers of the filter.
* A subject whose own RoleBinding has been removed and who stays a member (the
  fourth observation above) is a state in which the two controllers may rest. No
  property excludes it.

## Not modelled

* Generated code (`openapi_generated.go`, `generated.pb.go`,
  `zz_generated.*`), more than four fifths of the lines: tables, encoders
  and field-by-field copies that follow from the API types and take no decision.
* Conversions between the internal, versioned and unstructured forms, the table
  printer, strategies, registration, flags and main functions: no state, and no
  branch that a property of the system depends on.
* `owner.ReconcileOwnedObjects` and `util.DeleteObjects` are not in this
  repository. They are modelled from their use: the former brings one object
  into the desired state, the latter lists the owned objects in the cache,
  deletes them, and reports whether the list was empty. Whether the former also
  removes owned objects that it was not given decides what becomes of the Roles
  of one ProjectRoleTemplate in two Projects, and of two objects whose namespaces
  have the same name; this cannot be told from the code here.
* The walk of `containsUser` through a list of subjects: `WatchProxy` has its
  three answers, `OwnedStorage` a set of users.
* The test support under `test/`.

## Plan

Still to be written, in this order:

1. `Tenancy`: Organizations with their Projects, from the Organization
   controller's view of Projects to the controller that writes them; cascading
   deletion.
2. Proofs: an abstract specification of what the two template controllers
   promise, with their refinement, as `GuardedOwnership` is for the owners of
   namespaces.
