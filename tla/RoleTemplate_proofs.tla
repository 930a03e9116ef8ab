------------------------- MODULE RoleTemplate_proofs -------------------------
(***************************************************************************)
(* Proofs about the OrganizationRoleTemplate controller, for any           *)
(* Organizations, Projects, owners and specs, whatever lags and whatever   *)
(* users do to the Roles and RoleBindings.                                 *)
(***************************************************************************)
EXTENDS RoleTemplateController, TLAPS

----------------------------------------------------------------------------
(* The inductive invariant. *)

\* Outside of the loops the variables of the loops are empty, no target is reached
\* twice, since the Projects of an Organization are listed once, and there are
\* owners to bind.
LoopShape ==
  /\ pc # "reconcile" => left = {} /\ todo = {} /\ at = None /\ done = {}
  /\ \A p \in Projects \cap (todo \cup done) : OrganizationOf(p) \notin left
  /\ \A x \in todo \cup left : listed[OrganizationOf(x)] # None

OwnersKnown ==
  /\ \A o \in Orgs : phase[o] # "absent" => owners[o] # None
  /\ \A o \in Orgs \cap cache.ready : cache.owners[o] # None

Typed == TypeOK /\ LoopShape /\ OwnersKnown

\* What has not changed since it was shown is shown as it is.
CacheTells ==
  /\ Name \notin pending => cache.template = template /\ ~cache.former
  /\ \A x \in Targets \ pending : x \in cache.ready <=> phase[x] = "ready"
  /\ \A o \in Orgs \ pending : cache.owners[o] = OwnersOfReady[o]

\* The call works for a template that the informers still show, unless it is to
\* run again; and it may take a former template for the present one only as long
\* as the event of its removal is on the way.
CallTells ==
  pc # "idle" =>
    /\ obj.present
    /\ current => obj = template /\ cache.template.spec = obj.spec
    /\ ~queued => cache.template = obj /\ (former => Name \in pending)

\* A spec that has been reported as observed is the one shown and worked for.
ObservedIsShown ==
  template.observed => /\ cache.template.spec = template.spec
                       /\ pc # "idle" => obj.spec = template.spec

\* An entry that has not changed since it was shown is shown as it is.
EntryShown ==
  \A x \in Targets, k \in Kinds : <<x, k>> \notin outdated => seen[x][k] = rbac[x][k]

\* The targets the caches show in scope of the call's template, and those it has
\* reconciled, has listed or is going to list.
ScopeOf(x) == IF x \in Orgs THEN "Organization" ELSE "Project"
Wanted  == {x \in cache.ready : OrganizationOf(x) \in cache.ready /\ ScopeOf(x) \in obj.spec.scopes}
Planned == done \cup todo \cup {p \in Projects \cap cache.ready : OrganizationOf(p) \in left}

\* A call that is not to run again works with what the caches show.
PlanHolds == pc = "reconcile" /\ ~queued => listed = cache.owners /\ Planned = Wanted

Inv ==
  /\ Typed /\ CacheTells /\ CallTells /\ ObservedIsShown
  /\ EntryShown /\ PlanHolds /\ RestsOnlyWhenReported
----------------------------------------------------------------------------
(* Templates, entries and targets. *)

LEMMA TemplateTypes ==
  /\ NoTemplate \in Template /\ NoTemplate.present = FALSE /\ NoTemplate.observed = FALSE
  /\ \A spec \in Specs, held \in BOOLEAN :
       NewTemplate(spec, held) \in Template /\ NewTemplate(spec, held).observed = FALSE
<1>1. ASSUME NEW spec \in Specs, NEW held \in BOOLEAN
      PROVE  NewTemplate(spec, held) \in Template /\ NewTemplate(spec, held).observed = FALSE
  BY DEF NewTemplate, Template
<1>2. (CHOOSE s \in Specs : TRUE) \in Specs
  BY TemplateAssumption
<1> DEFINE new == NewTemplate(CHOOSE s \in Specs : TRUE, FALSE)
<1>3. new \in Template /\ new.observed = FALSE
  BY <1>1, <1>2
<1>4. NoTemplate = [new EXCEPT !.present = FALSE]
  BY DEF NoTemplate
<1> HIDE DEF new
<1>5. NoTemplate \in Template /\ NoTemplate.present = FALSE /\ NoTemplate.observed = FALSE
  BY <1>3, <1>4 DEF Template
<1>. QED BY <1>1, <1>5

LEMMA TargetTypes ==
  /\ \A o \in Orgs : o \in Targets /\ o \notin Projects /\ OrganizationOf(o) = o
  /\ \A p \in Projects : p \in Targets /\ p \notin Orgs /\ OrganizationOf(p) \in Orgs
  /\ \A x \in Targets : OrganizationOf(x) \in Orgs /\ (x \notin Orgs => x \in Projects)
  /\ Name \notin Targets /\ None \notin Targets
<1>1. \A p \in Projects : p[1] \in Orgs /\ p \notin Orgs
  BY TemplateAssumption DEF Projects
<1>. QED BY <1>1, TemplateAssumption DEF Targets, OrganizationOf

LEMMA EntryTypes ==
  ASSUME NEW r \in Rbac, NEW x \in Targets, NEW k \in Kinds
  PROVE  /\ r[x][k] \in Entry(k) \cup {None}
         /\ \A e \in Entry(k) \cup {None} :
              /\ [r EXCEPT ![x][k] = e] \in Rbac
              /\ [r EXCEPT ![x][k] = e][x][k] = e
              /\ \A y \in Targets, l \in Kinds :
                   <<y, l>> # <<x, k>> => [r EXCEPT ![x][k] = e][y][l] = r[y][l]
<1>. k = "Role" \/ k = "RoleBinding"
  BY DEF Kinds
<1>1. \A y \in Targets : r[y] \in [Kinds -> Entry("Role") \cup Entry("RoleBinding") \cup {None}]
  BY DEF Rbac
<1>2. \A y \in Targets, l \in Kinds : r[y][l] \in Entry(l) \cup {None}
  BY DEF Rbac
<1>. SUFFICES ASSUME NEW e \in Entry(k) \cup {None}
              PROVE  /\ [r EXCEPT ![x][k] = e] \in Rbac
                     /\ [r EXCEPT ![x][k] = e][x][k] = e
                     /\ \A y \in Targets, l \in Kinds :
                          <<y, l>> # <<x, k>> => [r EXCEPT ![x][k] = e][y][l] = r[y][l]
  BY <1>2
<1> DEFINE new == [r EXCEPT ![x][k] = e]
<1>3. /\ new[x] = [r[x] EXCEPT ![k] = e]
      /\ \A y \in Targets \ {x} : new[y] = r[y]
  BY DEF Rbac
<1>4. new[x][k] = e /\ \A l \in Kinds \ {k} : new[x][l] = r[x][l]
  BY <1>1, <1>3
<1>5. new[x] \in [Kinds -> Entry("Role") \cup Entry("RoleBinding") \cup {None}]
  BY <1>1, <1>3
<1>6. \A y \in Targets, l \in Kinds : new[y][l] \in Entry(l) \cup {None}
  BY <1>2, <1>3, <1>4
<1>7. new \in Rbac
  BY <1>1, <1>3, <1>5, <1>6 DEF Rbac
<1>. QED BY <1>3, <1>4, <1>7

LEMMA NoRbacTypes == NoRbac \in Rbac
BY DEF NoRbac, Rbac

\* An entry that is written or removed.
LEMMA PutTypes ==
  ASSUME TypeOK, NEW x \in Targets, NEW k \in Kinds, NEW e \in Entry(k) \cup {None}, Put(x, k, e)
  PROVE  rbac' \in Rbac /\ seen' \in Rbac /\ outdated' \subseteq Targets \X Kinds
<1>1. rbac' \in Rbac
  BY EntryTypes DEF Put, TypeOK
<1>2. seen' \in Rbac
  <2>1. seen \in Rbac /\ (seen' = seen \/ seen' = [seen EXCEPT ![x][k] = e])
    BY DEF Put, TypeOK
  <2>. QED BY <2>1, EntryTypes
<1>3. outdated' \subseteq Targets \X Kinds
  BY DEF Put, TypeOK
<1>. QED BY <1>1, <1>2, <1>3

LEMMA ReconciledTypes ==
  ASSUME TypeOK, NEW x \in Targets, NEW k \in Kinds, NEW content \in Content(k),
         Reconciled(x, k, content)
  PROVE  rbac' \in Rbac /\ seen' \in Rbac /\ outdated' \subseteq Targets \X Kinds
<1>1. EntryOf(content) \in Entry(k)
  BY DEF EntryOf, Entry
<1>. QED BY <1>1, PutTypes DEF Reconciled, TypeOK

LEMMA OrphanedTypes ==
  ASSUME NEW r \in Rbac
  PROVE  /\ Orphaned(r) \in Rbac
         /\ \A x \in Targets, k \in Kinds :
              Orphaned(r)[x][k] # None =>
                r[x][k] # None /\ Orphaned(r)[x][k].content = r[x][k].content
<1>1. ASSUME NEW x \in Targets, NEW k \in Kinds
      PROVE  /\ Orphaned(r)[x][k] \in Entry(k) \cup {None}
             /\ Orphaned(r)[x][k] # None =>
                  r[x][k] # None /\ Orphaned(r)[x][k].content = r[x][k].content
  <2>1. r[x][k] \in Entry(k) \cup {None}
    BY EntryTypes
  <2>2. Orphaned(r)[x][k] = IF r[x][k] # None /\ r[x][k].owner = "current"
                            THEN [r[x][k] EXCEPT !.owner = "former"] ELSE r[x][k]
    BY DEF Orphaned
  <2>. QED BY <2>1, <2>2 DEF Entry
<1>. QED BY <1>1 DEF Orphaned, Rbac, Kinds

----------------------------------------------------------------------------
(* The steps, sorted by what they change. *)

\* A target or its namespace changes, and with an Organization its owners.
TargetStep(x) ==
  /\ phase' \in [Targets -> Phases] /\ \A y \in Targets \ {x} : phase'[y] = phase[y]
  /\ owners' \in [Orgs -> Owners \cup {None}] /\ \A o \in Orgs \ {x} : owners'[o] = owners[o]
  /\ x \in Orgs /\ phase'[x] # "absent" => owners'[x] # None
  /\ pending' = pending \cup {x}
  /\ UNCHANGED <<template, rbac, cache, seen, outdated, queued, callVars, calm>>

\* Somebody else writes the template, or it goes.
TemplateStep(new) ==
  /\ new.observed = FALSE
  /\ ChangeTemplate(new)
  /\ \/ UNCHANGED <<rbac, cache, seen, former>>
     \/ /\ rbac' = Orphaned(rbac) /\ seen' = Orphaned(seen)
        /\ cache' = [cache EXCEPT !.former = cache.template.present]
        /\ former' = (pc # "idle")

\* Kubernetes removes an entry: one of a former template, or one in a namespace
\* that is being deleted.
RemovalStep(x, k) == Remove(x, k) /\ (rbac[x][k].owner = "former" \/ phase[x] = "leaving")

QuietStep ==
  /\ queued' \in {queued, TRUE} /\ calm' \in BOOLEAN
  /\ UNCHANGED <<template, targetVars, rbac, cacheVars, callVars>>

EnvironmentStep ==
  \/ \E x \in Targets : TargetStep(x)
  \/ \E new \in Template : TemplateStep(new)
  \/ \E x \in Targets, k \in Kinds : RemovalStep(x, k) \/ DeliverRole(x, k) \/ Alter(x, k)
  \/ QuietStep

ControllerStep ==
  \/ Start
  \/ \E x \in Targets : ReconcileRole(x) \/ ReconcileRoleBinding(x)
  \/ \E o \in Orgs : ListProjects(o)
  \/ UpdateStatus \/ UpdateTerminating
  \/ \E what \in {Name} \cup Targets : Deliver(what)
  \/ FailCall \/ Restart

LEMMA TargetSteps ==
  ASSUME Typed, NEW x \in Targets,
         RemoveTarget(x) \/ CreateTarget(x) \/ BecomeReady(x) \/ DeleteTarget(x)
           \/ (x \in Orgs /\ ChangeOwners(x))
  PROVE  TargetStep(x)
<1>. /\ phase \in [Targets -> Phases] /\ owners \in [Orgs -> Owners \cup {None}]
     /\ x \in Orgs /\ phase[x] # "absent" => owners[x] # None
  BY DEF Typed, TypeOK, OwnersKnown
<1>. \A v \in Owners : v # None
  BY TemplateAssumption
<1>a. ASSUME NEW new \in Phases, SetPhase(x, new)
      PROVE  /\ phase' \in [Targets -> Phases] /\ phase'[x] = new
             /\ \A y \in Targets \ {x} : phase'[y] = phase[y]
             /\ pending' = pending \cup {x}
             /\ UNCHANGED <<template, rbac, cache, seen, outdated, queued, callVars, calm>>
  BY <1>a DEF SetPhase, Notify
<1>b. {"absent", "unready", "ready", "leaving"} \subseteq Phases
  BY DEF Phases
<1>1. CASE RemoveTarget(x)
  <2>1. CASE x \in Projects /\ SetPhase(x, "leaving") /\ UNCHANGED owners
    BY <2>1, <1>a, <1>b, TargetTypes DEF TargetStep
  <2>2. CASE /\ SetPhase(x, "absent")
             /\ owners' = [o \in Orgs |-> IF o = x THEN None ELSE owners[o]]
    BY <2>2, <1>a, <1>b DEF TargetStep
  <2>. QED BY <1>1, <2>1, <2>2 DEF RemoveTarget
<1>2. CASE CreateTarget(x)
  <2>1. SetPhase(x, "unready")
    BY <1>2 DEF CreateTarget
  <2>2. /\ owners' \in [Orgs -> Owners \cup {None}] /\ \A o \in Orgs \ {x} : owners'[o] = owners[o]
        /\ x \in Orgs => owners'[x] # None
    BY <1>2 DEF CreateTarget
  <2>. QED BY <2>1, <2>2, <1>a, <1>b DEF TargetStep
<1>3. CASE BecomeReady(x)
  BY <1>3, <1>a, <1>b DEF BecomeReady, TargetStep
<1>4. CASE DeleteTarget(x)
  BY <1>4, <1>a, <1>b DEF DeleteTarget, TargetStep
<1>5. CASE x \in Orgs /\ ChangeOwners(x)
  BY <1>5, <1>a, <1>b DEF ChangeOwners, TargetStep
<1>. QED BY <1>1, <1>2, <1>3, <1>4, <1>5

LEMMA TemplateSteps ==
  ASSUME TypeOK, CreateTemplate \/ UpdateSpec \/ DeleteTemplate \/ ReleaseHold
  PROVE  \E new \in Template : TemplateStep(new)
<1>a. ASSUME Disappear PROVE TemplateStep(NoTemplate)
  BY <1>a, TemplateTypes DEF Disappear, TemplateStep
<1>1. CASE CreateTemplate
  BY <1>1, TemplateTypes, TemplateAssumption DEF CreateTemplate, TemplateStep
<1>2. CASE UpdateSpec
  <2>1. PICK spec \in Specs : ChangeTemplate([template EXCEPT !.spec = spec, !.observed = FALSE])
    BY <1>2 DEF UpdateSpec
  <2> DEFINE new == [template EXCEPT !.spec = spec, !.observed = FALSE]
  <2>2. new \in Template /\ new.observed = FALSE
    BY DEF TypeOK, Template
  <2>. QED BY <1>2, <2>1, <2>2 DEF UpdateSpec, TemplateStep
<1>3. CASE DeleteTemplate /\ ~Disappear
  <2> DEFINE new == [template EXCEPT !.deleting = TRUE, !.observed = FALSE]
  <2>1. new \in Template /\ new.observed = FALSE
    BY DEF TypeOK, Template
  <2>. QED BY <1>3, <2>1 DEF DeleteTemplate, TemplateStep
<1>. QED BY <1>1, <1>2, <1>3, <1>a, TemplateTypes DEF ReleaseHold

LEMMA Steps == Typed /\ [Next]_vars => EnvironmentStep \/ ControllerStep
<1>. SUFFICES ASSUME Typed, [Next]_vars PROVE EnvironmentStep \/ ControllerStep
  OBVIOUS
<1>1. CASE System
  <2>1. CASE \/ Start \/ Continue
             \/ \E what \in {Name} \cup Targets : Deliver(what)
    BY <2>1 DEF Continue, ControllerStep
  <2>2. CASE Resync
    BY <2>2 DEF Resync, QuietStep, EnvironmentStep, Typed, TypeOK
  <2>3. ASSUME NEW x \in Targets, NEW k \in Kinds, DeliverRole(x, k) \/ CollectGarbage(x, k)
        PROVE  EnvironmentStep
    BY <2>3 DEF CollectGarbage, RemovalStep, EnvironmentStep
  <2>4. ASSUME NEW x \in Targets, PurgeNamespace(x) PROVE EnvironmentStep
    BY <2>4 DEF PurgeNamespace, RemovalStep, EnvironmentStep
  <2>5. ASSUME NEW x \in Targets, RemoveTarget(x) PROVE EnvironmentStep
    BY <2>5, TargetSteps DEF EnvironmentStep
  <2>6. CASE ReleaseHold
    BY <2>6, TemplateSteps DEF EnvironmentStep, Typed
  <2>. QED BY <1>1, <2>1, <2>2, <2>3, <2>4, <2>5, <2>6 DEF System
<1>2. CASE Environment
  <2>1. ASSUME NEW x \in Targets, CreateTarget(x) \/ BecomeReady(x) \/ DeleteTarget(x)
        PROVE  EnvironmentStep
    BY <2>1, TargetSteps DEF EnvironmentStep
  <2>2. ASSUME NEW o \in Orgs, ChangeOwners(o) PROVE EnvironmentStep
    BY <2>2, TargetSteps, TargetTypes DEF EnvironmentStep
  <2>3. CASE CreateTemplate \/ UpdateSpec \/ DeleteTemplate
    BY <2>3, TemplateSteps DEF EnvironmentStep, Typed
  <2>4. ASSUME NEW x \in Targets, NEW k \in Kinds, Alter(x, k) PROVE EnvironmentStep
    BY <2>4 DEF EnvironmentStep
  <2>5. CASE FailCall \/ Restart
    BY <2>5 DEF ControllerStep
  <2>. QED BY <1>2, <2>1, <2>2, <2>3, <2>4, <2>5 DEF Environment
<1>3. CASE BecomeCalm \/ UNCHANGED vars
  BY <1>3 DEF BecomeCalm, vars, cacheVars, QuietStep, EnvironmentStep, Typed, TypeOK
<1>. QED BY <1>1, <1>2, <1>3 DEF Next

----------------------------------------------------------------------------
(* Types. *)

LEMMA CacheTypes ==
  ASSUME cache \in Cache
  PROVE  /\ cache.template \in Template /\ cache.former \in BOOLEAN
         /\ cache.ready \subseteq Targets /\ cache.owners \in [Orgs -> Owners \cup {None}]
BY DEF Cache

\* What the call leaves behind.
LEMMA ReturnTypes ==
  ASSUME Return
  PROVE  /\ pc' = "idle" /\ obj' \in Template /\ current' \in BOOLEAN /\ former' \in BOOLEAN
         /\ listed' \in [Orgs -> Owners \cup {None}]
         /\ left' = {} /\ todo' = {} /\ at' = None /\ done' = {}
BY TemplateTypes DEF Return, NoOwners

LEMMA OwnersOfReadyTypes ==
  Typed => /\ OwnersOfReady \in [Orgs -> Owners \cup {None}]
           /\ ReadyTargets \subseteq Targets
           /\ \A o \in Orgs \cap ReadyTargets : OwnersOfReady[o] # None
<1>. SUFFICES ASSUME Typed
              PROVE  /\ OwnersOfReady \in [Orgs -> Owners \cup {None}]
                     /\ ReadyTargets \subseteq Targets
                     /\ \A o \in Orgs \cap ReadyTargets : OwnersOfReady[o] # None
  OBVIOUS
<1>1. OwnersOfReady \in [Orgs -> Owners \cup {None}] /\ ReadyTargets \subseteq Targets
  BY DEF OwnersOfReady, ReadyTargets, Typed, TypeOK
<1>2. \A o \in Orgs \cap ReadyTargets : OwnersOfReady[o] # None
  BY DEF OwnersOfReady, ReadyTargets, Typed, OwnersKnown
<1>. QED BY <1>1, <1>2

LEMMA EnvironmentTypes == Typed /\ EnvironmentStep => Typed'
<1>. SUFFICES ASSUME Typed, EnvironmentStep PROVE Typed'
  OBVIOUS
<1>. USE DEF targetVars, cacheVars, callVars
<1>1. ASSUME NEW x \in Targets, TargetStep(x) PROVE Typed'
  <2>1. pending' \subseteq {Name} \cup Targets
    BY <1>1 DEF TargetStep, Typed, TypeOK
  <2>2. OwnersKnown'
    BY <1>1, TargetTypes DEF TargetStep, Typed, OwnersKnown
  <2>. QED BY <1>1, <2>1, <2>2 DEF TargetStep, Typed, TypeOK, LoopShape
<1>2. ASSUME NEW new \in Template, TemplateStep(new) PROVE Typed'
  <2>1. rbac' \in Rbac /\ seen' \in Rbac
    BY <1>2, OrphanedTypes DEF TemplateStep, Typed, TypeOK
  <2>2. cache' \in Cache /\ cache'.ready = cache.ready /\ cache'.owners = cache.owners
    <3>1. cache.template.present \in BOOLEAN
      BY DEF Typed, TypeOK, Cache, Template
    <3>. QED BY <1>2, <3>1 DEF TemplateStep, Typed, TypeOK, Cache
  <2>3. pending' \subseteq {Name} \cup Targets /\ former' \in BOOLEAN /\ current' \in BOOLEAN
    BY <1>2 DEF TemplateStep, ChangeTemplate, Notify, Typed, TypeOK
  <2>. QED BY <1>2, <2>1, <2>2, <2>3
           DEF TemplateStep, ChangeTemplate, Typed, TypeOK, LoopShape, OwnersKnown
<1>3. ASSUME NEW x \in Targets, NEW k \in Kinds,
             RemovalStep(x, k) \/ DeliverRole(x, k) \/ Alter(x, k)
      PROVE  Typed'
  <2>1. rbac' \in Rbac /\ seen' \in Rbac /\ outdated' \subseteq Targets \X Kinds
    <3>1. CASE RemovalStep(x, k)
      BY <3>1, PutTypes DEF RemovalStep, Remove, Typed
    <3>2. CASE DeliverRole(x, k)
      BY <3>2, EntryTypes DEF DeliverRole, Typed, TypeOK
    <3>3. CASE Alter(x, k)
      <4>1. rbac[x][k] \in Entry(k)
        BY <3>3, EntryTypes DEF Alter, Typed, TypeOK
      <4>2. \A v \in Content(k) : [rbac[x][k] EXCEPT !.content = v] \in Entry(k)
        BY <4>1 DEF Entry
      <4>. QED BY <3>3, <4>2, PutTypes DEF Alter, Typed
    <3>. QED BY <1>3, <3>1, <3>2, <3>3
  <2>2. UNCHANGED <<template, targetVars, cache, pending, queued, callVars, calm>>
    BY <1>3 DEF RemovalStep, Remove, DeliverRole, Alter
  <2>. QED BY <2>1, <2>2 DEF Typed, TypeOK, LoopShape, OwnersKnown
<1>4. CASE QuietStep
  BY <1>4 DEF QuietStep, Typed, TypeOK, LoopShape, OwnersKnown
<1>. QED BY <1>1, <1>2, <1>3, <1>4 DEF EnvironmentStep

\* The call may end.
LEMMA ReturnTyped ==
  ASSUME Typed, Return, template' \in Template, queued' \in BOOLEAN,
         pending' \subseteq {Name} \cup Targets,
         UNCHANGED <<targetVars, rbac, cache, seen, outdated, calm>>
  PROVE  Typed'
BY ReturnTypes DEF targetVars, Typed, TypeOK, LoopShape, OwnersKnown

LEMMA StartTypes == Typed /\ Start => Typed'
<1>. SUFFICES ASSUME Typed, Start PROVE Typed'
  OBVIOUS
<1>. USE DEF targetVars, cacheVars, callVars
<1>a. /\ TypeOK /\ queued' = FALSE
      /\ UNCHANGED <<template, targetVars, rbac, cacheVars, calm>>
  BY DEF Start, Typed
<1>b. OwnersKnown'
  BY <1>a DEF Typed, OwnersKnown
<1>1. CASE UNCHANGED callVars
  BY <1>a, <1>b, <1>1 DEF Typed, TypeOK, LoopShape
<1>2. CASE /\ obj' = cache.template /\ current' = (Name \notin pending)
           /\ former' = cache.former /\ pc' = "updateTerminating"
           /\ UNCHANGED <<listed, left, todo, at, done>>
  <2>1. obj' \in Template /\ current' \in BOOLEAN /\ former' \in BOOLEAN
    BY <1>a, <1>2, CacheTypes DEF TypeOK
  <2>. QED BY <1>a, <1>b, <1>2, <2>1 DEF Start, Typed, TypeOK, LoopShape
<1>3. CASE /\ obj' = cache.template /\ current' = (Name \notin pending)
           /\ former' = cache.former /\ pc' = "reconcile" /\ listed' = cache.owners
           /\ todo' = TargetsOf("Organization", Orgs \cap cache.ready)
           /\ left' = TargetsOf("Project", Orgs \cap cache.ready)
           /\ UNCHANGED <<at, done>>
  <2>1. obj' \in Template /\ current' \in BOOLEAN /\ former' \in BOOLEAN
    BY <1>a, <1>3, CacheTypes DEF TypeOK
  <2>2. /\ todo' \subseteq Orgs \cap cache.ready /\ left' \subseteq Orgs \cap cache.ready
        /\ Orgs \subseteq Targets
    BY <1>3, TargetTypes DEF TargetsOf
  <2>3. at' = None /\ done' = {}
    BY <1>3 DEF Start, Typed, LoopShape
  <2>4. LoopShape'
    BY <1>3, <2>2, <2>3, TargetTypes DEF LoopShape, Typed, OwnersKnown
  <2>5. listed' \in [Orgs -> Owners \cup {None}]
    BY <1>a, <1>3, CacheTypes DEF TypeOK
  <2>. QED BY <1>a, <1>b, <1>3, <2>1, <2>2, <2>3, <2>4, <2>5 DEF Typed, TypeOK
<1>. QED BY <1>1, <1>2, <1>3 DEF Start

LEMMA RoleTypes ==
  ASSUME Typed, NEW x \in Targets, ReconcileRole(x) \/ ReconcileRoleBinding(x)
  PROVE  Typed'
<1>. USE DEF targetVars, cacheVars, callVars
<1>a. TypeOK /\ x \in todo /\ pc = "reconcile"
  BY TemplateAssumption DEF ReconcileRole, ReconcileRoleBinding, Typed, TypeOK
<1>b. UNCHANGED <<template, targetVars, cache, pending, calm>> /\ OwnersKnown'
  BY DEF ReconcileRole, ReconcileRoleBinding, Typed, OwnersKnown
<1>1. CASE ReturnError /\ UNCHANGED <<rbac, seen, outdated>>
  BY <1>a, <1>b, <1>1, ReturnTyped DEF ReturnError, TypeOK
<1>2. CASE /\ rbac' \in Rbac /\ seen' \in Rbac /\ outdated' \subseteq Targets \X Kinds
           /\ at' \in {x, None} /\ (at' = x => UNCHANGED <<todo, done>>)
           /\ (at' = None => Complete(x))
           /\ UNCHANGED <<queued, pc, obj, current, former, listed, left>>
  <2>1. CASE at' = x /\ UNCHANGED <<todo, done>>
    BY <1>a, <1>b, <1>2, <2>1 DEF Typed, TypeOK, LoopShape
  <2>2. CASE at' = None /\ todo' = todo \ {x} /\ done' = done \cup {x}
    <3>1. LoopShape'
      BY <1>a, <1>2, <2>2 DEF Typed, LoopShape
    <3>. QED BY <1>a, <1>b, <1>2, <2>2, <3>1 DEF Typed, TypeOK
  <2>. QED BY <1>2, <2>1, <2>2 DEF Complete
<1>3. CASE ReconcileRole(x)
  <2>1. obj.spec.rules \in Content("Role") /\ "Role" \in Kinds
    BY <1>a, TemplateAssumption DEF TypeOK, Template, Content, Kinds
  <2>. QED BY <1>a, <1>1, <1>2, <1>3, <2>1, ReconciledTypes, TargetTypes DEF ReconcileRole
<1>4. CASE ReconcileRoleBinding(x)
  <2>1. listed[OrganizationOf(x)] \in Content("RoleBinding") /\ "RoleBinding" \in Kinds
    BY <1>a, TargetTypes DEF Typed, TypeOK, LoopShape, Content, Kinds
  <2>. QED BY <1>a, <1>1, <1>2, <1>4, <2>1, ReconciledTypes, TargetTypes DEF ReconcileRoleBinding
<1>. QED BY <1>3, <1>4

LEMMA ListTypes ==
  ASSUME Typed, NEW o \in Orgs, ListProjects(o)
  PROVE  Typed'
<1>. USE DEF targetVars, cacheVars
<1>1. /\ UNCHANGED <<template, targetVars, rbac, cacheVars, queued, pc, obj, current, former,
                     listed, at, done, calm>>
      /\ left' = left \ {o} /\ o \in left /\ pc = "reconcile" /\ at = None
      /\ todo' = {p \in Projects \cap cache.ready : OrganizationOf(p) = o}
  BY TemplateAssumption DEF ListProjects, Typed, TypeOK
<1>2. todo' \subseteq Targets /\ todo' \cap done = {}
  BY <1>1, TargetTypes DEF Typed, LoopShape
<1>3. LoopShape'
  <2>1. listed[o] # None
    BY <1>1, TargetTypes DEF Typed, LoopShape
  <2>. QED BY <1>1, <2>1 DEF Typed, LoopShape
<1>. QED BY <1>1, <1>2, <1>3 DEF Typed, TypeOK, OwnersKnown

LEMMA UpdateTypes == Typed /\ (UpdateStatus \/ UpdateTerminating) => Typed'
<1>. SUFFICES ASSUME Typed, UpdateStatus \/ UpdateTerminating PROVE Typed'
  OBVIOUS
<1>1. Return /\ UNCHANGED <<targetVars, rbac, cache, seen, outdated, calm>>
  BY DEF UpdateStatus, UpdateTerminating, ReturnError
<1>2. queued' \in BOOLEAN /\ pending' \subseteq {Name} \cup Targets
  BY DEF UpdateStatus, UpdateTerminating, ReturnError, Notify, Typed, TypeOK
<1>3. template' \in Template
  BY DEF UpdateStatus, UpdateTerminating, Typed, TypeOK, Template
<1>. QED BY <1>1, <1>2, <1>3, ReturnTyped

LEMMA DeliverTypes ==
  ASSUME Typed, NEW what \in {Name} \cup Targets, Deliver(what)
  PROVE  Typed'
<1>. USE DEF targetVars, callVars
<1>a. UNCHANGED <<template, targetVars, rbac, seen, outdated, callVars, calm>>
  BY DEF Deliver
<1>1. queued' \in BOOLEAN /\ pending' \subseteq {Name} \cup Targets
  BY DEF Deliver, Requested, Typed, TypeOK, Cache, Template
<1>2. CASE what = Name
  <2>1. cache' = [cache EXCEPT !.template = template, !.former = FALSE]
    BY <1>2 DEF Deliver
  <2>2. cache' \in Cache /\ cache'.ready = cache.ready /\ cache'.owners = cache.owners
    BY <2>1 DEF Typed, TypeOK, Cache
  <2>. QED BY <1>a, <1>1, <2>2 DEF Typed, TypeOK, LoopShape, OwnersKnown
<1>3. CASE what # Name
  <2> DEFINE ready == (cache.ready \ {what}) \cup (ReadyTargets \cap {what})
             known == [o \in Orgs |-> IF o = what THEN OwnersOfReady[o] ELSE cache.owners[o]]
  <2>1. cache' = [cache EXCEPT !.ready = ready, !.owners = known]
    BY <1>3 DEF Deliver
  <2>2. ready \subseteq Targets /\ known \in [Orgs -> Owners \cup {None}]
    BY OwnersOfReadyTypes, CacheTypes DEF Typed, TypeOK
  <2>3. \A o \in Orgs \cap ready : known[o] # None
    BY OwnersOfReadyTypes DEF Typed, OwnersKnown
  <2> HIDE DEF ready, known
  <2>4. cache' \in Cache /\ cache'.ready = ready /\ cache'.owners = known
    BY <2>1, <2>2 DEF Typed, TypeOK, Cache
  <2>. QED BY <1>a, <1>1, <2>3, <2>4 DEF Typed, TypeOK, LoopShape, OwnersKnown
<1>. QED BY <1>2, <1>3

LEMMA FaultTypes == Typed /\ (FailCall \/ Restart) => Typed'
<1>. SUFFICES ASSUME Typed, FailCall \/ Restart PROVE Typed'
  OBVIOUS
<1>. USE DEF targetVars, cacheVars
<1>1. CASE FailCall
  BY <1>1, ReturnTyped DEF FailCall, ReturnError, Typed, TypeOK
<1>2. CASE Restart
  <2>1. /\ cache' = [template |-> template, former |-> FALSE,
                     ready |-> ReadyTargets, owners |-> OwnersOfReady]
        /\ pending' = {} /\ seen' = rbac /\ outdated' = {} /\ queued' = template.present
        /\ UNCHANGED <<template, targetVars, rbac, calm>> /\ Return
    BY <1>2 DEF Restart
  <2>2. cache' \in Cache /\ \A o \in Orgs \cap cache'.ready : cache'.owners[o] # None
    BY <2>1, OwnersOfReadyTypes DEF Typed, TypeOK, Cache
  <2>3. queued' \in BOOLEAN
    BY <2>1 DEF Typed, TypeOK, Template
  <2>. QED BY <2>1, <2>2, <2>3, ReturnTypes DEF Typed, TypeOK, LoopShape, OwnersKnown
<1>. QED BY <1>1, <1>2

LEMMA InitTypes == Init => Typed
<1>. SUFFICES ASSUME Init PROVE Typed
  OBVIOUS
<1>1. NoOwners \in [Orgs -> Owners \cup {None}]
  BY DEF NoOwners
<1>2. /\ cache \in Cache /\ cache.ready = {}
  BY <1>1, TemplateTypes DEF Init, Cache
<1>3. phase \in [Targets -> Phases] /\ \A o \in Orgs : phase[o] = "absent"
  BY TargetTypes DEF Init, Phases
<1>. QED BY <1>1, <1>2, <1>3, TemplateTypes, NoRbacTypes
         DEF Init, Typed, TypeOK, LoopShape, OwnersKnown

LEMMA NextTypes == Typed /\ [Next]_vars => Typed'
BY Steps, EnvironmentTypes, StartTypes, RoleTypes, ListTypes, UpdateTypes, DeliverTypes, FaultTypes
   DEF ControllerStep

LEMMA AlwaysTyped == Spec => []Typed
BY InitTypes, NextTypes, PTL DEF Spec

\* All variables have their types, whatever lags or is altered: no target is
\* reconciled twice in a call, and what is written to a RoleBinding are owners.
THEOREM TypeCorrect == Spec => []TypeOK
<1>1. Typed => TypeOK
  BY DEF Typed
<1>. QED BY <1>1, AlwaysTyped, PTL

----------------------------------------------------------------------------
(* What the caches and the call know. *)

LEMMA NextCacheTells ==
  Typed /\ CacheTells /\ [Next]_vars => CacheTells'
<1>. SUFFICES ASSUME Typed, CacheTells, [Next]_vars PROVE CacheTells'
  OBVIOUS
<1>. USE DEF targetVars, cacheVars, callVars
<1>a. OwnersOfReady = [o \in Orgs |-> IF phase[o] = "ready" THEN owners[o] ELSE None]
  BY DEF OwnersOfReady
<1>b. OwnersOfReady' = [o \in Orgs |-> IF phase'[o] = "ready" THEN owners'[o] ELSE None]
  BY DEF OwnersOfReady
<1>1. CASE UNCHANGED <<template, targetVars, cache, pending>>
  BY <1>1 DEF CacheTells, OwnersOfReady
<1>2. ASSUME NEW x \in Targets, TargetStep(x) PROVE CacheTells'
  <2>1. \A o \in Orgs \ {x} : OwnersOfReady'[o] = OwnersOfReady[o]
    BY <1>2, <1>a, <1>b, TargetTypes DEF TargetStep
  <2>. QED BY <1>2, <2>1 DEF TargetStep, CacheTells
<1>3. CASE /\ UNCHANGED targetVars /\ Name \in pending' /\ pending \subseteq pending'
           /\ cache'.ready = cache.ready /\ cache'.owners = cache.owners
  BY <1>3, <1>a, <1>b DEF CacheTells
<1>4. ASSUME NEW new \in Template, TemplateStep(new) PROVE CacheTells'
  BY <1>3, <1>4 DEF TemplateStep, ChangeTemplate, Notify, Typed, TypeOK, Cache
<1>5. ASSUME NEW x \in Targets, NEW k \in Kinds, RemovalStep(x, k) \/ DeliverRole(x, k) \/ Alter(x, k)
      PROVE  CacheTells'
  BY <1>1, <1>5 DEF RemovalStep, Remove, DeliverRole, Alter
<1>6. CASE QuietStep
  BY <1>1, <1>6 DEF QuietStep
<1>7. CASE \/ Start \/ FailCall
           \/ \E x \in Targets : ReconcileRole(x) \/ ReconcileRoleBinding(x)
           \/ \E o \in Orgs : ListProjects(o)
  BY <1>1, <1>7 DEF Start, FailCall, ReconcileRole, ReconcileRoleBinding, ListProjects
<1>8. CASE UpdateStatus \/ UpdateTerminating
  <2>1. CASE UNCHANGED <<template, pending>>
    BY <1>1, <1>8, <2>1 DEF UpdateStatus, UpdateTerminating
  <2>2. CASE Notify(Name)
    BY <1>3, <1>8, <2>2 DEF UpdateStatus, UpdateTerminating, Notify
  <2>. QED BY <1>8, <2>1, <2>2 DEF UpdateStatus, UpdateTerminating
<1>9. ASSUME NEW what \in {Name} \cup Targets, Deliver(what) PROVE CacheTells'
  <2>a. UNCHANGED <<template, targetVars>> /\ pending' = pending \ {what}
    BY <1>9 DEF Deliver
  <2>b. OwnersOfReady' = OwnersOfReady
    BY <2>a DEF OwnersOfReady
  <2>1. CASE what = Name
    <3>1. cache' = [cache EXCEPT !.template = template, !.former = FALSE]
      BY <1>9, <2>1 DEF Deliver
    <3>2. /\ cache'.template = template /\ cache'.former = FALSE
          /\ cache'.ready = cache.ready /\ cache'.owners = cache.owners
      BY <3>1 DEF Typed, TypeOK, Cache
    <3>3. Name \notin Targets /\ Name \notin Orgs
      BY TargetTypes
    <3>. QED BY <2>1, <2>a, <2>b, <3>2, <3>3 DEF CacheTells
  <2>2. CASE what # Name
    <3> DEFINE ready == (cache.ready \ {what}) \cup (ReadyTargets \cap {what})
               known == [o \in Orgs |-> IF o = what THEN OwnersOfReady[o] ELSE cache.owners[o]]
    <3>1. cache' = [cache EXCEPT !.ready = ready, !.owners = known]
      BY <1>9, <2>2 DEF Deliver
    <3>2. \A x \in Targets \ pending' : x \in ready <=> phase[x] = "ready"
      BY <2>a DEF CacheTells, ReadyTargets
    <3>3. \A o \in Orgs \ pending' : known[o] = OwnersOfReady[o]
      BY <2>a DEF CacheTells
    <3> HIDE DEF ready, known
    <3>4. /\ cache'.template = cache.template /\ cache'.former = cache.former
          /\ cache'.ready = ready /\ cache'.owners = known
      BY <3>1 DEF Typed, TypeOK, Cache
    <3>. QED BY <2>2, <2>a, <2>b, <3>2, <3>3, <3>4 DEF CacheTells
  <2>. QED BY <2>1, <2>2
<1>10. CASE Restart
  <2>1. /\ cache' = [template |-> template, former |-> FALSE,
                     ready |-> ReadyTargets, owners |-> OwnersOfReady]
        /\ UNCHANGED <<template, targetVars>>
    BY <1>10 DEF Restart
  <2>2. /\ cache'.template = template /\ cache'.former = FALSE
        /\ cache'.ready = ReadyTargets /\ cache'.owners = OwnersOfReady
        /\ OwnersOfReady' = OwnersOfReady
    BY <2>1 DEF OwnersOfReady
  <2>. QED BY <2>1, <2>2 DEF CacheTells, ReadyTargets
<1>. QED BY <1>2, <1>4, <1>5, <1>6, <1>7, <1>8, <1>9, <1>10, Steps
         DEF EnvironmentStep, ControllerStep

LEMMA NextCallTells ==
  Typed /\ CacheTells /\ CallTells /\ [Next]_vars => CallTells'
<1>. SUFFICES ASSUME Typed, CacheTells, CallTells, [Next]_vars PROVE CallTells'
  OBVIOUS
<1>. USE DEF targetVars, cacheVars, callVars
<1>1. CASE Return
  BY <1>1 DEF Return, CallTells
<1>2. CASE /\ UNCHANGED <<template, cache, pc, obj, current, former>>
           /\ Name \in pending => Name \in pending'
           /\ queued' = queued \/ queued' = TRUE
  BY <1>2 DEF CallTells
<1>3. ASSUME NEW x \in Targets, TargetStep(x) PROVE CallTells'
  BY <1>2, <1>3 DEF TargetStep
<1>4. ASSUME NEW new \in Template, TemplateStep(new) PROVE CallTells'
  <2>1. cache'.template = cache.template /\ Name \in pending' /\ current' = FALSE
    BY <1>4 DEF TemplateStep, ChangeTemplate, Notify, Typed, TypeOK, Cache
  <2>2. UNCHANGED <<queued, pc, obj>>
    BY <1>4 DEF TemplateStep, ChangeTemplate
  <2>. QED BY <2>1, <2>2 DEF CallTells
<1>5. ASSUME NEW x \in Targets, NEW k \in Kinds, RemovalStep(x, k) \/ DeliverRole(x, k) \/ Alter(x, k)
      PROVE  CallTells'
  BY <1>2, <1>5 DEF RemovalStep, Remove, DeliverRole, Alter
<1>6. CASE QuietStep
  BY <1>2, <1>6 DEF QuietStep
<1>7. CASE Start
  <2>1. CASE UNCHANGED callVars
    BY <1>7, <2>1 DEF Start, CallTells
  <2>2. CASE obj' = cache.template /\ current' = (Name \notin pending) /\ former' = cache.former
    BY <1>7, <2>2 DEF Start, CacheTells, CallTells
  <2>. QED BY <1>7, <2>1, <2>2 DEF Start
<1>8. CASE \/ \E x \in Targets : ReconcileRole(x) \/ ReconcileRoleBinding(x)
           \/ \E o \in Orgs : ListProjects(o)
           \/ UpdateStatus \/ UpdateTerminating \/ FailCall \/ Restart
  BY <1>1, <1>2, <1>8 DEF ReconcileRole, ReconcileRoleBinding, ListProjects, UpdateStatus,
       UpdateTerminating, FailCall, Restart, ReturnError
<1>9. ASSUME NEW what \in {Name} \cup Targets, Deliver(what) PROVE CallTells'
  <2>a. UNCHANGED <<template, callVars>> /\ pending' = pending \ {what}
        /\ queued' = (queued \/ Requested(what))
    BY <1>9 DEF Deliver
  <2>1. CASE what = Name
    <3>1. cache' = [cache EXCEPT !.template = template, !.former = FALSE]
      BY <1>9, <2>1 DEF Deliver
    <3>2. cache'.template = template /\ queued'
      BY <2>1, <2>a, <3>1 DEF Typed, TypeOK, Cache, Requested
    <3>. QED BY <2>a, <3>2 DEF CallTells
  <2>2. CASE what # Name
    <3>1. cache'.template = cache.template
      BY <1>9, <2>2 DEF Deliver, Typed, TypeOK, Cache
    <3>. QED BY <2>2, <2>a, <3>1 DEF CallTells
  <2>. QED BY <2>1, <2>2
<1>. QED BY <1>3, <1>4, <1>5, <1>6, <1>7, <1>8, <1>9, Steps DEF EnvironmentStep, ControllerStep

LEMMA NextObservedIsShown ==
  Typed /\ CallTells /\ ObservedIsShown /\ [Next]_vars => ObservedIsShown'
<1>. SUFFICES ASSUME Typed, CallTells, ObservedIsShown, [Next]_vars PROVE ObservedIsShown'
  OBVIOUS
<1>. USE DEF targetVars, cacheVars, callVars
<1>1. CASE UNCHANGED <<template, cache, pc, obj>>
  BY <1>1 DEF ObservedIsShown
<1>2. CASE Return /\ UNCHANGED <<template, cache>>
  BY <1>2 DEF Return, ObservedIsShown
<1>3. CASE EnvironmentStep
  <2>1. ASSUME NEW new \in Template, TemplateStep(new) PROVE ObservedIsShown'
    BY <2>1 DEF TemplateStep, ChangeTemplate, ObservedIsShown
  <2>. QED BY <1>1, <1>3, <2>1
           DEF EnvironmentStep, TargetStep, RemovalStep, Remove, DeliverRole, Alter, QuietStep
<1>4. CASE Start
  BY <1>4 DEF Start, ObservedIsShown
<1>5. CASE \/ \E x \in Targets : ReconcileRole(x) \/ ReconcileRoleBinding(x)
           \/ \E o \in Orgs : ListProjects(o)
           \/ FailCall
  BY <1>1, <1>2, <1>5 DEF ReconcileRole, ReconcileRoleBinding, ListProjects, FailCall, ReturnError
<1>6. CASE UpdateStatus \/ UpdateTerminating
  <2>1. CASE UNCHANGED template
    BY <1>2, <1>6, <2>1 DEF UpdateStatus, UpdateTerminating, ReturnError
  <2>2. CASE current /\ Return /\ template'.spec = obj.spec /\ cache' = cache
    BY <1>6, <2>2 DEF UpdateStatus, UpdateTerminating, Return, CallTells, ObservedIsShown
  <2>3. /\ [obj EXCEPT !.targets = done, !.observed = TRUE, !.ready = "True"].spec = obj.spec
        /\ [obj EXCEPT !.observed = TRUE, !.ready = "Terminating"].spec = obj.spec
    BY DEF Typed, TypeOK, Template
  <2>. QED BY <1>6, <2>1, <2>2, <2>3 DEF UpdateStatus, UpdateTerminating, Accepts
<1>7. ASSUME NEW what \in {Name} \cup Targets, Deliver(what) PROVE ObservedIsShown'
  <2>1. cache'.template = template \/ cache'.template = cache.template
    BY <1>7 DEF Deliver, Typed, TypeOK, Cache
  <2>. QED BY <1>7, <2>1 DEF Deliver, ObservedIsShown
<1>8. CASE Restart
  BY <1>8 DEF Restart, Return, ObservedIsShown
<1>. QED BY <1>3, <1>4, <1>5, <1>6, <1>7, <1>8, Steps DEF ControllerStep

----------------------------------------------------------------------------
(* Entries. *)

LEMMA PutEffect ==
  ASSUME Typed, EntryShown,
         NEW x \in Targets, NEW k \in Kinds, NEW e \in Entry(k) \cup {None}, Put(x, k, e)
  PROVE  /\ EntryShown' /\ rbac'[x][k] = e
         /\ \A y \in Targets, l \in Kinds : <<y, l>> # <<x, k>> => rbac'[y][l] = rbac[y][l]
<1>1. rbac \in Rbac /\ seen \in Rbac
  BY DEF Typed, TypeOK
<1>2. rbac' = [rbac EXCEPT ![x][k] = e]
  BY DEF Put
<1>3. /\ rbac'[x][k] = e
      /\ \A y \in Targets, l \in Kinds : <<y, l>> # <<x, k>> => rbac'[y][l] = rbac[y][l]
  BY <1>1, <1>2, EntryTypes
<1>4. CASE outdated' = outdated \cup {<<x, k>>} /\ seen' = seen
  BY <1>3, <1>4 DEF EntryShown
<1>5. CASE seen' = [seen EXCEPT ![x][k] = e] /\ outdated' = outdated
  <2>1. /\ seen'[x][k] = e
        /\ \A y \in Targets, l \in Kinds : <<y, l>> # <<x, k>> => seen'[y][l] = seen[y][l]
    BY <1>1, <1>5, EntryTypes
  <2>2. ASSUME NEW y \in Targets, NEW l \in Kinds, <<y, l>> \notin outdated'
        PROVE  seen'[y][l] = rbac'[y][l]
    <3>1. CASE <<y, l>> = <<x, k>>
      BY <1>3, <2>1, <3>1
    <3>2. CASE <<y, l>> # <<x, k>>
      BY <1>3, <1>5, <2>1, <2>2, <3>2 DEF EntryShown
    <3>. QED BY <3>1, <3>2
  <2>. QED BY <1>3, <2>2 DEF EntryShown
<1>6. EntryShown'
  BY <1>4, <1>5 DEF Put
<1>. QED BY <1>3, <1>6

\* What CreateOrUpdate leaves is what it was asked for, unless it has compared an
\* outdated entry.
LEMMA ReconciledEffect ==
  ASSUME Typed, EntryShown,
         NEW x \in Targets, NEW k \in Kinds, NEW content \in Content(k), Reconciled(x, k, content)
  PROVE  /\ EntryShown'
         /\ <<x, k>> \notin outdated => rbac'[x][k] = EntryOf(content)
         /\ \A y \in Targets, l \in Kinds : <<y, l>> # <<x, k>> => rbac'[y][l] = rbac[y][l]
<1>1. EntryOf(content) \in Entry(k)
  BY DEF EntryOf, Entry
<1>2. CASE InPlace(x, k, content) /\ UNCHANGED <<rbac, seen, outdated>>
  BY <1>2 DEF InPlace, EntryShown
<1>3. CASE Put(x, k, EntryOf(content))
  BY <1>1, <1>3, PutEffect
<1>. QED BY <1>2, <1>3 DEF Reconciled

\* What the call writes are entries.
LEMMA Writes ==
  ASSUME Typed, NEW x \in Targets
  PROVE  /\ "Role" \in Kinds /\ "RoleBinding" \in Kinds
         /\ obj.spec.rules \in Content("Role")
         /\ ReconcileRole(x) => pc = "reconcile" /\ at = None /\ x \in todo
         /\ ReconcileRoleBinding(x) =>
              /\ pc = "reconcile" /\ at = x /\ x \in todo
              /\ listed[OrganizationOf(x)] \in Content("RoleBinding")
<1>1. obj.spec.rules \in Content("Role")
  BY TemplateAssumption DEF Typed, TypeOK, Template, Content
<1>2. ASSUME ReconcileRoleBinding(x) PROVE at = x /\ x \in todo
  BY <1>2, TargetTypes DEF ReconcileRoleBinding, Typed, TypeOK
<1>3. ASSUME x \in todo PROVE listed[OrganizationOf(x)] \in Content("RoleBinding")
  BY <1>3, TargetTypes DEF Typed, TypeOK, LoopShape, Content
<1>. QED BY <1>1, <1>2, <1>3 DEF Kinds, ReconcileRole, ReconcileRoleBinding

LEMMA NextEntryShown == Typed /\ EntryShown /\ [Next]_vars => EntryShown'
<1>. SUFFICES ASSUME Typed, EntryShown, [Next]_vars PROVE EntryShown'
  OBVIOUS
<1>. USE DEF targetVars, cacheVars, callVars
<1>1. CASE UNCHANGED <<rbac, seen, outdated>>
  BY <1>1 DEF EntryShown
<1>2. ASSUME NEW x \in Targets, ReconcileRole(x) \/ ReconcileRoleBinding(x) PROVE EntryShown'
  <2>1. CASE UNCHANGED <<rbac, seen, outdated>>
    BY <1>1, <2>1
  <2>2. CASE Reconciled(x, "Role", obj.spec.rules)
    BY <2>2, Writes, ReconciledEffect
  <2>3. CASE ReconcileRoleBinding(x) /\ Reconciled(x, "RoleBinding", listed[OrganizationOf(x)])
    BY <2>3, Writes, ReconciledEffect
  <2>. QED BY <1>2, <2>1, <2>2, <2>3 DEF ReconcileRole, ReconcileRoleBinding
<1>3. ASSUME NEW new \in Template, TemplateStep(new) PROVE EntryShown'
  <2>1. outdated' = outdated
    BY <1>3 DEF TemplateStep, ChangeTemplate
  <2>2. CASE rbac' = Orphaned(rbac) /\ seen' = Orphaned(seen)
    BY <2>1, <2>2 DEF EntryShown, Orphaned
  <2>. QED BY <1>1, <1>3, <2>1, <2>2 DEF TemplateStep
<1>4. ASSUME NEW x \in Targets, NEW k \in Kinds, RemovalStep(x, k) \/ Alter(x, k)
      PROVE  EntryShown'
  <2>1. rbac[x][k] \in Entry(k) \cup {None} /\ rbac[x][k] # None
    BY <1>4, EntryTypes DEF RemovalStep, Remove, Alter, Typed, TypeOK
  <2>2. \A v \in Content(k) : [rbac[x][k] EXCEPT !.content = v] \in Entry(k)
    BY <2>1 DEF Entry
  <2>. QED BY <1>4, <2>2, PutEffect DEF RemovalStep, Remove, Alter
<1>5. ASSUME NEW x \in Targets, NEW k \in Kinds, DeliverRole(x, k) PROVE EntryShown'
  <2>1. /\ rbac \in Rbac /\ seen \in Rbac /\ rbac' = rbac
        /\ outdated' = outdated \ {<<x, k>>} /\ seen' = [seen EXCEPT ![x][k] = rbac[x][k]]
    BY <1>5 DEF DeliverRole, Typed, TypeOK
  <2>2. /\ seen'[x][k] = rbac[x][k]
        /\ \A y \in Targets, l \in Kinds : <<y, l>> # <<x, k>> => seen'[y][l] = seen[y][l]
    BY <2>1, EntryTypes
  <2>. QED BY <2>1, <2>2 DEF EntryShown
<1>6. CASE \/ \E x \in Targets : TargetStep(x)
           \/ QuietStep \/ Start \/ FailCall
           \/ \E o \in Orgs : ListProjects(o)
           \/ UpdateStatus \/ UpdateTerminating
           \/ \E what \in {Name} \cup Targets : Deliver(what)
  BY <1>1, <1>6 DEF TargetStep, QuietStep, Start, FailCall, ListProjects, UpdateStatus,
       UpdateTerminating, Deliver
<1>7. CASE Restart
  BY <1>7 DEF Restart, EntryShown
<1>. QED BY <1>2, <1>3, <1>4, <1>5, <1>6, <1>7, Steps DEF EnvironmentStep, ControllerStep

----------------------------------------------------------------------------
(* A call that is not to run again works with what the caches show. *)

\* While it does, only events that queue the template again change the caches.
LEMMA DeliverQueues ==
  ASSUME Typed, CallTells, pc # "idle", ~queued, NEW what \in {Name} \cup Targets, Deliver(what)
  PROVE  queued'
<1>1. cache.template.present /\ Requested(what)
  BY DEF CallTells, Requested
<1>. QED BY <1>1 DEF Deliver

LEMMA StartPlan ==
  ASSUME Typed, Start, pc' = "reconcile"
  PROVE  PlanHolds'
<1>. USE DEF targetVars, cacheVars, callVars
<1> DEFINE ready == Orgs \cap cache.ready
<1>1. /\ obj' = cache.template /\ listed' = cache.owners /\ cache' = cache
      /\ todo' = TargetsOf("Organization", ready) /\ left' = TargetsOf("Project", ready)
      /\ at' = at /\ done' = done /\ pc = "idle"
  BY DEF Start
<1>2. at' = None /\ done' = {} /\ cache.ready \subseteq Targets
  BY <1>1, CacheTypes DEF Typed, TypeOK, LoopShape
<1>3. Planned' = Wanted'
  <2>1. Planned' = todo' \cup {p \in Projects \cap cache.ready : OrganizationOf(p) \in left'}
    BY <1>1, <1>2 DEF Planned
  <2>2. Wanted' = {x \in cache.ready : /\ OrganizationOf(x) \in cache.ready
                                       /\ ScopeOf(x) \in cache.template.spec.scopes}
    BY <1>1 DEF Wanted
  <2>3. todo' = {x \in Orgs \cap cache.ready : "Organization" \in cache.template.spec.scopes}
    BY <1>1 DEF TargetsOf
  <2>4. left' = {x \in Orgs \cap cache.ready : "Project" \in cache.template.spec.scopes}
    BY <1>1 DEF TargetsOf
  <2>5. \A x \in cache.ready : x \in Planned' <=> x \in Wanted'
    <3>. SUFFICES ASSUME NEW x \in cache.ready PROVE x \in Planned' <=> x \in Wanted'
      OBVIOUS
    <3>1. CASE x \in Orgs
      BY <1>2, <2>1, <2>2, <2>3, <2>4, <3>1, TargetTypes DEF ScopeOf
    <3>2. CASE x \notin Orgs
      BY <1>2, <2>1, <2>2, <2>3, <2>4, <3>2, TargetTypes DEF ScopeOf
    <3>. QED BY <3>1, <3>2
  <2>6. Planned' \subseteq cache.ready /\ Wanted' \subseteq cache.ready
    BY <2>1, <2>2, <2>3
  <2>. QED BY <2>5, <2>6
<1>. QED BY <1>1, <1>3 DEF PlanHolds

LEMMA NextPlanHolds ==
  Typed /\ CallTells /\ PlanHolds /\ [Next]_vars => PlanHolds'
<1>. SUFFICES ASSUME Typed, CallTells, PlanHolds, [Next]_vars PROVE PlanHolds'
  OBVIOUS
<1>. USE DEF targetVars, cacheVars, callVars
<1>1. CASE /\ UNCHANGED <<pc, obj, listed, left>>
           /\ queued => queued'
           /\ cache'.ready = cache.ready /\ cache'.owners = cache.owners
           /\ todo' \cup done' = todo \cup done
  BY <1>1 DEF PlanHolds, Planned, Wanted
<1>2. CASE pc' # "reconcile"
  BY <1>2 DEF PlanHolds
<1>3. CASE EnvironmentStep
  <2>1. ASSUME NEW new \in Template, TemplateStep(new) PROVE PlanHolds'
    <3>1. cache'.ready = cache.ready /\ cache'.owners = cache.owners
      BY <2>1 DEF TemplateStep, Typed, TypeOK, Cache
    <3>. QED BY <1>1, <2>1, <3>1 DEF TemplateStep, ChangeTemplate
  <2>. QED BY <1>1, <1>3, <2>1
           DEF EnvironmentStep, TargetStep, RemovalStep, Remove, DeliverRole, Alter, QuietStep
<1>4. CASE Start
  BY <1>2, <1>4, StartPlan
<1>5. ASSUME NEW x \in Targets, ReconcileRole(x) \/ ReconcileRoleBinding(x) PROVE PlanHolds'
  <2>1. CASE /\ UNCHANGED <<pc, obj, listed, left, queued, cache>>
             /\ (UNCHANGED <<todo, done>> \/ Complete(x))
    BY <1>1, <1>5, <2>1, Writes DEF Complete
  <2>2. CASE Return
    BY <1>2, <2>2 DEF Return
  <2>. QED BY <1>5, <2>1, <2>2 DEF ReconcileRole, ReconcileRoleBinding, ReturnError
<1>6. ASSUME NEW o \in Orgs, ListProjects(o) PROVE PlanHolds'
  <2>1. /\ todo = {} /\ o \in left /\ left' = left \ {o}
        /\ todo' = {p \in Projects \cap cache.ready : OrganizationOf(p) = o}
        /\ UNCHANGED <<cache, queued, pc, obj, listed, done>>
    BY <1>6 DEF ListProjects
  <2>2. Planned' = Planned
    BY <2>1 DEF Planned
  <2>. QED BY <2>1, <2>2 DEF PlanHolds, Wanted
<1>7. CASE UpdateStatus \/ UpdateTerminating \/ FailCall \/ Restart
  BY <1>2, <1>7 DEF UpdateStatus, UpdateTerminating, FailCall, Restart, ReturnError, Return
<1>8. ASSUME NEW what \in {Name} \cup Targets, Deliver(what) PROVE PlanHolds'
  <2>1. pc' = pc /\ (queued => queued')
    BY <1>8 DEF Deliver
  <2>. QED BY <1>8, <2>1, DeliverQueues DEF PlanHolds
<1>. QED BY <1>3, <1>4, <1>5, <1>6, <1>7, <1>8, Steps DEF ControllerStep

----------------------------------------------------------------------------
(* A call that changes nothing has found all reported. *)

\* What a call that is not to run again has come to the end with is what is in scope,
\* as far as no event is on the way.
LEMMA DoneIsInScope ==
  ASSUME Typed, CacheTells, CallTells, PlanHolds,
         pc = "reconcile", ~queued, Name \notin pending, todo = {}, left = {}
  PROVE  /\ template = obj
         /\ \A x \in Targets : {x, OrganizationOf(x)} \cap pending = {} => (x \in done <=> InScope(x))
<1>1. template = obj
  BY DEF CacheTells, CallTells
<1>2. done = Wanted
  BY DEF PlanHolds, Planned
<1>3. ASSUME NEW x \in Targets, {x, OrganizationOf(x)} \cap pending = {}
      PROVE  x \in Wanted <=> InScope(x)
  <2>1. x \in cache.ready <=> phase[x] = "ready"
    BY <1>3 DEF CacheTells
  <2>2. OrganizationOf(x) \in cache.ready <=> phase[OrganizationOf(x)] = "ready"
    BY <1>3, TargetTypes DEF CacheTells
  <2>. QED BY <1>1, <2>1, <2>2 DEF Wanted, InScope, ScopeOf
<1>. QED BY <1>1, <1>2, <1>3

LEMMA NothingToDo ==
  ASSUME Typed, CacheTells, CallTells, PlanHolds,
         pc = "reconcile", ~queued, pending = {}, todo = {}, left = {},
         obj.targets = done, IsReady(obj)
  PROVE  /\ ~template.deleting /\ IsReady(template)
         /\ template.targets = {x \in Targets : InScope(x)}
<1>1. template = obj /\ \A x \in Targets : x \in done <=> InScope(x)
  BY DoneIsInScope
<1>2. done \subseteq Targets
  BY DEF Typed, TypeOK
<1>. QED BY <1>1, <1>2 DEF IsReady

LEMMA NextRests ==
  ASSUME Typed, CacheTells, CallTells, PlanHolds, RestsOnlyWhenReported, [Next]_vars
  PROVE  RestsOnlyWhenReported'
<1>. USE DEF targetVars, cacheVars, callVars
<1>1. CASE pending' # {} \/ queued' \/ pc' # "idle" \/ ~template'.present
  BY <1>1 DEF RestsOnlyWhenReported, Quiescent
<1>2. CASE UNCHANGED <<template, phase, pending, queued, pc>>
  BY <1>2 DEF RestsOnlyWhenReported, Quiescent, InScope
<1>3. CASE \/ \E x \in Targets : TargetStep(x)
           \/ \E new \in Template : TemplateStep(new)
  BY <1>1, <1>3 DEF TargetStep, TemplateStep, ChangeTemplate, Notify
<1>4. ASSUME NEW x \in Targets, NEW k \in Kinds, RemovalStep(x, k) \/ DeliverRole(x, k) \/ Alter(x, k)
      PROVE  RestsOnlyWhenReported'
  BY <1>2, <1>4 DEF RemovalStep, Remove, DeliverRole, Alter
<1>5. CASE QuietStep
  BY <1>1, <1>2, <1>5 DEF QuietStep
<1>6. CASE Start
  <2>. SUFFICES ASSUME pc' = "idle", pending' = {}, template'.present
                PROVE  RestsOnlyWhenReported'
    BY <1>1
  <2>1. template' = template /\ cache.template = template
    BY <1>6 DEF Start, CacheTells
  <2>2. template.deleting /\ template.ready = "Terminating"
    BY <1>6, <2>1 DEF Start
  <2>. QED BY <2>1, <2>2 DEF RestsOnlyWhenReported
<1>7. ASSUME NEW x \in Targets, ReconcileRole(x) \/ ReconcileRoleBinding(x)
      PROVE  RestsOnlyWhenReported'
  BY <1>1, <1>7 DEF ReconcileRole, ReconcileRoleBinding, ReturnError
<1>8. ASSUME NEW o \in Orgs, ListProjects(o) PROVE RestsOnlyWhenReported'
  BY <1>1, <1>8 DEF ListProjects
<1>9. CASE UpdateStatus
  <2>1. CASE queued' \/ Notify(Name)
    BY <1>1, <2>1 DEF Notify
  <2>2. CASE /\ obj.targets = done /\ IsReady(obj)
             /\ UNCHANGED <<template, pending, queued>>
    <3>. SUFFICES ASSUME pending = {}, ~queued PROVE RestsOnlyWhenReported'
      BY <1>1, <2>2
    <3>1. /\ ~template.deleting /\ IsReady(template)
          /\ template.targets = {x \in Targets : InScope(x)}
      BY <1>9, <2>2, NothingToDo DEF UpdateStatus
    <3>2. UNCHANGED <<template, phase>>
      BY <1>9, <2>2 DEF UpdateStatus
    <3>. QED BY <3>1, <3>2 DEF RestsOnlyWhenReported, InScope
  <2>. QED BY <1>9, <2>1, <2>2 DEF UpdateStatus, ReturnError
<1>10. CASE UpdateTerminating \/ FailCall \/ Restart
  BY <1>1, <1>10 DEF UpdateTerminating, FailCall, Restart, ReturnError, Notify
<1>11. ASSUME NEW what \in {Name} \cup Targets, Deliver(what) PROVE RestsOnlyWhenReported'
  <2>. SUFFICES ASSUME pending' = {}, ~queued' PROVE RestsOnlyWhenReported'
    BY <1>1
  <2>1. what # Name /\ ~cache.template.present /\ Name \notin pending
    BY <1>11 DEF Deliver, Requested
  <2>. QED BY <1>1, <1>11, <2>1 DEF Deliver, CacheTells
<1>. QED BY <1>3, <1>4, <1>5, <1>6, <1>7, <1>8, <1>9, <1>10, <1>11, Steps
         DEF EnvironmentStep, ControllerStep

----------------------------------------------------------------------------
(* The invariant. *)

LEMMA InitInv == Init => Inv
<1>. SUFFICES ASSUME Init PROVE Inv
  OBVIOUS
<1>1. CacheTells
  BY TargetTypes DEF Init, CacheTells, OwnersOfReady, NoOwners
<1>2. template.observed = FALSE /\ template.present = FALSE
  BY TemplateTypes DEF Init
<1>. QED BY <1>1, <1>2, InitTypes
         DEF Init, Inv, CallTells, ObservedIsShown, EntryShown, PlanHolds, RestsOnlyWhenReported

LEMMA Invariant == Spec => []Inv
<1>1. Inv /\ [Next]_vars => Inv'
  BY NextTypes, NextCacheTells, NextCallTells, NextObservedIsShown, NextEntryShown,
     NextPlanHolds, NextRests
     DEF Inv
<1>. QED BY <1>1, InitInv, PTL DEF Spec

\* The controller rests only when the template is ready and lists exactly the ready
\* Organizations and Projects in its scopes, or is reported Terminating, whatever
\* changed between the lists, the writes and the events.
THEOREM RestsReported == Spec => []RestsOnlyWhenReported
<1>1. Inv => RestsOnlyWhenReported
  BY DEF Inv
<1>. QED BY <1>1, Invariant, PTL

----------------------------------------------------------------------------
(* What the controller leaves as it should not be. *)

\* An entry is left alone only by a step that writes it, or ends the controller's
\* work there, or changes what is wanted.
LEMMA NeglectedBefore ==
  ASSUME NEW x \in Targets, NEW k \in Kinds, Neglected(x, k)',
         UNCHANGED <<template, phase[x], phase[OrganizationOf(x)], owners[OrganizationOf(x)]>>,
         rbac'[x][k] = rbac[x][k] \/ (rbac[x][k] # None /\ rbac[x][k].owner = "former"),
         Settled(x, k)
  PROVE  Neglected(x, k)
<1>1. template.present /\ ~template.deleting /\ InScope(x)
  BY DEF Neglected, InScope
<1>2. ~AsWanted(x, k)' /\ (k = "Role" \/ k = "RoleBinding")
  BY DEF Neglected, Kinds
<1>3. ASSUME k = "Role" PROVE ~AsWanted(x, k)
  BY <1>2, <1>3 DEF AsWanted
<1>4. ASSUME k = "RoleBinding" PROVE ~AsWanted(x, k)
  BY <1>2, <1>4 DEF AsWanted
<1>5. ~AsWanted(x, k)
  BY <1>2, <1>3, <1>4
<1>. QED BY <1>1, <1>5 DEF Neglected

LEMMA EnvironmentNeglects ==
  ASSUME Typed, EnvironmentStep, NEW x \in Targets, NEW k \in Kinds,
         Neglected(x, k)', ~Neglected(x, k)
  PROVE  Alter(x, k)
<1>. USE DEF targetVars, cacheVars, callVars
<1>. SUFFICES ASSUME ~Alter(x, k) PROVE FALSE
  OBVIOUS
<1>a. Settled(x, k)' /\ phase'[x] = "ready"
  BY DEF Neglected, InScope
<1>b. {Name, x, OrganizationOf(x)} \cap pending' = {} /\ ~queued'
  BY <1>a DEF Settled
<1>1. CASE /\ UNCHANGED <<template, phase, owners, pending, queued, pc, at, done>>
           /\ rbac'[x][k] = rbac[x][k] \/ (rbac[x][k] # None /\ rbac[x][k].owner = "former")
  <2>1. Settled(x, k)
    BY <1>1, <1>a DEF Settled
  <2>. QED BY <1>1, <2>1, NeglectedBefore
<1>2. ASSUME NEW y \in Targets, TargetStep(y) PROVE FALSE
  <2>1. y # x /\ y # OrganizationOf(x) /\ OrganizationOf(x) \in Targets
    BY <1>2, <1>b, TargetTypes DEF TargetStep
  <2>2. Settled(x, k)
    BY <1>2, <1>a DEF TargetStep, Settled
  <2>3. UNCHANGED <<template, phase[x], phase[OrganizationOf(x)], owners[OrganizationOf(x)], rbac>>
    BY <1>2, <2>1, TargetTypes DEF TargetStep
  <2>. QED BY <2>2, <2>3, NeglectedBefore
<1>3. ASSUME NEW new \in Template, TemplateStep(new) PROVE FALSE
  BY <1>3, <1>b DEF TemplateStep, ChangeTemplate, Notify
<1>4. ASSUME NEW y \in Targets, NEW l \in Kinds, RemovalStep(y, l) \/ Alter(y, l) PROVE FALSE
  <2>1. UNCHANGED <<template, phase, owners, pending, queued, pc, at, done>>
    BY <1>4 DEF RemovalStep, Remove, Alter
  <2>2. CASE <<y, l>> = <<x, k>>
    BY <1>1, <1>4, <1>a, <2>1, <2>2 DEF RemovalStep, Remove
  <2>3. CASE <<y, l>> # <<x, k>>
    <3>1. rbac \in Rbac /\ \E e : rbac' = [rbac EXCEPT ![y][l] = e]
      BY <1>4 DEF RemovalStep, Remove, Alter, Put, Typed, TypeOK
    <3>2. rbac'[x][k] = rbac[x][k]
      BY <2>3, <3>1 DEF Rbac
    <3>. QED BY <1>1, <2>1, <3>2
  <2>. QED BY <2>2, <2>3
<1>5. ASSUME NEW y \in Targets, NEW l \in Kinds, DeliverRole(y, l) PROVE FALSE
  BY <1>1, <1>5 DEF DeliverRole
<1>6. CASE QuietStep
  BY <1>1, <1>6, <1>b DEF QuietStep
<1>. QED BY <1>2, <1>3, <1>4, <1>5, <1>6 DEF EnvironmentStep

LEMMA RoleNeglects ==
  ASSUME Typed, CacheTells, CallTells, EntryShown, PlanHolds,
         NEW x \in Targets, NEW k \in Kinds, Neglected(x, k)', ~Neglected(x, k),
         NEW y \in Targets, ReconcileRole(y) \/ ReconcileRoleBinding(y)
  PROVE  x = y /\ <<x, k>> \in outdated
<1>a. Settled(x, k)' /\ InScope(x)' /\ template'.present /\ ~AsWanted(x, k)'
  BY DEF Neglected
<1>b. UNCHANGED <<template, phase, owners, cache, pending>>
  BY DEF ReconcileRole, ReconcileRoleBinding, targetVars
<1>c. {Name, x, OrganizationOf(x)} \cap pending = {} /\ ~queued'
  BY <1>a, <1>b DEF Settled
<1>d. UNCHANGED <<queued, pc, obj, former, listed>> /\ pc = "reconcile" /\ y \in todo
  BY <1>c, Writes DEF ReconcileRole, ReconcileRoleBinding, ReturnError
<1>e. template = obj /\ ~former
  BY <1>c, <1>d DEF CacheTells, CallTells
<1>f. todo \cap done = {} /\ None \notin Targets
  BY TargetTypes DEF Typed, TypeOK
<1>1. CASE rbac'[x][k] = rbac[x][k] /\ Settled(x, k)
  BY <1>1, <1>b, NeglectedBefore
<1>2. CASE ReconcileRole(y)
  <2>1. /\ Reconciled(y, "Role", obj.spec.rules) /\ at = None
        /\ \/ obj.spec.binds /\ at' = y /\ done' = done
           \/ ~obj.spec.binds /\ at' = at /\ done' = done \cup {y}
    BY <1>2, <1>c DEF ReconcileRole, ReturnError, Complete
  <2>a. "Role" \in Kinds /\ obj.spec.rules \in Content("Role")
    BY Writes
  <2>2. /\ <<y, "Role">> \notin outdated => rbac'[y]["Role"] = EntryOf(obj.spec.rules)
        /\ \A z \in Targets, l \in Kinds : <<z, l>> # <<y, "Role">> => rbac'[z][l] = rbac[z][l]
    BY <2>1, <2>a, ReconciledEffect
  <2>3. CASE x # y
    <3>1. Settled(x, k)
      BY <1>a, <1>b, <1>d, <1>f, <2>1, <2>3 DEF Settled
    <3>. QED BY <1>1, <2>2, <2>3, <3>1
  <2>4. CASE x = y /\ k = "Role"
    BY <1>a, <1>b, <1>e, <2>2, <2>4 DEF AsWanted, EntryOf
  <2>5. CASE x = y /\ k = "RoleBinding"
    <3>1. x \in done' /\ ~obj.spec.binds
      BY <1>a, <1>d, <1>f, <2>1, <2>5 DEF Settled
    <3>. QED BY <1>a, <1>b, <1>e, <2>5, <3>1 DEF AsWanted
  <2>. QED BY <2>3, <2>4, <2>5 DEF Kinds
<1>3. CASE ReconcileRoleBinding(y)
  <2>1. /\ Reconciled(y, "RoleBinding", listed[OrganizationOf(y)])
        /\ at = y /\ at' = None /\ done' = done \cup {y}
    BY <1>3, <1>c DEF ReconcileRoleBinding, ReturnError, Complete
  <2>a. "RoleBinding" \in Kinds /\ listed[OrganizationOf(y)] \in Content("RoleBinding")
    BY <1>3, Writes
  <2>2. /\ <<y, "RoleBinding">> \notin outdated =>
             rbac'[y]["RoleBinding"] = EntryOf(listed[OrganizationOf(y)])
        /\ \A z \in Targets, l \in Kinds :
             <<z, l>> # <<y, "RoleBinding">> => rbac'[z][l] = rbac[z][l]
    BY <2>1, <2>a, ReconciledEffect
  <2>3. CASE x # y \/ k = "Role"
    <3>1. Settled(x, k)
      BY <1>a, <1>b, <1>d, <1>f, <2>1, <2>3 DEF Settled
    <3>. QED BY <1>1, <2>2, <2>3, <3>1
  <2>4. CASE x = y /\ k = "RoleBinding"
    <3>1. listed[OrganizationOf(x)] = owners[OrganizationOf(x)]
      <4>1. listed = cache.owners /\ OrganizationOf(x) \in Orgs
        BY <1>c, <1>d, TargetTypes DEF PlanHolds
      <4>2. phase[OrganizationOf(x)] = "ready"
        BY <1>a, <1>b DEF InScope
      <4>. QED BY <1>c, <4>1, <4>2 DEF CacheTells, OwnersOfReady
    <3>. QED BY <1>a, <1>b, <1>e, <2>2, <2>4, <3>1 DEF AsWanted, EntryOf
  <2>. QED BY <2>3, <2>4 DEF Kinds
<1>. QED BY <1>2, <1>3

LEMMA ControllerNeglects ==
  ASSUME Typed, CacheTells, CallTells, PlanHolds, ControllerStep,
         NEW x \in Targets, NEW k \in Kinds, Neglected(x, k)', ~Neglected(x, k)
  PROVE  \E y \in Targets : ReconcileRole(y) \/ ReconcileRoleBinding(y)
<1>. USE DEF targetVars, cacheVars, callVars
<1>a. /\ Settled(x, k)' /\ InScope(x)' /\ template'.present /\ ~template'.deleting
  BY DEF Neglected
<1>b. {Name, x, OrganizationOf(x)} \cap pending' = {} /\ ~queued'
  BY <1>a DEF Settled
<1>c. None \notin Targets
  BY TargetTypes
<1>1. ASSUME UNCHANGED <<template, phase, owners, rbac>>, Settled(x, k) PROVE FALSE
  BY <1>1, NeglectedBefore
<1>2. CASE Start
  <2>1. UNCHANGED <<template, phase, owners, rbac, cache, pending>> /\ pc = "idle"
    BY <1>2 DEF Start
  <2>2. cache.template = template /\ template.present /\ ~template.deleting
    BY <1>a, <1>b, <2>1 DEF CacheTells
  <2>3. pc' # "idle" /\ done' = done /\ at' = at
    BY <1>2, <2>2 DEF Start
  <2>4. done' = {} /\ at' = None
    BY <2>1, <2>3 DEF Typed, LoopShape
  <2>. QED BY <1>a, <1>c, <2>3, <2>4 DEF Settled
<1>3. ASSUME NEW o \in Orgs, ListProjects(o) PROVE FALSE
  BY <1>1, <1>3, <1>a DEF ListProjects, Settled
<1>4. CASE UpdateStatus
  <2>1. pc = "reconcile" /\ todo = {} /\ left = {} /\ UNCHANGED <<phase, owners, rbac>>
    BY <1>4 DEF UpdateStatus
  <2>2. UNCHANGED <<template, pending, queued>>
    BY <1>4, <1>b DEF UpdateStatus, Notify, ReturnError
  <2>3. InScope(x)
    BY <1>a, <2>1, <2>2 DEF InScope
  <2>4. x \in done
    BY <1>b, <2>1, <2>2, <2>3, DoneIsInScope
  <2>5. Settled(x, k)
    BY <1>b, <2>2, <2>4 DEF Settled
  <2>. QED BY <1>1, <2>1, <2>2, <2>5
<1>5. CASE UpdateTerminating \/ FailCall \/ Restart
  BY <1>5, <1>a, <1>b DEF UpdateTerminating, FailCall, Restart, ReturnError, Notify
<1>6. ASSUME NEW what \in {Name} \cup Targets, Deliver(what) PROVE FALSE
  <2>1. /\ UNCHANGED <<template, phase, owners, rbac, pc, at, done>>
        /\ pending' = pending \ {what} /\ ~queued /\ ~Requested(what)
    BY <1>6, <1>b DEF Deliver
  <2>2. pc = "idle"
    BY <1>6, <1>b, <2>1, DeliverQueues
  <2>3. CASE what \in {Name, x, OrganizationOf(x)}
    <3>1. what # Name /\ ~cache.template.present
      BY <1>6, <2>1 DEF Requested
    <3>2. Name \notin pending
      BY <1>b, <2>1, <3>1
    <3>. QED BY <1>a, <2>1, <3>1, <3>2 DEF CacheTells
  <2>4. CASE what \notin {Name, x, OrganizationOf(x)}
    <3>1. Settled(x, k)
      BY <1>b, <2>1, <2>2, <2>4 DEF Settled
    <3>. QED BY <1>1, <2>1, <3>1
  <2>. QED BY <2>3, <2>4
<1>. QED BY <1>2, <1>3, <1>4, <1>5, <1>6 DEF ControllerStep

\* The controller leaves an entry as it should not be only when it has compared it
\* while its own event was on the way, or when a user alters it afterwards: all that
\* else may go wrong between the lists, the writes and the events leads it back.
THEOREM NeglectedOnlyOutdated == Spec => OnlyOutdatedIsNeglected
<1>1. ASSUME Inv, [Next]_vars, NEW x \in Targets, NEW k \in Kinds,
             Neglected(x, k)', ~Neglected(x, k)
      PROVE  \/ <<x, k>> \in outdated /\ (ReconcileRole(x) \/ ReconcileRoleBinding(x))
             \/ Alter(x, k)
  <2>1. EnvironmentStep \/ ControllerStep
    BY <1>1, Steps DEF Inv
  <2>2. CASE EnvironmentStep
    BY <1>1, <2>2, EnvironmentNeglects DEF Inv
  <2>3. CASE ControllerStep
    <3>1. PICK y \in Targets : ReconcileRole(y) \/ ReconcileRoleBinding(y)
      BY <1>1, <2>3, ControllerNeglects DEF Inv
    <3>2. x = y /\ <<x, k>> \in outdated
      BY <1>1, <3>1, RoleNeglects DEF Inv
    <3>. QED BY <3>1, <3>2
  <2>. QED BY <2>1, <2>2, <2>3
<1>2. Inv /\ [Next]_vars =>
        [\A x \in Targets, k \in Kinds : Neglected(x, k)' /\ ~Neglected(x, k)
           => \/ <<x, k>> \in outdated /\ (ReconcileRole(x) \/ ReconcileRoleBinding(x))
              \/ Alter(x, k)]_vars
  BY <1>1
<1>. QED BY <1>2, Invariant, PTL DEF Spec, OnlyOutdatedIsNeglected

----------------------------------------------------------------------------
(* What counts as written and is not. *)

\* A Role is as it was, or gone, or handed to a former template.
KeepsRole(x) ==
  rbac'[x]["Role"] # None =>
    rbac[x]["Role"] # None /\ rbac'[x]["Role"].content = rbac[x]["Role"].content

LEMMA MisreportedBefore ==
  ASSUME NEW x \in Targets, Misreported(x)', KeepsRole(x), template' = template,
         x \in (done \cup {at})' => x \in done \cup {at} /\ obj' = obj
  PROVE  Misreported(x)
<1>1. rbac[x]["Role"] # None /\ rbac'[x]["Role"].content = rbac[x]["Role"].content
  BY DEF Misreported, KeepsRole
<1>2. CASE x \in (done \cup {at})' /\ rbac'[x]["Role"].content # obj'.spec.rules
  BY <1>1, <1>2 DEF Misreported
<1>3. CASE /\ IsReady(template') /\ x \in template'.targets
           /\ rbac'[x]["Role"].content # template'.spec.rules
  BY <1>1, <1>3 DEF Misreported
<1>. QED BY <1>2, <1>3 DEF Misreported

LEMMA EnvironmentMisreports ==
  ASSUME Typed, EnvironmentStep, NEW x \in Targets, Misreported(x)', ~Misreported(x)
  PROVE  Alter(x, "Role")
<1>. USE DEF targetVars, cacheVars, callVars
<1>. SUFFICES ASSUME ~Alter(x, "Role") PROVE FALSE
  OBVIOUS
<1>1. ASSUME UNCHANGED <<template, obj, at, done>>, KeepsRole(x) PROVE FALSE
  BY <1>1, MisreportedBefore
<1>2. rbac' = rbac => KeepsRole(x)
  BY DEF KeepsRole
<1>3. ASSUME NEW new \in Template, TemplateStep(new) PROVE FALSE
  <2>1. UNCHANGED <<obj, at, done>> /\ ~IsReady(template')
    BY <1>3 DEF TemplateStep, ChangeTemplate, IsReady
  <2>2. KeepsRole(x)
    <3>1. rbac \in Rbac /\ "Role" \in Kinds
      BY DEF Typed, TypeOK, Kinds
    <3>2. CASE rbac' = Orphaned(rbac)
      BY <3>1, <3>2, OrphanedTypes DEF KeepsRole
    <3>. QED BY <1>2, <1>3, <3>2 DEF TemplateStep
  <2>. QED BY <2>1, <2>2 DEF Misreported, KeepsRole
<1>4. ASSUME NEW y \in Targets, NEW k \in Kinds, RemovalStep(y, k) \/ Alter(y, k) PROVE FALSE
  <2>1. UNCHANGED <<template, obj, at, done>>
    BY <1>4 DEF RemovalStep, Remove, Alter
  <2>2. CASE <<y, k>> = <<x, "Role">>
    <3>1. Put(x, "Role", None) /\ rbac \in Rbac /\ "Role" \in Kinds
      BY <1>4, <2>2 DEF RemovalStep, Remove, Typed, TypeOK
    <3>2. rbac'[x]["Role"] = None
      BY <3>1, EntryTypes DEF Put
    <3>. QED BY <3>2 DEF Misreported
  <2>3. CASE <<y, k>> # <<x, "Role">>
    <3>1. rbac \in Rbac /\ \E e : rbac' = [rbac EXCEPT ![y][k] = e]
      BY <1>4 DEF RemovalStep, Remove, Alter, Put, Typed, TypeOK
    <3>2. rbac'[x]["Role"] = rbac[x]["Role"]
      BY <2>3, <3>1 DEF Rbac, Kinds
    <3>. QED BY <1>1, <2>1, <3>2 DEF KeepsRole
  <2>. QED BY <2>2, <2>3
<1>. QED BY <1>1, <1>2, <1>3, <1>4 DEF EnvironmentStep, TargetStep, DeliverRole, QuietStep

LEMMA RoleMisreports ==
  ASSUME Typed, CallTells, ObservedIsShown, EntryShown,
         NEW x \in Targets, Misreported(x)', ~Misreported(x),
         NEW y \in Targets, ReconcileRole(y) \/ ReconcileRoleBinding(y)
  PROVE  x = y /\ <<x, "Role">> \in outdated /\ ReconcileRole(x)
<1>a. template' = template /\ y \in todo /\ pc = "reconcile" /\ x # None /\ y # None
  BY Writes, TargetTypes DEF ReconcileRole, ReconcileRoleBinding
<1>b. "Role" \in Kinds /\ "RoleBinding" \in Kinds /\ obj.spec.rules \in Content("Role")
  BY Writes
<1>1. CASE ReturnError /\ UNCHANGED rbac
  <2>1. done' = {} /\ at' = None /\ KeepsRole(x)
    BY <1>1 DEF ReturnError, Return, KeepsRole
  <2>. QED BY <1>a, <2>1, MisreportedBefore
<1>2. CASE ReconcileRole(y) /\ ~ReturnError
  <2>1. /\ Reconciled(y, "Role", obj.spec.rules) /\ at = None /\ obj' = obj
        /\ (done \cup {at})' \subseteq done \cup {None, y}
    BY <1>2 DEF ReconcileRole, Complete
  <2>2. /\ <<y, "Role">> \notin outdated => rbac'[y]["Role"] = EntryOf(obj.spec.rules)
        /\ \A z \in Targets, l \in Kinds : <<z, l>> # <<y, "Role">> => rbac'[z][l] = rbac[z][l]
    BY <1>b, <2>1, ReconciledEffect
  <2>3. CASE x # y
    <3>1. KeepsRole(x)
      BY <1>b, <2>2, <2>3 DEF KeepsRole
    <3>. QED BY <1>a, <2>1, <2>3, <3>1, MisreportedBefore
  <2>4. CASE x = y /\ <<x, "Role">> \notin outdated
    <3>1. rbac'[x]["Role"].content = obj.spec.rules
      BY <2>2, <2>4 DEF EntryOf
    <3>2. template.observed => obj.spec = template.spec
      BY <1>a DEF ObservedIsShown
    <3>. QED BY <1>a, <2>1, <3>1, <3>2 DEF Misreported, IsReady
  <2>. QED BY <1>2, <2>3, <2>4
<1>3. CASE ReconcileRoleBinding(y) /\ ~ReturnError
  <2>1. /\ Reconciled(y, "RoleBinding", listed[OrganizationOf(y)]) /\ at = y /\ obj' = obj
        /\ (done \cup {at})' \subseteq done \cup {None, y}
        /\ listed[OrganizationOf(y)] \in Content("RoleBinding")
    BY <1>3, Writes DEF ReconcileRoleBinding, Complete
  <2>2. rbac'[x]["Role"] = rbac[x]["Role"]
    BY <1>b, <2>1, ReconciledEffect
  <2>. QED BY <1>a, <2>1, <2>2, MisreportedBefore DEF KeepsRole
<1>4. ReturnError => UNCHANGED rbac
  BY <1>a DEF ReconcileRole, ReconcileRoleBinding, ReturnError, Return
<1>. QED BY <1>1, <1>2, <1>3, <1>4

LEMMA ControllerMisreports ==
  ASSUME Typed, ControllerStep, NEW x \in Targets, Misreported(x)', ~Misreported(x)
  PROVE  \E y \in Targets : ReconcileRole(y) \/ ReconcileRoleBinding(y)
<1>. USE DEF targetVars, cacheVars, callVars
<1>a. x # None
  BY TargetTypes
<1>1. ASSUME UNCHANGED <<template, rbac>>, UNCHANGED <<obj, at, done>> \/ (done' = {} /\ at' = None)
      PROVE  FALSE
  BY <1>a, <1>1, MisreportedBefore DEF KeepsRole
<1>2. CASE Start
  <2>1. CASE UNCHANGED callVars
    BY <1>1, <1>2, <2>1 DEF Start
  <2>2. CASE UNCHANGED <<at, done>>
    BY <1>1, <1>2, <2>2 DEF Start, Typed, LoopShape
  <2>. QED BY <1>2, <2>1, <2>2 DEF Start
<1>3. CASE UpdateStatus \/ UpdateTerminating
  <2>1. Return /\ UNCHANGED rbac
    BY <1>3 DEF UpdateStatus, UpdateTerminating, ReturnError
  <2>2. CASE UNCHANGED template
    BY <1>1, <2>1, <2>2 DEF Return
  <2>3. CASE UpdateStatus /\ template' = [obj EXCEPT !.targets = done, !.observed = TRUE, !.ready = "True"]
    <3>1. template'.targets = done /\ template'.spec = obj.spec
      BY <2>3 DEF Typed, TypeOK, Template
    <3>. QED BY <1>a, <2>1, <3>1 DEF Return, Misreported
  <2>4. CASE template' = [obj EXCEPT !.observed = TRUE, !.ready = "Terminating"]
    <3>1. template'.ready = "Terminating"
      BY <2>4 DEF Typed, TypeOK, Template
    <3>. QED BY <1>a, <2>1, <3>1 DEF Return, Misreported, IsReady
  <2>. QED BY <1>3, <2>2, <2>3, <2>4 DEF UpdateStatus, UpdateTerminating
<1>4. CASE \/ FailCall \/ Restart
           \/ \E o \in Orgs : ListProjects(o)
           \/ \E what \in {Name} \cup Targets : Deliver(what)
  BY <1>1, <1>4 DEF FailCall, Restart, ReturnError, Return, ListProjects, Deliver
<1>. QED BY <1>2, <1>3, <1>4 DEF ControllerStep

\* A Role comes to count as written, in the status or in a call that is to report it,
\* with other rules than those that are reported, only when it is compared while its
\* own event is on the way, or when a user alters it.
THEOREM MisreportedOnlyOutdated == Spec => OnlyOutdatedIsMisreported
<1>1. ASSUME Inv, [Next]_vars, NEW x \in Targets, Misreported(x)', ~Misreported(x)
      PROVE  \/ <<x, "Role">> \in outdated /\ ReconcileRole(x)
             \/ Alter(x, "Role")
  <2>1. EnvironmentStep \/ ControllerStep
    BY <1>1, Steps DEF Inv
  <2>2. CASE EnvironmentStep
    BY <1>1, <2>2, EnvironmentMisreports DEF Inv
  <2>3. CASE ControllerStep
    <3>1. PICK y \in Targets : ReconcileRole(y) \/ ReconcileRoleBinding(y)
      BY <1>1, <2>3, ControllerMisreports DEF Inv
    <3>. QED BY <1>1, <3>1, RoleMisreports DEF Inv
  <2>. QED BY <2>1, <2>2, <2>3
<1>2. Inv /\ [Next]_vars =>
        [\A x \in Targets : Misreported(x)' /\ ~Misreported(x)
           => \/ <<x, "Role">> \in outdated /\ ReconcileRole(x)
              \/ Alter(x, "Role")]_vars
  BY <1>1
<1>. QED BY <1>2, Invariant, PTL DEF Spec, OnlyOutdatedIsMisreported

=============================================================================
