----------------------- MODULE MCProjectRoleTemplate -----------------------
(***************************************************************************)
(* Values for model checking ProjectRoleTemplateController, and a          *)
(* specification in which some of the users are at work and the others are *)
(* not, chosen in the initial state.                                       *)
(***************************************************************************)
EXTENDS ProjectRoleTemplateController

CONSTANTS l1, l2, r1, r2

ForEveryone == [binds |-> {"Everyone"}, selects |-> {l1}, rules |-> r1]
ForOwners   == [binds |-> {"Owners"}, selects |-> {l1}, rules |-> r2]
TwoSpecs    == {ForEveryone, ForOwners}

\* Owners by rank.
TwoOwnerLists == {<<2>>, <<3, 2>>}

VARIABLE users

\* What users change, once there are a Project and a template: the template
\* (one with another finalizer: "hold"), the labels, the owners or the members of
\* the Project, or whether there is a Project.
Modes == {"template", "hold", "labels", "owners", "members", "projects"}

MCInit == Init /\ users \in Modes

\* What nobody changes has one value.
Fixed ==
  /\ template'.present => /\ template'.spec # ForEveryone => users = "template"
                          /\ template'.held => users = "hold"
  /\ \A p \in Projects : prj'[p].phase # "absent" =>
       /\ prj'[p].label # l1 => users = "labels"
       /\ prj'[p].owners # <<2>> => users = "owners"

\* Elsewhere the event of the Role takes no time.
Overdue == IF users = "hold" THEN {} ELSE {e \in outdated : e[2] = "Role"}

MCNext ==
  /\ Overdue # {} => \E e \in Overdue : DeliverRole(e[1], e[2])
  /\ \/ System \/ BecomeCalm \/ CreateTemplate
     \/ \E p \in Projects : CreateProject(p)
     \/ users \in {"template", "hold"} /\ (DeleteTemplate \/ FailCall \/ Restart)
     \/ users = "template" /\ UpdateSpec
     \/ users = "labels" /\ (DeleteTemplate \/ \E p \in Projects : ChangeLabel(p))
     \/ users = "owners" /\ \E p \in Projects : ChangeOwners(p)
     \/ users = "members" /\ (FailCall \/ \E p \in Projects : ChangeRoleBindings(p))
     \/ users = "projects" /\ \E p \in Projects : DeleteProject(p)
  /\ Fixed
  /\ UNCHANGED users

MCSpec == MCInit /\ [][MCNext]_<<vars, users>> /\ Fairness

\* When users and faults stop, every template that is being deleted goes, and
\* owners and the subjects of the users' RoleBindings get what the template grants
\* them, for good, however the two controllers interleave.  Unless an owner or a
\* member has left, the two do not wake each other up for ever: members and
\* RoleBindings reach a fixed point.
FixedPoint ==
  /\ EveryoneServed
  /\ users \notin {"owners", "members"} => MembersCollected /\ Granted
EventuallySettled == calm ~> []FixedPoint
=============================================================================
