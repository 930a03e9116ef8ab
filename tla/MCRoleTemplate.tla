--------------------------- MODULE MCRoleTemplate ---------------------------
(***************************************************************************)
(* Values for model checking RoleTemplateController, and a specification   *)
(* in which some of the users are at work and the others are not, chosen   *)
(* in the initial state.                                                   *)
(***************************************************************************)
EXTENDS RoleTemplateController

CONSTANT v1

\* A template like the default ones, for all namespaces, and one that binds nobody.
ForEverywhere(r) == [scopes |-> Scopes, binds |-> TRUE, rules |-> r]
ForProjects(r)   == [scopes |-> {"Project"}, binds |-> FALSE, rules |-> r]

SomeRules == CHOOSE r \in Rules : TRUE
OneSpec   == {ForEverywhere(SomeRules)}
ManySpecs == {ForEverywhere(r) : r \in Rules} \cup {ForProjects(SomeRules)}

VARIABLE users

\* What users change: the template and whether there is an Organization; or the
\* Organization, its owners and its Project, while the template stays; or what the
\* template has brought to an Organization, and whether there is a template; or the
\* rules of the template.
Modes == {"template", "tenants", "entries", "rules"}

\* What nobody changes has one value.
Fixed ==
  /\ template'.present =>
       /\ template'.spec \notin OneSpec => users \in {"template", "rules"}
       /\ users = "rules" => template'.spec.binds
       /\ template'.held <=> users # "tenants"
  /\ users # "tenants" => /\ \A p \in Projects : phase'[p] = "absent"
                          /\ \A o \in Orgs : owners'[o] \in {v1, None}

MCNext ==
  /\ \/ System \/ CreateTemplate \/ FailCall
     \/ \E x \in Targets : CreateTarget(x) \/ BecomeReady(x)
     \/ users # "tenants" /\ (DeleteTemplate \/ Restart)
     \/ users \in {"template", "entries"} /\ BecomeCalm
     \/ users \in {"template", "rules"} /\ UpdateSpec
     \/ users \in {"template", "tenants"} /\ \E x \in Targets : DeleteTarget(x)
     \/ users = "tenants" /\ \E o \in Orgs : ChangeOwners(o)
     \/ users = "entries" /\ \E x \in Targets, k \in Kinds : Alter(x, k)
  /\ Fixed
  /\ UNCHANGED users

MCInit == Init /\ users \in {"template", "tenants"}

MCSpec == MCInit /\ [][MCNext]_<<vars, users>>

EntriesInit == Init /\ users \in {"entries", "rules"}

EntriesSpec == EntriesInit /\ [][MCNext]_<<vars, users>> /\ Fairness
=============================================================================
