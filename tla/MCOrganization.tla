--------------------------- MODULE MCOrganization ---------------------------
(***************************************************************************)
(* The Organization controller for model checking: its specification, and  *)
(* one with fewer users for the instance in which the owners change.       *)
(***************************************************************************)
EXTENDS OrganizationController

\* Users change the Organization, not what is in its namespace.
OwnersNext ==
  \/ \E o \in Orgs : \/ System(o) \/ CreateOrganization(o) \/ UpdateOwners(o)
                     \/ DeleteOrganization(o) \/ DeleteNamespace(o) \/ FailCall(o)
  \/ Restart \/ BecomeCalm

OwnersSpec == Init /\ [][OwnersNext]_vars /\ Fairness
=============================================================================
