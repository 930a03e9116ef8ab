----------------------------- MODULE MCProject -----------------------------
(***************************************************************************)
(* The Project controller for model checking: a specification in which     *)
(* users change the owners or the RoleBindings, chosen in the initial      *)
(* state; everything else is at work in either case.                       *)
(***************************************************************************)
EXTENDS ProjectController

CONSTANT s1

VARIABLE users

MCInit == Init /\ users \in {"owners", "bindings"}

MCNext ==
  /\ \/ \E p \in Projects :
          \/ System(p) \/ CreateProject(p) \/ DeleteProject(p) \/ DeleteNamespace(p) \/ FailCall(p)
          \/ users = "owners" /\ UpdateOwners(p)
          \/ users = "bindings" /\ ChangeBindings(p)
     \/ Restart \/ BecomeCalm
  \* Owners that nobody changes are the same of every Project.
  /\ users = "bindings" => \A p \in Projects : prj'[p].present => prj'[p].owners = {s1}
  /\ UNCHANGED users

MCSpec == MCInit /\ [][MCNext]_<<vars, users>> /\ Fairness
=============================================================================
