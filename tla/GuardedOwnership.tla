-------------------------- MODULE GuardedOwnership --------------------------
(***************************************************************************)
(* What a Bulward controller promises about the objects of its kind and    *)
(* the namespaces they own: a namespace lives under the protection of a    *)
(* finalizer.                                                              *)
(*                                                                         *)
(* An object passes through phases; its namespace comes and goes while the *)
(* object is guarded by the finalizer.  The controller may be shown late   *)
(* what has become of the namespace.  It releases an object only after it  *)
(* has been shown, since the object was condemned and by a look that still *)
(* stands, that the namespace is absent, and provides none meanwhile.      *)
(* Where nothing is shown late, no namespace is ever left without its      *)
(* object.  How the controller looks and retries is left open: the modules *)
(* of the controllers are shown to implement this one.                     *)
(***************************************************************************)
CONSTANT Objects

VARIABLES phase,      \* phase[x]: of the object x
          dependent,  \* dependent[x]: the namespace that x owns
          shown,      \* shown[x]: that namespace as the controller is shown it
          cleared     \* objects about to be released: shown to own nothing

vars == <<phase, dependent, shown, cleared>>

\* created: without the finalizer; guarded: with it; condemned: with it, and
\* marked for deletion; leaving: marked, and kept only by somebody else.
Phases     == {"none", "created", "guarded", "condemned", "leaving"}
Dependents == {"absent", "active", "terminating"}

Init ==
  /\ phase = [x \in Objects |-> "none"]
  /\ dependent = [x \in Objects |-> "absent"]
  /\ shown = [x \in Objects |-> "absent"]
  /\ cleared = {}

Pass(x, from, to) ==
  /\ phase[x] = from
  /\ phase' = [phase EXCEPT ![x] = to]
  /\ cleared' = cleared \ {x}
  /\ UNCHANGED <<dependent, shown>>

Create(x)  == Pass(x, "none", "created")
Guard(x)   == Pass(x, "created", "guarded")
Condemn(x) == Pass(x, "guarded", "condemned")
\* Without the finalizer the object owns nothing, and may be deleted.
Abandon(x) == Pass(x, "created", "none") \/ Pass(x, "created", "leaving")
Release(x) ==
  /\ x \in cleared
  /\ Pass(x, "condemned", "none") \/ Pass(x, "condemned", "leaving")
Leave(x)   == Pass(x, "leaving", "none")

\* The namespace turns; the controller may be shown at once.
Turn(x, from, to) ==
  /\ dependent[x] = from
  /\ dependent' = [dependent EXCEPT ![x] = to]
  /\ shown' \in {shown, [shown EXCEPT ![x] = to]}
  /\ UNCHANGED <<phase, cleared>>

\* A call that began before the deletion may still create the namespace.
Provision(x) ==
  /\ phase[x] \in {"guarded", "condemned"} /\ x \notin cleared
  /\ Turn(x, "absent", "active")
Reclaim(x)   == Turn(x, "active", "terminating")
Vanish(x)    == Turn(x, "terminating", "absent")

\* The controller looks for what a condemned object owns, and is shown nothing.
Clear(x) ==
  /\ phase[x] = "condemned" /\ shown[x] = "absent"
  /\ cleared' = cleared \cup {x}
  /\ UNCHANGED <<phase, dependent, shown>>

\* It is shown some namespaces as they are, and starts over with some objects.
CatchUp ==
  /\ \E X \in SUBSET Objects :
       shown' = [x \in Objects |-> IF x \in X THEN dependent[x] ELSE shown[x]]
  /\ cleared' \in SUBSET cleared
  /\ UNCHANGED <<phase, dependent>>

Next ==
  \/ \E x \in Objects :
       \/ Create(x) \/ Guard(x) \/ Condemn(x) \/ Abandon(x) \/ Release(x) \/ Leave(x)
       \/ Provision(x) \/ Reclaim(x) \/ Vanish(x) \/ Clear(x)
  \/ CatchUp

Spec == Init /\ [][Next]_vars
=============================================================================
