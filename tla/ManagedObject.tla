--------------------------- MODULE ManagedObject ---------------------------
(***************************************************************************)
(* The custom resources Organization and Project as the Kubernetes API     *)
(* server stores them, reduced to the fields the controllers of Bulward    *)
(* branch on, and what the API server does to one of them.  This module    *)
(* has no state: the controller modules keep such objects in their         *)
(* variables.                                                              *)
(*                                                                         *)
(* Two counters of the real object are represented by the only question    *)
(* the program or the server asks about them:                              *)
(*   - metadata.generation and status.observedGeneration are compared for  *)
(*     equality only, the field observed is the result;                    *)
(*   - metadata.resourceVersion is compared only with the stored one when  *)
(*     a copy is written back: the controller modules keep, per copy,      *)
(*     whether the object has changed since the copy was taken.            *)
(***************************************************************************)
CONSTANTS Subjects,   \* rbacv1.Subject values
          OwnerSets   \* the values spec.owners takes in the model

\* spec.owners is validated to have at least one item (+kubebuilder:validation:MinItems=1).
ASSUME OwnerSetsAssumption ==
  /\ OwnerSets \subseteq SUBSET Subjects
  /\ OwnerSets # {}
  /\ {} \notin OwnerSets

\* The Ready condition: absent, "True", or "False" with reason "Deleting".
\* No code path writes "Unknown" or another reason.
ReadyCondition == {"Unset", "True", "Terminating"}

Object ==
  [ present   : BOOLEAN,          \* the object exists
    deleting  : BOOLEAN,          \* metadata.deletionTimestamp is set
    finalizer : BOOLEAN,          \* the controller's finalizer is in metadata.finalizers
    held      : BOOLEAN,          \* so is one of somebody else (foregroundDeletion, say)
    owners    : OwnerSets,        \* spec.owners
    observed  : BOOLEAN,          \* status.observedGeneration = metadata.generation
    ready     : ReadyCondition,   \* the Ready entry of status.conditions
    namespace : BOOLEAN,          \* status.namespace is not nil
    members   : SUBSET Subjects ] \* status.members

\* A new object: the API server drops the status a client sends, and sets
\* generation 1 while status.observedGeneration is still 0.
NewObject(owners, held) ==
  [ present |-> TRUE, deleting |-> FALSE, finalizer |-> FALSE, held |-> held,
    owners |-> owners, observed |-> FALSE, ready |-> "Unset", namespace |-> FALSE, members |-> {} ]

NoObject == [NewObject(CHOOSE s \in OwnerSets : TRUE, FALSE) EXCEPT !.present = FALSE]

----------------------------------------------------------------------------
(* The methods of the API types. *)

\* IsReady: not deleted, the status is about this generation, condition True.
IsReady(obj) == ~obj.deleting /\ obj.observed /\ obj.ready = "True"

\* Faulty: the condition is written without a status.
SetReadyUnset(obj, condition) == [obj EXCEPT !.observed = TRUE, !.ready = "Unknown"]

\* The two assignments that precede every write of the Ready condition:
\* ObservedGeneration = Generation, then SetCondition.
SetReady(obj, condition) == [obj EXCEPT !.observed = TRUE, !.ready = condition]

----------------------------------------------------------------------------
(* What the API server does on a write that it accepts. *)

\* A spec change starts a new generation.
WithOwners(obj, owners) == [obj EXCEPT !.owners = owners, !.observed = FALSE]

\* An object marked for deletion disappears with its last finalizer.
Settled(obj) ==
  IF obj.deleting /\ ~obj.finalizer /\ ~obj.held THEN NoObject ELSE obj

\* DELETE: the object is marked, which starts a new generation; a second
\* DELETE changes nothing; an object without finalizers is gone at once.
Deleted(obj) ==
  IF obj.deleting THEN obj
  ELSE Settled([obj EXCEPT !.deleting = TRUE, !.observed = FALSE])

\* PUT of the object without the controller's finalizer, or without the other one.
WithoutFinalizer(obj) == Settled([obj EXCEPT !.finalizer = FALSE])
WithoutHold(obj)      == Settled([obj EXCEPT !.held = FALSE])
=============================================================================
