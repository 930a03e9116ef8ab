------------------------ MODULE ManagedObject_proofs ------------------------
(***************************************************************************)
(* Lemmas about Organizations and Projects as ManagedObject has them, for  *)
(* any subjects and owners: their types, and what each operation does to   *)
(* the fields.                                                             *)
(***************************************************************************)
EXTENDS ManagedObject, TLAPS

\* Whatever is done to an object leaves an object.
LEMMA ObjectTypes ==
  /\ NoObject \in Object
  /\ \A owners \in OwnerSets, held \in BOOLEAN : NewObject(owners, held) \in Object
  /\ \A x \in Object :
       /\ Deleted(x) \in Object /\ WithoutFinalizer(x) \in Object
       /\ WithoutHold(x) \in Object
       /\ \A c \in ReadyCondition : SetReady(x, c) \in Object
       /\ \A owners \in OwnerSets : WithOwners(x, owners) \in Object
<1>1. PICK owners \in OwnerSets : TRUE
  BY OwnerSetsAssumption
<1>2. (CHOOSE s \in OwnerSets : TRUE) \in OwnerSets
  BY <1>1
<1>3. ASSUME NEW s \in OwnerSets, NEW held \in BOOLEAN
      PROVE  NewObject(s, held) \in Object
  BY DEF NewObject, Object, ReadyCondition
<1>4. NoObject \in Object
  <2> DEFINE new == NewObject(CHOOSE s \in OwnerSets : TRUE, FALSE)
  <2>1. new \in Object
    BY <1>2, <1>3
  <2>2. NoObject = [new EXCEPT !.present = FALSE]
    BY DEF NoObject
  <2> HIDE DEF new
  <2>. QED BY <2>1, <2>2 DEF Object
<1>5. ASSUME NEW x \in Object
      PROVE  /\ Deleted(x) \in Object /\ WithoutFinalizer(x) \in Object
             /\ WithoutHold(x) \in Object
  <2>1. ASSUME NEW y \in Object PROVE Settled(y) \in Object
    BY <1>4 DEF Settled
  <2>2. [x EXCEPT !.deleting = TRUE, !.observed = FALSE] \in Object
    BY DEF Object
  <2>3. [x EXCEPT !.finalizer = FALSE] \in Object /\ [x EXCEPT !.held = FALSE] \in Object
    BY DEF Object
  <2>. QED BY <2>1, <2>2, <2>3 DEF Deleted, WithoutFinalizer, WithoutHold
<1>6. ASSUME NEW x \in Object
      PROVE  /\ \A c \in ReadyCondition : SetReady(x, c) \in Object
             /\ \A s \in OwnerSets : WithOwners(x, s) \in Object
  BY DEF SetReady, WithOwners, Object
<1>. QED BY <1>3, <1>4, <1>5, <1>6

LEMMA FieldTypes ==
  ASSUME NEW x \in Object
  PROVE  /\ [x EXCEPT !.finalizer = TRUE] \in Object
         /\ [x EXCEPT !.namespace = TRUE] \in Object
         /\ \A m \in SUBSET Subjects : [x EXCEPT !.members = m] \in Object
BY DEF Object

----------------------------------------------------------------------------
(* What an action does to the fields of an object. *)

LEMMA WrittenFields ==
  ASSUME NEW x \in Object
  PROVE  /\ LET y == [x EXCEPT !.finalizer = TRUE] IN
              /\ y.finalizer /\ y.present = x.present /\ y.deleting = x.deleting
              /\ y.ready = x.ready /\ y.namespace = x.namespace
              /\ y.owners = x.owners /\ y.held = x.held
         /\ LET y == [x EXCEPT !.namespace = TRUE] IN
              /\ y.namespace /\ y.present = x.present /\ y.deleting = x.deleting
              /\ y.ready = x.ready /\ y.finalizer = x.finalizer
              /\ y.owners = x.owners /\ y.held = x.held
         /\ \A m \in SUBSET Subjects : LET y == [x EXCEPT !.members = m] IN
              /\ y.present = x.present /\ y.deleting = x.deleting
              /\ y.ready = x.ready /\ y.finalizer = x.finalizer /\ y.namespace = x.namespace
              /\ y.owners = x.owners /\ y.held = x.held
         /\ \A c \in ReadyCondition : LET y == SetReady(x, c) IN
              /\ y.ready = c /\ y.present = x.present /\ y.deleting = x.deleting
              /\ y.finalizer = x.finalizer /\ y.namespace = x.namespace
              /\ y.owners = x.owners /\ y.held = x.held
BY DEF Object, SetReady

LEMMA AbsentFields ==
  /\ ~NoObject.present /\ ~NoObject.deleting /\ ~NoObject.finalizer
  /\ NoObject.ready = "Unset"
<1> DEFINE new == NewObject(CHOOSE s \in OwnerSets : TRUE, FALSE)
<1>1. new \in Object
  <2>1. (CHOOSE s \in OwnerSets : TRUE) \in OwnerSets
    BY OwnerSetsAssumption
  <2>. QED BY <2>1, ObjectTypes
<1>2. ~new.deleting /\ ~new.finalizer /\ new.ready = "Unset"
  BY DEF NewObject
<1>3. NoObject = [new EXCEPT !.present = FALSE]
  BY DEF NoObject
<1> HIDE DEF new
<1>. QED BY <1>1, <1>2, <1>3 DEF Object

LEMMA ReleasedFields ==
  ASSUME NEW x \in Object
  PROVE  /\ LET y == WithoutFinalizer(x) IN
              \/ y = NoObject /\ x.deleting /\ ~x.held
              \/ /\ ~y.finalizer /\ y.present = x.present /\ y.deleting = x.deleting
                 /\ y.ready = x.ready /\ y.namespace = x.namespace
                 /\ y.owners = x.owners /\ y.held = x.held
                 /\ x.deleting => x.held
         /\ LET y == WithoutHold(x) IN
              \/ y = NoObject /\ x.deleting /\ ~x.finalizer
              \/ /\ y.finalizer = x.finalizer /\ y.present = x.present
                 /\ y.deleting = x.deleting /\ y.ready = x.ready
                 /\ y.namespace = x.namespace /\ y.owners = x.owners
                 /\ x.deleting => x.finalizer
         /\ LET y == Deleted(x) IN
              \/ y = NoObject /\ ~x.finalizer /\ ~x.held
              \/ /\ y.finalizer = x.finalizer /\ y.present = x.present
                 /\ y.deleting /\ y.ready = x.ready
                 /\ y.namespace = x.namespace /\ y.owners = x.owners /\ y.held = x.held
                 /\ x.deleting \/ x.finalizer \/ x.held
<1>1. ASSUME NEW y \in {[x EXCEPT !.finalizer = FALSE]}
      PROVE  /\ ~y.finalizer /\ y.present = x.present /\ y.deleting = x.deleting
             /\ y.ready = x.ready /\ y.namespace = x.namespace
             /\ y.owners = x.owners /\ y.held = x.held
  BY DEF Object
<1>2. ASSUME NEW y \in {[x EXCEPT !.held = FALSE]}
      PROVE  /\ y.finalizer = x.finalizer /\ y.present = x.present /\ y.deleting = x.deleting
             /\ y.ready = x.ready /\ y.namespace = x.namespace
             /\ y.owners = x.owners /\ ~y.held
  BY DEF Object
<1>3. ASSUME NEW y \in {[x EXCEPT !.deleting = TRUE, !.observed = FALSE]}
      PROVE  /\ y.finalizer = x.finalizer /\ y.present = x.present /\ y.deleting
             /\ y.ready = x.ready /\ y.namespace = x.namespace
             /\ y.owners = x.owners /\ y.held = x.held
  BY DEF Object
<1>4. WithoutFinalizer(x) = IF x.deleting /\ ~x.held THEN NoObject
                            ELSE [x EXCEPT !.finalizer = FALSE]
  BY <1>1 DEF WithoutFinalizer, Settled
<1>5. WithoutHold(x) = IF x.deleting /\ ~x.finalizer THEN NoObject
                       ELSE [x EXCEPT !.held = FALSE]
  BY <1>2 DEF WithoutHold, Settled
<1>6. Deleted(x) = IF x.deleting THEN x
                   ELSE IF ~x.finalizer /\ ~x.held THEN NoObject
                   ELSE [x EXCEPT !.deleting = TRUE, !.observed = FALSE]
  BY <1>3 DEF Deleted, Settled
<1>7. ASSUME NEW y \in { WithoutFinalizer(x) }
      PROVE  \/ y = NoObject /\ x.deleting /\ ~x.held
             \/ /\ ~y.finalizer /\ y.present = x.present /\ y.deleting = x.deleting
                /\ y.ready = x.ready /\ y.namespace = x.namespace
                /\ y.owners = x.owners /\ y.held = x.held
                /\ x.deleting => x.held
  BY <1>1, <1>4
<1>8. ASSUME NEW y \in { WithoutHold(x) }
      PROVE  \/ y = NoObject /\ x.deleting /\ ~x.finalizer
             \/ /\ y.finalizer = x.finalizer /\ y.present = x.present
                /\ y.deleting = x.deleting /\ y.ready = x.ready
                /\ y.namespace = x.namespace /\ y.owners = x.owners
                /\ x.deleting => x.finalizer
  BY <1>2, <1>5
<1>9. ASSUME NEW y \in { Deleted(x) }
      PROVE  \/ y = NoObject /\ ~x.finalizer /\ ~x.held
             \/ /\ y.finalizer = x.finalizer /\ y.present = x.present
                /\ y.deleting /\ y.ready = x.ready
                /\ y.namespace = x.namespace /\ y.owners = x.owners /\ y.held = x.held
                /\ x.deleting \/ x.finalizer \/ x.held
  BY <1>3, <1>6
<1>. QED BY <1>7, <1>8, <1>9

----------------------------------------------------------------------------
(* What GuardedOwnership allows of one object and its namespace.           *)

\* The passages between two phases that GuardedOwnership has actions for.
\* An object is released only when it is cleared.
Passes(from, to, cleared) ==
  \/ from = to
  \/ from = "none" /\ to = "created"
  \/ from = "created" /\ to \in {"guarded", "none", "leaving"}
  \/ from = "guarded" /\ to = "condemned"
  \/ from = "condemned" /\ to \in {"none", "leaving"} /\ cleared
  \/ from = "leaving" /\ to = "none"

\* The turns of the namespace of an object in a phase.
Turns(from, to, phase) ==
  \/ from = to
  \/ from = "absent" /\ to = "active" /\ phase \in {"guarded", "condemned"}
  \/ from = "active" /\ to = "terminating"
  \/ from = "terminating" /\ to = "absent"
=============================================================================
