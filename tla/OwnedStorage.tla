---------------------------- MODULE OwnedStorage ----------------------------
(***************************************************************************)
(* Requests to the extension API server for Organizations                  *)
(* (pkg/apis/apiserver/organization_REST.go) or for the Projects of one    *)
(* namespace (project_REST.go, the same code): Get, List, Create, Update,  *)
(* Delete and DeleteCollection.  Watch is in WatchProxy.                   *)
(*                                                                         *)
(* The server keeps nothing: a request reads objects from the Kubernetes   *)
(* API server, checks what it read, and sends its own request there.  The  *)
(* requests of several callers interleave between the two, with the        *)
(* controllers and with clients that use the Kubernetes API directly.      *)
(*                                                                         *)
(* A resourceVersion is compared with the stored one only, and so is a     *)
(* uid: a copy has the two results, fresh and same, instead.               *)
(***************************************************************************)
CONSTANTS Users,   \* callers; a subject is one of them
          Names,   \* names of objects
          None     \* no value

VARIABLES
  object,    \* object[n]: as stored, or None
  copy,      \* copy[u]: what the client u has read and would write back, or None
  request,   \* request[u]: the request of u that has passed its checks, or "none"
  checked,   \* checked[u]: the copy that was checked for it, or None
  accepted   \* accepted[u]: the last request of u was answered without an error

vars == <<object, copy, request, checked, accepted>>

\* owners: spec.owners; members: status.members.
Object == [owners : SUBSET Users \ {{}}, members : SUBSET Users]
Copy   == [name : Names, fresh : BOOLEAN, same : BOOLEAN]

ASSUME StorageAssumption == None \notin Object \cup Copy

Requests == {"none", "put", "patch", "delete", "deletePinned", "deleteCollection"}

TypeOK ==
  /\ object \in [Names -> Object \cup {None}]
  /\ copy \in [Users -> Copy \cup {None}]
  /\ request \in [Users -> Requests]
  /\ checked \in [Users -> Copy \cup {None}]
  /\ accepted \in [Users -> BOOLEAN]
  /\ \A u \in Users :
       /\ (checked[u] = None) = (request[u] \in {"none", "deleteCollection"})
       /\ \A c \in {copy[u], checked[u]} \ {None} :
            (c.fresh => c.same) /\ (c.same => object[c.name] # None)

Init ==
  /\ object = [n \in Names |-> None]
  /\ copy = [u \in Users |-> None]
  /\ request = [u \in Users |-> "none"]
  /\ checked = [u \in Users |-> None]
  /\ accepted = [u \in Users |-> FALSE]

Present == {n \in Names : object[n] # None}

----------------------------------------------------------------------------
(* What the Kubernetes API server does. *)

Fresh(n) == [name |-> n, fresh |-> TRUE, same |-> TRUE]

\* Objects in changed get another resourceVersion, those in removed are gone.
Aged(copies, changed, removed) ==
  [u \in Users |->
     LET c == copies[u] IN
     IF c = None \/ c.name \notin changed \cup removed THEN c
     ELSE [c EXCEPT !.fresh = FALSE, !.same = @ /\ c.name \notin removed]]

\* A write by somebody else than the callers.
WriteDirectly(n, obj) ==
  /\ object' = [object EXCEPT ![n] = obj]
  /\ LET removed == {m \in {n} : obj = None}
     IN copy' = Aged(copy, {n}, removed) /\ checked' = Aged(checked, {n}, removed)
  /\ UNCHANGED <<request, accepted>>

----------------------------------------------------------------------------
(* Checks on an object that has been read. *)

IsMember(u, obj) == u \in obj.owners \cup obj.members

\* checkMembership: the object is not found by strangers.
Membership(u, n) == object[n] # None /\ IsMember(u, object[n])
\* checkOwnership.
Ownership(u, n) == Membership(u, n) /\ u \in object[n].owners

----------------------------------------------------------------------------
(* Requests of one step. *)

\* The request of u ends, or is not let in.
Answer(u, ok) ==
  /\ accepted' = [accepted EXCEPT ![u] = ok]
  /\ request' = [request EXCEPT ![u] = "none"]

\* Faulty: the client gets an object in spite of the error.
GetIgnoringErrors(u, n) ==
  /\ request[u] = "none"
  /\ Answer(u, Membership(u, n))
  /\ copy' = [copy EXCEPT ![u] = Fresh(n)]
  /\ UNCHANGED <<object, checked>>

Get(u, n) ==
  /\ request[u] = "none"
  /\ Answer(u, Membership(u, n))
  /\ copy' = [copy EXCEPT ![u] = IF Membership(u, n) THEN Fresh(n) ELSE @]
  /\ UNCHANGED <<object, checked>>

\* The client may go on with one of the objects it is shown.
List(u) ==
  /\ request[u] = "none"
  /\ \E c \in {copy[u]} \cup {Fresh(n) : n \in {m \in Names : Membership(u, m)}} :
       copy' = [copy EXCEPT ![u] = c]
  /\ Answer(u, TRUE)
  /\ UNCHANGED <<object, checked>>

\* Callers have to be among the owners.
Create(u, n, owners) ==
  /\ request[u] = "none"
  /\ \/ /\ u \notin owners \/ object[n] # None
        /\ Answer(u, FALSE)
        /\ UNCHANGED <<object, copy>>
     \/ /\ u \in owners /\ object[n] = None
        /\ object' = [object EXCEPT ![n] = [owners |-> owners, members |-> {}]]
        /\ copy' = [copy EXCEPT ![u] = Fresh(n)]
        /\ Answer(u, TRUE)
  /\ UNCHANGED checked

----------------------------------------------------------------------------
(* Update: the object is read and checked, then written. *)

\* A request that passes its checks goes on.
Check(u, n, passes, next) ==
  /\ request[u] = "none"
  /\ request' = [request EXCEPT ![u] = IF passes THEN next ELSE "none"]
  /\ checked' = [checked EXCEPT ![u] = IF passes THEN Fresh(n) ELSE None]
  /\ accepted' = [accepted EXCEPT ![u] = FALSE]
  /\ UNCHANGED <<object, copy>>

\* PUT sends the client's copy, changed; its uid is a precondition.
CheckPut(u) ==
  copy[u] # None /\ Check(u, copy[u].name, copy[u].same /\ Ownership(u, copy[u].name), "put")

\* PATCH is applied to the object that was read.
CheckPatch(u, n) == Check(u, n, Ownership(u, n), "patch")

\* Faulty: the resourceVersion is taken from the stored object.
AcceptsAny(u) == object[checked[u].name] # None
\* The new object carries the resourceVersion of the copy that it was made from.
Accepts(u) == IF request[u] = "put" THEN copy[u].fresh ELSE checked[u].fresh

UpdateObject(u) ==
  /\ request[u] \in {"put", "patch"}
  /\ LET n == checked[u].name IN
     \/ /\ Accepts(u)
        /\ \E owners \in SUBSET Users \ {{}} : object' = [object EXCEPT ![n].owners = owners]
        /\ copy' = [Aged(copy, {n}, {}) EXCEPT ![u] = Fresh(n)]
        /\ checked' = [Aged(checked, {n}, {}) EXCEPT ![u] = None]
        /\ Answer(u, TRUE)
     \/ /\ ~Accepts(u)
        /\ checked' = [checked EXCEPT ![u] = None]
        /\ Answer(u, FALSE)
        /\ UNCHANGED <<object, copy>>

----------------------------------------------------------------------------
(* Delete and DeleteCollection: checked first, then deleted by name or by     *)
(* selector.  What has finalizers stays and is marked, once.                  *)

CheckDelete(u, n) == Check(u, n, Ownership(u, n), "delete")

\* The client sends the uid of its copy as a precondition.
CheckDeletePinned(u) ==
  copy[u] # None /\ Check(u, copy[u].name, Ownership(u, copy[u].name), "deletePinned")

\* Faulty: the options are not handed on.
MayDeleteAny(u) == object[checked[u].name] # None
MayDelete(u) ==
  object[checked[u].name] # None /\ (request[u] = "deletePinned" => copy[u].same)

DeleteObjects(u, changed, removed) ==
  /\ object' = [n \in Names |-> IF n \in removed THEN None ELSE object[n]]
  /\ copy' = Aged(copy, changed, removed)
  /\ checked' = [Aged(checked, changed, removed) EXCEPT ![u] = None]
  /\ Answer(u, TRUE)

DeleteObject(u) ==
  /\ request[u] \in {"delete", "deletePinned"}
  /\ LET n == checked[u].name IN
     \/ /\ MayDelete(u)
        /\ \E changed \in SUBSET {n} : \E removed \in SUBSET changed :
             DeleteObjects(u, changed, removed)
     \/ /\ ~MayDelete(u)
        /\ checked' = [checked EXCEPT ![u] = None]
        /\ Answer(u, FALSE)
        /\ UNCHANGED <<object, copy>>

\* The selector selects everything.
CheckDeleteCollection(u) ==
  /\ request[u] = "none"
  /\ LET passes == \A n \in Names : Membership(u, n) => Ownership(u, n)
     IN request' = [request EXCEPT ![u] = IF passes THEN "deleteCollection" ELSE "none"]
  /\ accepted' = [accepted EXCEPT ![u] = FALSE]
  /\ UNCHANGED <<object, copy, checked>>

DeleteCollection(u) ==
  /\ request[u] = "deleteCollection"
  /\ \E changed \in SUBSET Present : \E removed \in SUBSET changed :
       DeleteObjects(u, changed, removed)

----------------------------------------------------------------------------
(* The controllers, and clients that use the Kubernetes API directly. *)

UpdateMembers(n) ==
  /\ object[n] # None
  /\ \E members \in SUBSET Users : WriteDirectly(n, [object[n] EXCEPT !.members = members])

ChangeOwners(n) ==
  /\ object[n] # None
  /\ \E owners \in SUBSET Users \ {{}} : WriteDirectly(n, [object[n] EXCEPT !.owners = owners])

RemoveObject(n) == object[n] # None /\ WriteDirectly(n, None)

----------------------------------------------------------------------------
Next ==
  \/ \E u \in Users :
       \/ \E n \in Names : \/ Get(u, n) \/ CheckPatch(u, n) \/ CheckDelete(u, n)
                           \/ \E owners \in SUBSET Users \ {{}} : Create(u, n, owners)
       \/ List(u) \/ CheckPut(u) \/ UpdateObject(u)
       \/ CheckDeletePinned(u) \/ DeleteObject(u)
       \/ CheckDeleteCollection(u) \/ DeleteCollection(u)
  \/ \E n \in Names : UpdateMembers(n) \/ ChangeOwners(n) \/ RemoveObject(n)

Spec == Init /\ [][Next]_vars
----------------------------------------------------------------------------
(* Properties. *)

Accepted(u, requests) ==
  request[u] \in requests /\ request'[u] = "none" /\ accepted'[u]

\* The owners are checked in one version of an object and a later request replaces
\* what is stored: the replaced version has the caller among its owners, and is
\* of the object checked, not of its successor of the same name.
UpdatesWhatItChecked ==
  [][\A u \in Users : Accepted(u, {"put", "patch"}) =>
       /\ checked[u].same
       /\ u \in object[checked[u].name].owners]_vars

\* A Delete that carries the uid the client has seen deletes the object that was
\* checked, whoever took its name in between.
DeletesWhatItChecked ==
  [][\A u \in Users : Accepted(u, {"deletePinned"}) => checked[u].same]_vars
=============================================================================
