------------------------ MODULE OwnedStorage_proofs -------------------------
(***************************************************************************)
(* Theorems about the requests of the extension API server, for any        *)
(* callers and names.                                                      *)
(***************************************************************************)
EXTENDS OwnedStorage, TLAPS

\* What a copy c says of the stored objects is true.
Truthful(c, objects) ==
  c # None => (c.fresh => c.same) /\ (c.same => objects[c.name] # None)

\* What holds of a caller u with the request r, its copy c and the checked copy k:
\* a checked copy that is still fresh shows an object that u owns, and the
\* client's copy is not newer than the one that was checked for it.
Sound(u, r, c, k, objects) ==
  /\ c \in Copy \cup {None} /\ k \in Copy \cup {None} /\ r \in Requests
  /\ Truthful(c, objects) /\ Truthful(k, objects)
  /\ (k = None) <=> (r \in {"none", "deleteCollection"})
  /\ (r \in {"put", "patch"} /\ k.fresh) => u \in objects[k.name].owners
  /\ r \in {"put", "deletePinned"} =>
       c # None /\ c.name = k.name /\ (c.fresh => k.fresh) /\ (c.same => k.same)

Typed ==
  /\ object \in [Names -> Object \cup {None}]
  /\ copy \in [Users -> Copy \cup {None}]
  /\ request \in [Users -> Requests]
  /\ checked \in [Users -> Copy \cup {None}]
  /\ accepted \in [Users -> BOOLEAN]

\* The inductive invariant.
Inv ==
  /\ Typed
  /\ \A u \in Users : Sound(u, request[u], copy[u], checked[u], object)

----------------------------------------------------------------------------
(* Copies. *)

LEMMA FreshCopy ==
  ASSUME NEW n \in Names
  PROVE  /\ Fresh(n) \in Copy /\ Fresh(n) # None
         /\ Fresh(n).name = n /\ Fresh(n).fresh /\ Fresh(n).same
<1>1. Fresh(n) \in Copy
  BY DEF Fresh, Copy
<1>2. Fresh(n) # None
  BY <1>1, StorageAssumption
<1>3. Fresh(n).name = n /\ Fresh(n).fresh = TRUE /\ Fresh(n).same = TRUE
  BY DEF Fresh
<1> QED
  BY <1>1, <1>2, <1>3

\* What becomes of a copy c when objects change and are removed.
AgedFrom(c, d, changed, removed) ==
  /\ d \in Copy \cup {None}
  /\ (d = None) <=> (c = None)
  /\ c # None =>
       /\ d.name = c.name
       /\ d.fresh <=> (c.fresh /\ c.name \notin changed \cup removed)
       /\ d.same <=> (c.same /\ c.name \notin removed)

\* It is what Aged does with every copy.
LEMMA AgedCopy ==
  ASSUME NEW copies \in [Users -> Copy \cup {None}], NEW changed, NEW removed,
         NEW u \in Users
  PROVE  AgedFrom(copies[u], Aged(copies, changed, removed)[u], changed, removed)
<1> DEFINE c == copies[u]
           d == Aged(copies, changed, removed)[u]
<1>1. CASE c = None \/ c.name \notin changed \cup removed
  <2>1. d = c
    BY <1>1 DEF Aged
  <2> QED
    BY <2>1, <1>1 DEF Copy, AgedFrom
<1>2. CASE ~(c = None \/ c.name \notin changed \cup removed)
  <2>1. d = [c EXCEPT !.fresh = FALSE, !.same = @ /\ c.name \notin removed]
    BY <1>2 DEF Aged
  <2>2. c \in Copy
    BY <1>2
  <2>3. d = [name |-> c.name, fresh |-> FALSE, same |-> c.same /\ c.name \notin removed]
    BY <2>1, <2>2 DEF Copy
  <2>4. c.name \in Names /\ (c.same /\ c.name \notin removed) \in BOOLEAN
    BY <2>2 DEF Copy
  <2>5. d \in Copy
    BY <2>3, <2>4 DEF Copy
  <2>6. d # None
    BY <2>5, StorageAssumption
  <2>7. d.name = c.name /\ d.fresh = FALSE /\ d.same = (c.same /\ c.name \notin removed)
    BY <2>3
  <2>8. AgedFrom(c, d, changed, removed)
    <3> HIDE DEF c, d
    <3> QED
      BY <2>5, <2>6, <2>7, <1>2 DEF AgedFrom
  <2> QED
    BY <2>8
<1> QED
  BY <1>1, <1>2

LEMMA AgedTyped ==
  ASSUME NEW copies \in [Users -> Copy \cup {None}], NEW changed, NEW removed
  PROVE  Aged(copies, changed, removed) \in [Users -> Copy \cup {None}]
<1>1. Aged(copies, changed, removed) =
        [u \in Users |-> Aged(copies, changed, removed)[u]]
  BY DEF Aged
<1>2. \A u \in Users : Aged(copies, changed, removed)[u] \in Copy \cup {None}
  BY AgedCopy DEF AgedFrom
<1> QED
  BY <1>1, <1>2

\* Others stay sound through a write that leaves alone what it does not name.
LEMMA SoundThroughWrite ==
  ASSUME Inv, NEW u \in Users, NEW changed, NEW removed, NEW objects,
         \A n \in Names \ (changed \cup removed) : objects[n] = object[n],
         \A n \in Names \ removed : object[n] # None => objects[n] # None
  PROVE  Sound(u, request[u], Aged(copy, changed, removed)[u],
               Aged(checked, changed, removed)[u], objects)
<1> DEFINE c == copy[u]
           k == checked[u]
           d == Aged(copy, changed, removed)[u]
           l == Aged(checked, changed, removed)[u]
<1>1. Sound(u, request[u], c, k, object)
  BY DEF Inv
<1>2. AgedFrom(c, d, changed, removed)
  BY AgedCopy DEF Inv, Typed
<1>3. AgedFrom(k, l, changed, removed)
  BY AgedCopy DEF Inv, Typed
<1>4. (c # None => c.name \in Names) /\ (k # None => k.name \in Names)
  BY <1>1 DEF Sound, Copy
<1> HIDE DEF c, k, d, l
<1>5. Truthful(d, objects)
  BY <1>1, <1>2, <1>4 DEF Sound, Truthful, AgedFrom
<1>6. Truthful(l, objects)
  BY <1>1, <1>3, <1>4 DEF Sound, Truthful, AgedFrom
<1>7. (request[u] \in {"put", "patch"} /\ l.fresh) => u \in objects[l.name].owners
  BY <1>1, <1>3, <1>4 DEF Sound, AgedFrom
<1>8. request[u] \in {"put", "deletePinned"} =>
        d # None /\ d.name = l.name /\ (d.fresh => l.fresh) /\ (d.same => l.same)
  BY <1>1, <1>2, <1>3 DEF Sound, AgedFrom
<1> QED
  BY <1>1, <1>2, <1>3, <1>5, <1>6, <1>7, <1>8 DEF Sound, AgedFrom, c, k, d, l

----------------------------------------------------------------------------
(* The steps. *)

\* A step is sound for everybody if it is for its caller and for the others.
LEMMA Callers ==
  ASSUME Typed', NEW u \in Users,
         Sound(u, request'[u], copy'[u], checked'[u], object'),
         \A v \in Users \ {u} : Sound(v, request'[v], copy'[v], checked'[v], object')
  PROVE  Inv'
BY DEF Inv

\* A request of one step that lets its caller u keep what it had or read an object.
LEMMA ReadStep ==
  ASSUME Inv, NEW u \in Users, NEW n \in Names, NEW ok \in BOOLEAN, NEW c,
         request[u] = "none", Answer(u, ok),
         c = copy[u] \/ (c = Fresh(n) /\ object[n] # None),
         copy' = [copy EXCEPT ![u] = c], UNCHANGED <<object, checked>>
  PROVE  Inv'
<1>1. Sound(u, "none", copy[u], checked[u], object)
  BY DEF Inv
<1>2. c \in Copy \cup {None} /\ Truthful(c, object)
  BY <1>1, FreshCopy DEF Sound, Truthful
<1>3. Typed'
  BY <1>2 DEF Inv, Typed, Answer, Requests
<1>4. copy'[u] = c /\ request'[u] = "none" /\ checked' = checked /\ object' = object
  BY DEF Inv, Typed, Answer
<1>5. Sound(u, "none", c, checked[u], object)
  BY <1>1, <1>2 DEF Sound
<1>6. \A v \in Users \ {u} : copy'[v] = copy[v] /\ request'[v] = request[v]
  BY DEF Inv, Typed, Answer
<1>7. \A v \in Users \ {u} : Sound(v, request'[v], copy'[v], checked'[v], object')
  BY <1>4, <1>6 DEF Inv
<1> QED
  BY <1>3, <1>4, <1>5, <1>7, Callers

\* A request that is checked on the object n, which its caller u owns if it passes.
LEMMA CheckStep ==
  ASSUME Inv, NEW u \in Users, NEW n \in Names, NEW passes \in BOOLEAN,
         NEW next \in {"put", "patch", "delete", "deletePinned"},
         Check(u, n, passes, next),
         passes => object[n] # None /\ u \in object[n].owners,
         next \in {"put", "deletePinned"} => copy[u] # None /\ copy[u].name = n
  PROVE  Inv'
<1> DEFINE k == IF passes THEN Fresh(n) ELSE None
           r == IF passes THEN next ELSE "none"
<1>1. Sound(u, request[u], copy[u], checked[u], object)
  BY DEF Inv
<1>2. k \in Copy \cup {None} /\ r \in Requests
  BY FreshCopy DEF Requests
<1>3. Typed'
  <2>1. request' = [request EXCEPT ![u] = r] /\ checked' = [checked EXCEPT ![u] = k]
    BY DEF Check
  <2> HIDE DEF k, r
  <2> QED
    BY <1>2, <2>1 DEF Inv, Typed, Check
<1>4. checked'[u] = k /\ request'[u] = r /\ copy' = copy /\ object' = object
  BY DEF Inv, Typed, Check
<1>5. Sound(u, r, copy[u], k, object)
  <2>1. CASE passes
    <3>1. k = Fresh(n) /\ r = next
      BY <2>1
    <3>2. k # None /\ k.name = n /\ k.fresh /\ k.same /\ next \in Requests
      BY <3>1, FreshCopy DEF Requests
    <3>3. Truthful(k, object)
      BY <2>1, <3>2 DEF Truthful
    <3> HIDE DEF k, r
    <3> QED
      BY <1>1, <1>2, <2>1, <3>1, <3>2, <3>3 DEF Sound
  <2>2. CASE ~passes
    <3>1. k = None /\ r = "none"
      BY <2>2
    <3> QED
      BY <1>1, <3>1 DEF Sound, Truthful, Requests
  <2> QED
    BY <2>1, <2>2
<1>6. \A v \in Users \ {u} : checked'[v] = checked[v] /\ request'[v] = request[v]
  BY DEF Inv, Typed, Check
<1>7. \A v \in Users \ {u} : Sound(v, request'[v], copy'[v], checked'[v], object')
  BY <1>4, <1>6 DEF Inv
<1> HIDE DEF k, r
<1> QED
  BY <1>3, <1>4, <1>5, <1>7, Callers

\* A request of u that ends without an effect.
LEMMA RefusedStep ==
  ASSUME Inv, NEW u \in Users, Answer(u, FALSE),
         checked' = [checked EXCEPT ![u] = None], UNCHANGED <<object, copy>>
  PROVE  Inv'
<1>1. Sound(u, request[u], copy[u], checked[u], object)
  BY DEF Inv
<1>2. Typed'
  BY DEF Inv, Typed, Answer, Requests
<1>3. checked'[u] = None /\ request'[u] = "none" /\ copy' = copy /\ object' = object
  BY DEF Inv, Typed, Answer
<1>4. Sound(u, "none", copy[u], None, object)
  BY <1>1 DEF Sound, Truthful, Requests
<1>5. \A v \in Users \ {u} : checked'[v] = checked[v] /\ request'[v] = request[v]
  BY DEF Inv, Typed, Answer
<1>6. \A v \in Users \ {u} : Sound(v, request'[v], copy'[v], checked'[v], object')
  BY <1>3, <1>5 DEF Inv
<1> QED
  BY <1>2, <1>3, <1>4, <1>6, Callers

\* The object n is created, and u gets it back.
LEMMA CreateStep ==
  ASSUME Inv, NEW u \in Users, NEW n \in Names, NEW owners \in SUBSET Users \ {{}},
         Create(u, n, owners)
  PROVE  Inv'
<1>1. CASE Answer(u, FALSE) /\ UNCHANGED <<object, copy>>
  <2>1. copy' = [copy EXCEPT ![u] = copy[u]]
    BY <1>1 DEF Inv, Typed
  <2> QED
    BY <1>1, <2>1, ReadStep DEF Create
<1>2. CASE /\ object[n] = None /\ Answer(u, TRUE)
           /\ object' = [object EXCEPT ![n] = [owners |-> owners, members |-> {}]]
           /\ copy' = [copy EXCEPT ![u] = Fresh(n)]
  <2> DEFINE new == [owners |-> owners, members |-> {}]
  <2>1. new \in Object /\ new # None
    BY StorageAssumption DEF Object
  <2>2. object' = [object EXCEPT ![n] = new] /\ checked' = checked /\ request[u] = "none"
    BY <1>2 DEF Create
  <2> HIDE DEF new
  <2>3. /\ \A m \in Names \ {n} : object'[m] = object[m]
        /\ \A m \in Names : object[m] # None => object'[m] # None
        /\ object'[n] # None
    BY <2>1, <2>2, <1>2 DEF Inv, Typed
  <2>4. Typed'
    BY <1>2, <2>1, <2>2, FreshCopy DEF Inv, Typed, Answer, Requests
  <2>5. /\ copy'[u] = Fresh(n) /\ request'[u] = "none"
        /\ \A v \in Users \ {u} : copy'[v] = copy[v] /\ request'[v] = request[v]
    BY <1>2 DEF Inv, Typed, Answer
  <2>6. \A v \in Users : Sound(v, request[v], copy[v], checked[v], object')
    <3>1. SUFFICES ASSUME NEW v \in Users
                   PROVE  Sound(v, request[v], copy[v], checked[v], object')
      OBVIOUS
    <3>2. Sound(v, request[v], copy[v], checked[v], object)
      BY DEF Inv
    <3>3. /\ copy[v] # None => copy[v].name \in Names
          /\ checked[v] # None => checked[v].name \in Names
      BY <3>2 DEF Sound, Copy
    <3> QED
      BY <3>2, <3>3, <2>3, <1>2 DEF Sound, Truthful, Requests
  <2>7. Sound(u, "none", Fresh(n), checked[u], object')
    BY <2>6, <2>5, <2>2, <2>3, FreshCopy DEF Sound, Truthful
  <2> QED
    BY <2>2, <2>4, <2>5, <2>6, <2>7, Callers
<1> QED
  BY <1>1, <1>2 DEF Create

\* u writes the object n, which it had checked.
LEMMA UpdateStep ==
  ASSUME Inv, NEW u \in Users, UpdateObject(u)
  PROVE  Inv'
<1> DEFINE n == checked[u].name
<1>1. Sound(u, request[u], copy[u], checked[u], object) /\ request[u] \in {"put", "patch"}
  BY DEF Inv, UpdateObject
<1>2. n \in Names
  BY <1>1 DEF Sound, Copy
<1>3. CASE ~Accepts(u)
  BY <1>3, RefusedStep DEF UpdateObject
<1>4. CASE Accepts(u)
  <2>1. object[n] # None
    BY <1>1, <1>4 DEF Sound, Truthful, Accepts
  <2>2. PICK owners \in SUBSET Users \ {{}} :
          object' = [object EXCEPT ![n].owners = owners]
    BY <1>4 DEF UpdateObject
  <2>3. /\ copy' = [Aged(copy, {n}, {}) EXCEPT ![u] = Fresh(n)]
        /\ checked' = [Aged(checked, {n}, {}) EXCEPT ![u] = None]
        /\ Answer(u, TRUE)
    BY <1>4 DEF UpdateObject
  <2> HIDE DEF n
  <2>4. [object[n] EXCEPT !.owners = owners] \in Object
    <3>1. object[n] \in Object
      BY <1>2, <2>1 DEF Inv, Typed
    <3> QED
      BY <3>1 DEF Object
  <2>5. object' = [object EXCEPT ![n] = [object[n] EXCEPT !.owners = owners]]
    BY <2>2, <1>2 DEF Inv, Typed
  <2> DEFINE new == [object[n] EXCEPT !.owners = owners]
  <2> HIDE DEF new
  <2>6. object' = [object EXCEPT ![n] = new] /\ new \in Object /\ new # None
    BY <2>4, <2>5, StorageAssumption DEF new
  <2>7. /\ \A m \in Names \ {n} : object'[m] = object[m]
        /\ \A m \in Names : object[m] # None => object'[m] # None
        /\ object'[n] # None
    BY <2>6, <1>2 DEF Inv, Typed
  <2>8. /\ Aged(copy, {n}, {}) \in [Users -> Copy \cup {None}]
        /\ Aged(checked, {n}, {}) \in [Users -> Copy \cup {None}]
    BY AgedTyped DEF Inv, Typed
  <2>9. Typed'
    BY <2>3, <2>6, <2>8, <1>2, FreshCopy DEF Inv, Typed, Answer, Requests
  <2>10. copy'[u] = Fresh(n) /\ checked'[u] = None /\ request'[u] = "none"
    BY <2>3, <2>8 DEF Inv, Typed, Answer
  <2>11. Sound(u, "none", Fresh(n), None, object')
    BY <2>7, <1>2, FreshCopy DEF Sound, Truthful, Requests
  <2>12. ASSUME NEW v \in Users \ {u}
         PROVE  Sound(v, request'[v], copy'[v], checked'[v], object')
    <3>1. /\ copy'[v] = Aged(copy, {n}, {})[v] /\ checked'[v] = Aged(checked, {n}, {})[v]
          /\ request'[v] = request[v]
      BY <2>3, <2>8 DEF Inv, Typed, Answer
    <3>2. Sound(v, request[v], Aged(copy, {n}, {})[v], Aged(checked, {n}, {})[v], object')
      BY <2>7, SoundThroughWrite
    <3> QED
      BY <3>1, <3>2
  <2> QED
    BY <2>9, <2>10, <2>11, <2>12, Callers
<1> QED
  BY <1>3, <1>4

\* u deletes objects; those without finalizers are removed.
LEMMA DeleteStep ==
  ASSUME Inv, NEW u \in Users, NEW names \in SUBSET Names, NEW removed,
         DeleteObjects(u, names, removed)
  PROVE  Inv'
<1>1. /\ \A n \in Names \ (names \cup removed) : object'[n] = object[n]
      /\ \A n \in Names \ removed : object[n] # None => object'[n] # None
  BY DEF DeleteObjects
<1>2. /\ copy' = Aged(copy, names, removed)
      /\ checked' = [Aged(checked, names, removed) EXCEPT ![u] = None]
      /\ Answer(u, TRUE)
  BY DEF DeleteObjects
<1>3. /\ Aged(copy, names, removed) \in [Users -> Copy \cup {None}]
      /\ Aged(checked, names, removed) \in [Users -> Copy \cup {None}]
  BY AgedTyped DEF Inv, Typed
<1>4. object' \in [Names -> Object \cup {None}]
  BY DEF DeleteObjects, Inv, Typed
<1>5. Typed'
  BY <1>2, <1>3, <1>4 DEF Inv, Typed, Answer, Requests
<1>6. checked'[u] = None /\ request'[u] = "none"
  BY <1>2, <1>3 DEF Inv, Typed, Answer
<1>7. \A v \in Users : Sound(v, request[v], Aged(copy, names, removed)[v],
                             Aged(checked, names, removed)[v], object')
  BY <1>1, SoundThroughWrite
<1>8. Sound(u, "none", copy'[u], None, object')
  BY <1>2, <1>7 DEF Sound, Truthful, Requests
<1>9. ASSUME NEW v \in Users \ {u}
      PROVE  Sound(v, request'[v], copy'[v], checked'[v], object')
  <2>1. checked'[v] = Aged(checked, names, removed)[v] /\ request'[v] = request[v]
    BY <1>2, <1>3 DEF Inv, Typed, Answer
  <2> QED
    BY <2>1, <1>2, <1>7
<1> QED
  BY <1>5, <1>6, <1>8, <1>9, Callers

\* Somebody else writes or removes the object n.
LEMMA DirectStep ==
  ASSUME Inv, NEW n \in Names, NEW obj \in Object \cup {None}, WriteDirectly(n, obj)
  PROVE  Inv'
<1> DEFINE removed == {m \in {n} : obj = None}
<1>1. /\ object' = [object EXCEPT ![n] = obj] /\ UNCHANGED <<request, accepted>>
      /\ copy' = Aged(copy, {n}, removed) /\ checked' = Aged(checked, {n}, removed)
  BY DEF WriteDirectly
<1>2. /\ \A m \in Names \ ({n} \cup removed) : object'[m] = object[m]
      /\ \A m \in Names \ removed : object[m] # None => object'[m] # None
  BY <1>1 DEF Inv, Typed
<1> HIDE DEF removed
<1>3. Typed'
  BY <1>1, AgedTyped DEF Inv, Typed
<1>4. \A v \in Users : Sound(v, request[v], Aged(copy, {n}, removed)[v],
                             Aged(checked, {n}, removed)[v], object')
  BY <1>2, SoundThroughWrite
<1> QED
  BY <1>1, <1>3, <1>4 DEF Inv

----------------------------------------------------------------------------
(* The invariant. *)

LEMMA Initially == Init => Inv
<1>1. SUFFICES ASSUME Init PROVE Inv
  OBVIOUS
<1>2. Typed
  BY <1>1 DEF Init, Typed, Requests
<1>3. \A u \in Users : copy[u] = None /\ checked[u] = None /\ request[u] = "none"
  BY <1>1 DEF Init
<1> QED
  BY <1>2, <1>3 DEF Inv, Sound, Truthful, Requests

LEMMA NextStep == ASSUME Inv, Next PROVE Inv'
<1>1. CASE \E u \in Users, n \in Names : Get(u, n)
  <2>1. PICK u \in Users, n \in Names : Get(u, n)
    BY <1>1
  <2>2. Membership(u, n) \in BOOLEAN /\ (Membership(u, n) => object[n] # None)
    BY DEF Membership, IsMember
  <2> QED
    BY <2>1, <2>2, ReadStep DEF Get
<1>2. CASE \E u \in Users : List(u)
  <2>1. PICK u \in Users : List(u)
    BY <1>2
  <2>2. PICK c \in {copy[u]} \cup {Fresh(n) : n \in {m \in Names : Membership(u, m)}} :
          copy' = [copy EXCEPT ![u] = c]
    BY <2>1 DEF List
  <2>3. CASE \E n \in Names : c = Fresh(n) /\ Membership(u, n)
    <3>1. PICK n \in Names : c = Fresh(n) /\ Membership(u, n)
      BY <2>3
    <3>2. object[n] # None
      BY <3>1 DEF Membership
    <3> QED
      BY <2>1, <2>2, <3>1, <3>2, ReadStep DEF List
  <2>4. CASE c = copy[u]
    <3>1. Answer(u, TRUE) /\ request[u] = "none" /\ UNCHANGED <<object, checked>>
      BY <2>1 DEF List
    <3>2. copy' = copy
      BY <2>2, <2>4 DEF Inv, Typed
    <3>3. Typed'
      BY <3>1, <3>2 DEF Inv, Typed, Answer, Requests
    <3>4. \A v \in Users : request'[v] = request[v]
      BY <3>1 DEF Inv, Typed, Answer
    <3> QED
      BY <3>1, <3>2, <3>3, <3>4 DEF Inv
  <2> QED
    BY <2>2, <2>3, <2>4
<1>3. CASE \E u \in Users, n \in Names, owners \in SUBSET Users \ {{}} : Create(u, n, owners)
  BY <1>3, CreateStep
<1>4. CASE \E u \in Users, n \in Names : CheckPatch(u, n) \/ CheckDelete(u, n)
  <2>1. PICK u \in Users, n \in Names : CheckPatch(u, n) \/ CheckDelete(u, n)
    BY <1>4
  <2>2. /\ Ownership(u, n) \in BOOLEAN
        /\ Ownership(u, n) => object[n] # None /\ u \in object[n].owners
    BY DEF Ownership, Membership
  <2> QED
    BY <2>1, <2>2, CheckStep DEF CheckPatch, CheckDelete
<1>5. CASE \E u \in Users : CheckPut(u) \/ CheckDeletePinned(u)
  <2>1. PICK u \in Users : CheckPut(u) \/ CheckDeletePinned(u)
    BY <1>5
  <2> DEFINE n == copy[u].name
  <2>2. copy[u] # None /\ n \in Names
    BY <2>1 DEF CheckPut, CheckDeletePinned, Inv, Typed, Copy
  <2>3. /\ Ownership(u, n) \in BOOLEAN /\ (copy[u].same /\ Ownership(u, n)) \in BOOLEAN
        /\ Ownership(u, n) => object[n] # None /\ u \in object[n].owners
    BY DEF Ownership, Membership
  <2>4. \/ Check(u, n, copy[u].same /\ Ownership(u, n), "put")
        \/ Check(u, n, Ownership(u, n), "deletePinned")
    BY <2>1 DEF CheckPut, CheckDeletePinned
  <2>5. copy[u].name = n
    OBVIOUS
  <2> HIDE DEF n
  <2> QED
    BY <2>2, <2>3, <2>4, <2>5, CheckStep
<1>6. CASE \E u \in Users : UpdateObject(u)
  BY <1>6, UpdateStep
<1>7. CASE \E u \in Users : DeleteObject(u)
  <2>1. PICK u \in Users : DeleteObject(u)
    BY <1>7
  <2>2. checked[u].name \in Names
    BY <2>1 DEF DeleteObject, Inv, Sound, Copy
  <2> QED
    BY <2>1, <2>2, RefusedStep, DeleteStep DEF DeleteObject
<1>8. CASE \E u \in Users : CheckDeleteCollection(u)
  <2>1. PICK u \in Users : CheckDeleteCollection(u)
    BY <1>8
  <2>2. Sound(u, "none", copy[u], checked[u], object)
    BY <2>1 DEF Inv, CheckDeleteCollection
  <2>3. request'[u] \in {"none", "deleteCollection"}
    BY <2>1 DEF CheckDeleteCollection, Inv, Typed
  <2>4. Sound(u, request'[u], copy[u], checked[u], object)
    BY <2>2, <2>3 DEF Sound, Requests
  <2>5. Typed'
    BY <2>1 DEF CheckDeleteCollection, Inv, Typed, Requests
  <2>6. /\ \A v \in Users \ {u} : request'[v] = request[v]
        /\ object' = object /\ copy' = copy /\ checked' = checked
    BY <2>1 DEF CheckDeleteCollection, Inv, Typed
  <2>7. \A v \in Users \ {u} : Sound(v, request'[v], copy'[v], checked'[v], object')
    BY <2>6 DEF Inv
  <2> QED
    BY <2>4, <2>5, <2>6, <2>7, Callers
<1>9. CASE \E u \in Users : DeleteCollection(u)
  BY <1>9, DeleteStep DEF DeleteCollection, Present
<1>10. CASE \E n \in Names : UpdateMembers(n) \/ ChangeOwners(n) \/ RemoveObject(n)
  <2>1. PICK n \in Names : UpdateMembers(n) \/ ChangeOwners(n) \/ RemoveObject(n)
    BY <1>10
  <2>2. object[n] \in Object
    BY <2>1 DEF UpdateMembers, ChangeOwners, RemoveObject, Inv, Typed
  <2>3. /\ \A owners \in SUBSET Users \ {{}} : [object[n] EXCEPT !.owners = owners] \in Object
        /\ \A members \in SUBSET Users : [object[n] EXCEPT !.members = members] \in Object
    BY <2>2 DEF Object
  <2> QED
    BY <2>1, <2>3, DirectStep DEF UpdateMembers, ChangeOwners, RemoveObject
<1> QED
  BY <1>1, <1>2, <1>3, <1>4, <1>5, <1>6, <1>7, <1>8, <1>9, <1>10 DEF Next

LEMMA Stutter == ASSUME Inv, UNCHANGED vars PROVE Inv'
BY DEF Inv, Typed, vars

LEMMA Invariant == Spec => []Inv
<1>1. Init => Inv
  BY Initially
<1>2. Inv /\ [Next]_vars => Inv'
  BY NextStep, Stutter
<1> QED
  BY <1>1, <1>2, PTL DEF Spec

----------------------------------------------------------------------------
(* The theorems. *)

\* In every state that is reached, a checked copy exists exactly while a request
\* needs one, and a copy that is the latest or of the stored object says so truly.
THEOREM TypeCorrect == Spec => []TypeOK
<1>1. ASSUME Inv PROVE TypeOK
  <2>1. ASSUME NEW u \in Users
        PROVE  /\ (checked[u] = None) = (request[u] \in {"none", "deleteCollection"})
               /\ \A c \in {copy[u], checked[u]} \ {None} :
                    (c.fresh => c.same) /\ (c.same => object[c.name] # None)
    BY <1>1 DEF Inv, Sound, Truthful
  <2> QED
    BY <1>1, <2>1 DEF TypeOK, Inv, Typed
<1> QED
  BY <1>1, Invariant, PTL

\* A request ends in its own step only.
LEMMA RequestEnds ==
  ASSUME Inv, NEW u \in Users, Next \/ UNCHANGED vars,
         request[u] # "none", request'[u] # request[u]
  PROVE  UpdateObject(u) \/ DeleteObject(u) \/ DeleteCollection(u)
<1>1. Next /\ request \in [Users -> Requests]
  BY DEF vars, Inv, Typed
<1>2. ASSUME NEW v \in Users,
             \/ \E n \in Names : Get(v, n) \/ CheckPatch(v, n) \/ CheckDelete(v, n)
             \/ \E n \in Names, owners \in SUBSET Users \ {{}} : Create(v, n, owners)
             \/ List(v) \/ CheckPut(v) \/ CheckDeletePinned(v) \/ CheckDeleteCollection(v)
      PROVE  request'[u] = request[u]
  BY <1>1, <1>2 DEF Get, CheckPatch, CheckDelete, Create, List, CheckPut,
                    CheckDeletePinned, CheckDeleteCollection, Check, Answer
<1>3. ASSUME NEW v \in Users \ {u},
             UpdateObject(v) \/ DeleteObject(v) \/ DeleteCollection(v)
      PROVE  request'[u] = request[u]
  BY <1>1, <1>3 DEF UpdateObject, DeleteObject, DeleteCollection, DeleteObjects, Answer
<1>4. ASSUME NEW n \in Names, UpdateMembers(n) \/ ChangeOwners(n) \/ RemoveObject(n)
      PROVE  request'[u] = request[u]
  BY <1>4 DEF UpdateMembers, ChangeOwners, RemoveObject, WriteDirectly
<1> QED
  BY <1>1, <1>2, <1>3, <1>4 DEF Next

\* An update that is accepted replaces a version that its caller owned: the check
\* before it was of this version, however many requests came in between.
THEOREM UpdatesAreChecked == Spec => UpdatesWhatItChecked
<1>1. ASSUME Inv, [Next]_vars
      PROVE  [\A u \in Users : Accepted(u, {"put", "patch"}) =>
                /\ checked[u].same
                /\ u \in object[checked[u].name].owners]_vars
  <2>1. ASSUME NEW u \in Users, Accepted(u, {"put", "patch"})
        PROVE  checked[u].same /\ u \in object[checked[u].name].owners
    <3>1. UpdateObject(u)
      BY <1>1, <2>1, RequestEnds
           DEF Accepted, DeleteObject, DeleteCollection
    <3>2. Accepts(u)
      BY <1>1, <2>1, <3>1 DEF UpdateObject, Answer, Accepted, Inv, Typed
    <3>3. Sound(u, request[u], copy[u], checked[u], object)
      BY <1>1 DEF Inv
    <3> QED
      BY <2>1, <3>2, <3>3 DEF Sound, Truthful, Accepts, Accepted
  <2> QED
    BY <2>1
<1> QED
  BY <1>1, Invariant, PTL DEF Spec, UpdatesWhatItChecked

\* A delete that carries the uid its client has seen and is accepted deletes the
\* object that was checked for it.
THEOREM DeletesAreChecked == Spec => DeletesWhatItChecked
<1>1. ASSUME Inv, [Next]_vars
      PROVE  [\A u \in Users : Accepted(u, {"deletePinned"}) => checked[u].same]_vars
  <2>1. ASSUME NEW u \in Users, Accepted(u, {"deletePinned"})
        PROVE  checked[u].same
    <3>1. DeleteObject(u)
      BY <1>1, <2>1, RequestEnds DEF Accepted, UpdateObject, DeleteCollection
    <3>2. MayDelete(u)
      BY <1>1, <2>1, <3>1 DEF DeleteObject, Answer, Accepted, Inv, Typed
    <3>3. Sound(u, request[u], copy[u], checked[u], object)
      BY <1>1 DEF Inv
    <3> QED
      BY <2>1, <3>2, <3>3 DEF Sound, MayDelete, Accepted
  <2> QED
    BY <2>1
<1> QED
  BY <1>1, Invariant, PTL DEF Spec, DeletesWhatItChecked
=============================================================================
