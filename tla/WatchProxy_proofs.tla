-------------------------- MODULE WatchProxy_proofs --------------------------
(***************************************************************************)
(* Proofs about Watch of the extension API server, for any names, contents *)
(* and any bound on the events the upstream watch holds back: a client     *)
(* that watches falls behind, but it misses nothing it may see.            *)
(***************************************************************************)
EXTENDS WatchProxy, SequenceTheorems, TLAPS

----------------------------------------------------------------------------
(* The inductive invariant. *)

IsAbout(event, n) == event.type # "Error" /\ event.name = n

\* An event after which nothing happened to the object tells its present state.
Shows(event, object) ==
  /\ event.object.relation = object.relation
  /\ IF event.type = "Deleted" THEN object.content = Absent
                               ELSE event.object.content = object.content

Visible(object) == object.relation \in {"owner", "member"}

\* No event of n waits to be taken.
Taken(n) == \A i \in DOMAIN upstream : ~IsAbout(upstream[i], n)
InHand(n) == pc = "send" /\ ev.name = n

\* The last event of n that waits shows n; if none waits, the one that the
\* goroutine has in its hands does; if there is none either, the client knows.
LastShows(n) ==
  \A i \in DOMAIN upstream :
    /\ IsAbout(upstream[i], n)
    /\ \A j \in DOMAIN upstream : IsAbout(upstream[j], n) => j <= i
    => Shows(upstream[i], stored[n])
HandShows(n)  == InHand(n) /\ Taken(n) => Shows(ev, stored[n])
ClientKnows(n) ==
  Taken(n) /\ ~InHand(n) /\ Visible(stored[n]) => view[n] = stored[n].content

\* The goroutine goes on and the client receives.
Running == pc \in {"select", "send"} /\ ~stopped

\* Errors are sent last, and what is sent the caller may see.
Sendable == pc = "send" => ev.type # "Error" /\ Visible(ev.object)

Inv ==
  /\ TypeOK /\ Sendable
  /\ Running => \A n \in Names : LastShows(n) /\ HandShows(n) /\ ClientKnows(n)

----------------------------------------------------------------------------
(* The events that wait. *)

\* The upstream watch adds an event.
LEMMA Emitted ==
  ASSUME upstream \in Seq(Event), NEW event \in Event, upstream' = Append(upstream, event),
         NEW n \in Names
  PROVE  /\ ~IsAbout(event, n) => Taken(n)' = Taken(n)
         /\ ~IsAbout(event, n) /\ stored'[n] = stored[n] /\ LastShows(n) => LastShows(n)'
         /\ IsAbout(event, n) => ~Taken(n)'
         /\ IsAbout(event, n) /\ Shows(event, stored'[n]) => LastShows(n)'
<1> DEFINE len == Len(upstream)
<1>1. /\ len \in Nat /\ DOMAIN upstream = 1..len /\ DOMAIN upstream' = 1..(len + 1)
      /\ upstream'[len + 1] = event /\ \A i \in 1..len : upstream'[i] = upstream[i]
  BY AppendProperties, LenProperties
<1> HIDE DEF len
<1>2. /\ DOMAIN upstream' = DOMAIN upstream \cup {len + 1} /\ len + 1 \notin DOMAIN upstream
      /\ \A i \in DOMAIN upstream : i < len + 1 /\ i \in Nat /\ upstream'[i] = upstream[i]
  BY <1>1
<1>3. ~IsAbout(event, n) => Taken(n)' = Taken(n)
  BY <1>1, <1>2 DEF Taken
<1>4. ASSUME ~IsAbout(event, n), stored'[n] = stored[n], LastShows(n) PROVE LastShows(n)'
  BY <1>1, <1>2, <1>4 DEF LastShows
<1>5. IsAbout(event, n) => ~Taken(n)'
  BY <1>1, <1>2 DEF Taken
<1>6. ASSUME IsAbout(event, n), Shows(event, stored'[n]) PROVE LastShows(n)'
  <2>1. \A i \in DOMAIN upstream : ~(len + 1 <= i)
    BY <1>1
  <2>. QED BY <1>1, <1>2, <1>6, <2>1 DEF LastShows
<1>. QED BY <1>3, <1>4, <1>5, <1>6

\* The goroutine takes the first one.
LEMMA TakenOff ==
  ASSUME upstream \in Seq(Event), upstream # <<>>, upstream' = Tail(upstream),
         NEW n \in Names, LastShows(n), stored'[n] = stored[n]
  PROVE  /\ LastShows(n)'
         /\ Taken(n)' /\ IsAbout(Head(upstream), n) => Shows(Head(upstream), stored[n])
         /\ Taken(n)' /\ ~IsAbout(Head(upstream), n) => Taken(n)
<1> DEFINE len == Len(upstream)
<1>1. /\ len \in Nat \ {0} /\ DOMAIN upstream = 1..len /\ DOMAIN upstream' = 1..(len - 1)
      /\ Head(upstream) = upstream[1]
      /\ \A i \in 1..(len - 1) : upstream'[i] = upstream[i + 1]
  BY HeadTailProperties, LenProperties, EmptySeq
<1> HIDE DEF len
<1>2. \A i \in DOMAIN upstream : i = 1 \/ (i - 1 \in DOMAIN upstream' /\ upstream[i] = upstream'[i - 1])
  BY <1>1
<1>3. LastShows(n)'
  <2>. SUFFICES ASSUME NEW i \in DOMAIN upstream', IsAbout(upstream'[i], n),
                       \A j \in DOMAIN upstream' : IsAbout(upstream'[j], n) => j <= i
                PROVE  Shows(upstream'[i], stored'[n])
    BY DEF LastShows
  <2>1. i + 1 \in DOMAIN upstream /\ upstream[i + 1] = upstream'[i]
    BY <1>1
  <2>2. ASSUME NEW j \in DOMAIN upstream, IsAbout(upstream[j], n) PROVE j <= i + 1
    <3>1. CASE j = 1
      BY <1>1, <3>1
    <3>2. CASE j # 1
      <4>1. j - 1 \in DOMAIN upstream' /\ IsAbout(upstream'[j - 1], n)
        BY <1>2, <2>2, <3>2
      <4>2. j - 1 <= i
        BY <4>1
      <4>. QED BY <1>1, <4>2
    <3>. QED BY <3>1, <3>2
  <2>. QED BY <2>1, <2>2 DEF LastShows
<1>4. ASSUME Taken(n)', IsAbout(Head(upstream), n) PROVE Shows(Head(upstream), stored[n])
  <2>1. \A j \in DOMAIN upstream : IsAbout(upstream[j], n) => j = 1
    BY <1>2, <1>4 DEF Taken
  <2>2. 1 \in DOMAIN upstream /\ 1 <= 1
    BY <1>1
  <2>. QED BY <1>1, <1>4, <2>1, <2>2 DEF LastShows
<1>5. ASSUME Taken(n)', ~IsAbout(Head(upstream), n) PROVE Taken(n)
  BY <1>1, <1>2, <1>5 DEF Taken
<1>. QED BY <1>3, <1>4, <1>5

----------------------------------------------------------------------------
(* Types. *)

LEMMA NextTypes == TypeOK /\ Sendable /\ [Next]_vars => TypeOK'
<1>. SUFFICES ASSUME TypeOK, Sendable, [Next]_vars PROVE TypeOK'
  OBVIOUS
<1>. USE DEF upstreamVars, clientVars
<1>a. Len(upstream) \in Nat /\ MaxBacklog \in Nat
  BY LenProperties, WatchAssumption DEF TypeOK
<1>b. NoEvent \notin Event /\ [type |-> "Error"] \in Event
  BY DEF NoEvent, Event
\* The upstream watch reports.
<1>c. ASSUME NEW event \in Event, Emit(event)
      PROVE  upstream' \in Seq(Event) /\ Len(upstream') <= MaxBacklog
  <2>1. upstream' = Append(upstream, event) /\ Len(upstream) < MaxBacklog
    BY <1>c DEF Emit
  <2>. QED BY <1>a, <2>1, AppendProperties DEF TypeOK
<1>1. ASSUME NEW n \in Names, ChangeObject(n) PROVE TypeOK'
  <2>1. PICK new \in Object :
          /\ stored' = [stored EXCEPT ![n] = new]
          /\ Emit(CASE stored[n].content = Absent -> [type |-> "Added", name |-> n, object |-> new]
                    [] new.content = Absent -> [type |-> "Deleted", name |-> n, object |-> stored[n]]
                    [] OTHER -> [type |-> "Modified", name |-> n, object |-> new])
    BY <1>1 DEF ChangeObject
  <2>2. stored[n] \in Object
    BY DEF TypeOK
  <2>3. upstream' \in Seq(Event) /\ Len(upstream') <= MaxBacklog
    BY <1>c, <2>1, <2>2 DEF Event
  <2>. QED BY <1>1, <2>1, <2>3 DEF ChangeObject, TypeOK
<1>2. CASE FailUpstream
  BY <1>2, <1>b, <1>c DEF FailUpstream, TypeOK
<1>3. CASE CloseUpstream
  BY <1>3 DEF CloseUpstream, TypeOK
<1>4. CASE TakeStop
  BY <1>4 DEF TakeStop, TypeOK
<1>5. CASE TakeEvent
  <2>1. CASE TakeClosed
    BY <1>5, <2>1 DEF TakeEvent, TakeClosed, TypeOK
  <2>2. CASE upstream # <<>> /\ upstream' = Tail(upstream)
    <3>1. /\ Head(upstream) \in Event /\ upstream' \in Seq(Event)
          /\ Len(upstream') <= MaxBacklog
      BY <1>a, <2>2, HeadTailProperties, LenProperties DEF TypeOK
    <3>2. ev' \in IF pc' \in {"send", "sendLast"} THEN Event ELSE {NoEvent}
      BY <1>5, <1>b, <2>2, <3>1 DEF TakeEvent, TakeClosed, TypeOK
    <3>3. pc' \in {"select", "send", "sendLast", "closeResult"}
      BY <1>5, <2>2 DEF TakeEvent, TakeClosed
    <3>. QED BY <1>5, <3>1, <3>2, <3>3 DEF TakeEvent, TypeOK
  <2>. QED BY <1>5, <2>1, <2>2 DEF TakeEvent
<1>6. CASE Send
  <2>1. pc = "send" => ev.name \in Names /\ ev.object.content \in Contents \cup {Absent}
    BY DEF TypeOK, Sendable, Event, Object
  <2>2. view' \in [Names -> Contents \cup {Absent}]
    BY <1>6, <2>1 DEF Send, Applied, TypeOK
  <2>. QED BY <1>6, <2>2 DEF Send, TypeOK
<1>7. CASE CloseResult \/ StopUpstream
  BY <1>7 DEF CloseResult, StopUpstream, TypeOK
<1>8. CASE Stop
  BY <1>8 DEF Stop, TypeOK
<1>9. CASE UNCHANGED vars
  BY <1>9 DEF vars, TypeOK
<1>. QED BY <1>1, <1>2, <1>3, <1>4, <1>5, <1>6, <1>7, <1>8, <1>9 DEF Next

LEMMA NextSendable == TypeOK /\ Sendable /\ [Next]_vars => Sendable'
<1>. SUFFICES ASSUME Sendable, [Next]_vars PROVE Sendable'
  OBVIOUS
<1>. USE DEF upstreamVars, clientVars
<1>1. CASE TakeEvent
  BY <1>1 DEF TakeEvent, TakeClosed, IsMember, Visible, Sendable
<1>2. CASE TakeStop \/ Send \/ CloseResult \/ StopUpstream
  BY <1>2 DEF TakeStop, Send, CloseResult, StopUpstream, Sendable
<1>3. CASE pc' = pc /\ ev' = ev
  BY <1>3 DEF Sendable
<1>4. CASE \/ \E n \in Names : ChangeObject(n)
           \/ FailUpstream \/ CloseUpstream \/ Stop \/ UNCHANGED vars
  BY <1>3, <1>4 DEF ChangeObject, FailUpstream, CloseUpstream, Stop, vars
<1>. QED BY <1>1, <1>2, <1>4 DEF Next

----------------------------------------------------------------------------
(* What a running watch knows. *)

Follows(n) == LastShows(n) /\ HandShows(n) /\ ClientKnows(n)

LEMMA NextFollows ==
  ASSUME Inv, [Next]_vars, Running', NEW n \in Names
  PROVE  Follows(n)'
<1>. USE DEF upstreamVars, clientVars
<1>a. Running
  <2>1. ASSUME NEW m \in Names, ChangeObject(m) PROVE Running
    BY <2>1 DEF Running, ChangeObject
  <2>2. CASE FailUpstream \/ CloseUpstream \/ UNCHANGED vars
    BY <2>2 DEF Running, FailUpstream, CloseUpstream, vars
  <2>3. CASE Stop
    BY <2>3 DEF Running, Stop
  <2>4. CASE TakeStop \/ TakeEvent \/ Send \/ CloseResult \/ StopUpstream
    BY <2>4 DEF Running, TakeStop, TakeEvent, TakeClosed, Send, CloseResult, StopUpstream
  <2>. QED BY <2>1, <2>2, <2>3, <2>4 DEF Next
<1>b. Follows(n) /\ TypeOK /\ upstream \in Seq(Event)
  BY <1>a DEF Inv, Follows, TypeOK
<1>1. ASSUME NEW m \in Names, ChangeObject(m) PROVE Follows(n)'
  <2>1. PICK new \in Object :
          /\ new # stored[m]
          /\ new.content = Absent => /\ stored[m].content # Absent
                                     /\ new.relation = stored[m].relation
          /\ stored' = [stored EXCEPT ![m] = new]
          /\ Emit(CASE stored[m].content = Absent -> [type |-> "Added", name |-> m, object |-> new]
                    [] new.content = Absent -> [type |-> "Deleted", name |-> m, object |-> stored[m]]
                    [] OTHER -> [type |-> "Modified", name |-> m, object |-> new])
    BY <1>1 DEF ChangeObject
  <2>2. stored[m] \in Object /\ stored'[m] = new
    BY <1>b, <2>1 DEF TypeOK
  <2>3. PICK event \in Event :
          Emit(event) /\ event.type # "Error" /\ event.name = m /\ Shows(event, new)
    BY <2>1, <2>2 DEF Event, Shows
  <2>4. upstream' = Append(upstream, event)
    BY <2>3 DEF Emit
  <2>5. pc' = pc /\ ev' = ev /\ view' = view
    BY <1>1 DEF ChangeObject
  <2>6. CASE n = m
    BY <1>b, <2>2, <2>3, <2>4, <2>6, Emitted DEF Follows, HandShows, ClientKnows, IsAbout
  <2>7. CASE n # m
    <3>1. stored'[n] = stored[n]
      BY <1>b, <2>1, <2>7 DEF TypeOK
    <3>2. LastShows(n)' /\ Taken(n)' = Taken(n)
      BY <1>b, <2>3, <2>4, <2>7, <3>1, Emitted DEF Follows, IsAbout
    <3>. QED BY <1>b, <2>5, <3>1, <3>2 DEF Follows, HandShows, ClientKnows, InHand
  <2>. QED BY <2>6, <2>7
<1>2. CASE FailUpstream
  <2> DEFINE event == [type |-> "Error"]
  <2>1. event \in Event /\ ~IsAbout(event, n)
    BY DEF Event, IsAbout
  <2>2. upstream' = Append(upstream, event)
    BY <1>2 DEF FailUpstream, Emit
  <2>3. stored' = stored /\ pc' = pc /\ ev' = ev /\ view' = view
    BY <1>2 DEF FailUpstream
  <2> HIDE DEF event
  <2>4. LastShows(n)' /\ Taken(n)' = Taken(n)
    BY <1>b, <2>1, <2>2, <2>3, Emitted DEF Follows
  <2>. QED BY <1>b, <2>3, <2>4 DEF Follows, HandShows, ClientKnows, InHand
<1>3. CASE TakeEvent
  <2>1. /\ pc = "select" /\ upstream # <<>> /\ upstream' = Tail(upstream)
        /\ stored' = stored /\ view' = view
    BY <1>3 DEF TakeEvent, TakeClosed, Running
  <2> DEFINE event == Head(upstream)
  <2>2. event \in Event /\ ~InHand(n)
    BY <1>b, <2>1, HeadTailProperties DEF InHand
  <2>3. /\ LastShows(n)'
        /\ Taken(n)' /\ IsAbout(event, n) => Shows(event, stored[n])
        /\ Taken(n)' /\ ~IsAbout(event, n) => Taken(n)
    BY <1>b, <2>1, TakenOff DEF Follows
  <2>4. \/ pc' = "send" /\ ev' = event /\ event.type # "Error"
        \/ pc' = "select" /\ (event.type = "Error" \/ ~Visible(event.object))
    BY <1>3, <2>1 DEF TakeEvent, TakeClosed, Running, IsMember, Visible
  <2> HIDE DEF event
  <2>5. CASE IsAbout(event, n)
    BY <2>1, <2>3, <2>4, <2>5
       DEF Follows, HandShows, ClientKnows, InHand, IsAbout, Shows, Visible
  <2>6. CASE ~IsAbout(event, n)
    <3>1. ~InHand(n)'
      BY <2>4, <2>6 DEF InHand, IsAbout
    <3>. QED BY <1>b, <2>1, <2>2, <2>3, <2>6, <3>1 DEF Follows, HandShows, ClientKnows
  <2>. QED BY <2>5, <2>6
<1>4. CASE Send
  <2>1. /\ pc = "send" /\ ~stopped /\ view' = Applied(ev) /\ pc' = "select"
        /\ stored' = stored /\ upstream' = upstream
    BY <1>4 DEF Send, Running
  <2>2. ev \in Event /\ ev.type # "Error" /\ view \in [Names -> Contents \cup {Absent}]
    BY <1>b, <2>1 DEF Inv, Sendable, TypeOK
  <2>3. ev.name \in Names
    BY <2>2 DEF Event
  <2>4. LastShows(n)' /\ Taken(n)' = Taken(n) /\ ~InHand(n)'
    BY <1>b, <2>1 DEF Follows, LastShows, Taken, InHand
  <2>5. CASE ev.name = n
    BY <1>b, <2>1, <2>2, <2>3, <2>4, <2>5
       DEF Follows, HandShows, ClientKnows, InHand, Applied, Shows
  <2>6. CASE ev.name # n
    <3>1. view'[n] = view[n] /\ ~InHand(n)
      BY <2>1, <2>2, <2>3, <2>6 DEF Applied, InHand
    <3>. QED BY <1>b, <2>1, <2>4, <3>1 DEF Follows, HandShows, ClientKnows
  <2>. QED BY <2>5, <2>6
<1>5. CASE CloseUpstream \/ UNCHANGED vars
  BY <1>5, <1>b DEF CloseUpstream, vars, Follows, LastShows, Taken, HandShows, InHand, ClientKnows
<1>6. CASE TakeStop \/ CloseResult \/ StopUpstream \/ Stop
  BY <1>6, <1>a DEF TakeStop, CloseResult, StopUpstream, Stop, Running
<1>. QED BY <1>1, <1>2, <1>3, <1>4, <1>5, <1>6 DEF Next

LEMMA Invariant == Spec => []Inv
<1>1. ASSUME Init PROVE Inv
  <2>1. TypeOK
    <3>1. upstream \in Seq(Event) /\ Len(upstream) = 0
      BY <1>1, EmptySeq DEF Init
    <3>2. [content |-> Absent, relation |-> "stranger"] \in Object
      BY DEF Object, Relations
    <3>3. stored \in [Names -> Object] /\ view \in [Names -> Contents \cup {Absent}]
      BY <1>1, <3>2 DEF Init
    <3>4. Len(upstream) <= MaxBacklog
      BY <3>1, WatchAssumption
    <3>5. pc = "select" /\ ev = NoEvent
      BY <1>1 DEF Init
    <3>6. /\ upstreamClosed \in BOOLEAN /\ upstreamStopped \in BOOLEAN
          /\ resultClosed \in BOOLEAN /\ stopped \in BOOLEAN /\ drains \in BOOLEAN
      BY <1>1 DEF Init
    <3>. QED BY <3>1, <3>3, <3>4, <3>5, <3>6 DEF TypeOK
  <2>2. ASSUME NEW n \in Names PROVE LastShows(n) /\ ~InHand(n) /\ ~Visible(stored[n])
    <3>1. DOMAIN upstream = {}
      BY <1>1 DEF Init
    <3>. QED BY <1>1, <3>1 DEF Init, LastShows, InHand, Visible
  <2>. QED BY <1>1, <2>1, <2>2 DEF Inv, Sendable, Init, HandShows, ClientKnows
<1>2. Inv /\ [Next]_vars => Inv'
  BY NextTypes, NextSendable, NextFollows DEF Inv, Follows
<1>. QED BY <1>1, <1>2, PTL DEF Spec

\* The goroutine and the client hold events exactly where they wait for each
\* other, and the upstream watch holds back no more than it may.
THEOREM TypeCorrect == Spec => []TypeOK
<1>1. Inv => TypeOK
  BY DEF Inv
<1>. QED BY <1>1, Invariant, PTL

\* A client that watches knows the present state of every object it owns or is a
\* member of, or that it is gone, whenever nothing is under way: what the filter
\* drops is never the last word on an object the client may see.
THEOREM ClientFollows == Spec => []FollowsVisible
<1>1. ASSUME Inv PROVE FollowsVisible
  <2>. SUFFICES ASSUME pc = "select", upstream = <<>>, ~stopped, NEW n \in Names, Visible(stored[n])
                PROVE  view[n] = stored[n].content
    BY DEF FollowsVisible, Visible
  <2>1. ClientKnows(n)
    BY <1>1 DEF Inv, Running
  <2>. QED BY <2>1 DEF ClientKnows, Taken, InHand
<1>. QED BY <1>1, Invariant, PTL
=============================================================================
