----------------------------- MODULE WatchProxy -----------------------------
(***************************************************************************)
(* Watch of the extension API server (pkg/apis/apiserver/                  *)
(* organization_REST.go and project_REST.go): a goroutine that takes the   *)
(* events of an upstream watch and sends those the caller may see on an    *)
(* unbuffered channel.                                                     *)
(*                                                                         *)
(* The client keeps a view of the objects from the events it receives.  It *)
(* may call Stop at any time, and then go on receiving until the channel   *)
(* is closed, or not receive any more.                                     *)
(***************************************************************************)
EXTENDS Naturals, Sequences

CONSTANTS Names,       \* names of objects
          Contents,    \* what an object may contain
          MaxBacklog   \* bound on the events the upstream watch holds back

ASSUME WatchAssumption == MaxBacklog \in Nat \ {0}

VARIABLES
  stored,           \* stored[n]: the object n in the Kubernetes API server
  upstream,         \* events of the upstream watch that wait to be taken
  upstreamClosed,   \* its channel is closed after those
  upstreamStopped,  \* wi.Stop() has been called
  pc,               \* where the goroutine is
  ev,               \* its variable ev
  resultClosed,     \* the channel res is closed
  stopped,          \* the client has called Stop
  drains,           \* does the client receive after Stop?
  view              \* view[n]: what the client knows of n

upstreamVars == <<upstream, upstreamClosed, upstreamStopped>>
clientVars   == <<stopped, drains, view>>
vars         == <<stored, upstreamVars, pc, ev, resultClosed, clientVars>>

Absent == "absent"

\* What isMember finds about the caller in spec.owners and status.members;
\* "unknown": it meets a subject of an unknown kind first.
Relations == {"owner", "member", "stranger", "unknown"}

\* After the deletion of an object, relation is the one in its last state.
Object == [content : Contents \cup {Absent}, relation : Relations]
Event  == [type : {"Added", "Modified", "Deleted"}, name : Names, object : Object]
            \cup [type : {"Error"}]
NoEvent == [type |-> "None"]

TypeOK ==
  /\ stored \in [Names -> Object]
  /\ upstream \in Seq(Event) /\ Len(upstream) <= MaxBacklog
  /\ upstreamClosed \in BOOLEAN /\ upstreamStopped \in BOOLEAN
  /\ pc \in {"select", "send", "sendLast", "closeResult", "stopUpstream", "ended"}
  /\ ev \in IF pc \in {"send", "sendLast"} THEN Event ELSE {NoEvent}
  /\ resultClosed \in BOOLEAN /\ stopped \in BOOLEAN /\ drains \in BOOLEAN
  /\ view \in [Names -> Contents \cup {Absent}]

Init ==
  /\ stored = [n \in Names |-> [content |-> Absent, relation |-> "stranger"]]
  /\ upstream = <<>> /\ upstreamClosed = FALSE /\ upstreamStopped = FALSE
  /\ pc = "select" /\ ev = NoEvent
  /\ resultClosed = FALSE /\ stopped = FALSE /\ drains \in BOOLEAN
  /\ view = [n \in Names |-> Absent]

----------------------------------------------------------------------------
(* The upstream watch. *)

\* The upstream watch reports an event.  What happens after it is closed is no
\* longer the concern of this watch and left out.
Emit(event) ==
  /\ ~upstreamClosed /\ ~upstreamStopped
  /\ Len(upstream) < MaxBacklog
  /\ upstream' = Append(upstream, event)

\* An object is created, changed or deleted.  A Deleted event carries the last
\* state of the object.
ChangeObject(n) ==
  /\ \E new \in Object :
       /\ new # stored[n]
       /\ new.content = Absent => /\ stored[n].content # Absent
                                  /\ new.relation = stored[n].relation
       /\ stored' = [stored EXCEPT ![n] = new]
       /\ Emit(CASE stored[n].content = Absent -> [type |-> "Added", name |-> n, object |-> new]
                 [] new.content = Absent -> [type |-> "Deleted", name |-> n, object |-> stored[n]]
                 [] OTHER -> [type |-> "Modified", name |-> n, object |-> new])
  /\ UNCHANGED <<upstreamClosed, upstreamStopped, pc, ev, resultClosed, clientVars>>

\* The server reports an error, the expiry of the resourceVersion say.
FailUpstream ==
  /\ Emit([type |-> "Error"])
  /\ UNCHANGED <<stored, upstreamClosed, upstreamStopped, pc, ev, resultClosed, clientVars>>

\* The server closes the watch: timeout, or end of the request.
CloseUpstream ==
  /\ ~upstreamClosed
  /\ upstreamClosed' = TRUE
  /\ UNCHANGED <<stored, upstream, upstreamStopped, pc, ev, resultClosed, clientVars>>

----------------------------------------------------------------------------
(* The goroutine. *)

\* isMember: the owners count before the controller has synced status.members.
\* Faulty: only status.members counts.
IsMemberSynced(object) == object.relation = "member"
IsMember(object)       == object.relation \in {"owner", "member"}

\* case <-pw.StopChan()
TakeStop ==
  /\ pc = "select" /\ stopped
  /\ pc' = "closeResult"
  /\ UNCHANGED <<stored, upstreamVars, ev, resultClosed, clientVars>>

\* Faulty: ok is not looked at.
TakeClosedUnchecked ==
  /\ upstream = <<>> /\ upstreamClosed
  /\ pc' = "send"
  /\ UNCHANGED <<upstream, ev>>

\* if !ok { return }
TakeClosed ==
  /\ upstream = <<>> /\ upstreamClosed
  /\ pc' = "closeResult"
  /\ UNCHANGED <<upstream, ev>>

\* case ev, ok := <-wi.ResultChan(); the select takes either case if both are ready.
TakeEvent ==
  /\ pc = "select"
  /\ \/ TakeClosed
     \/ /\ upstream # <<>>
        /\ upstream' = Tail(upstream)
        /\ LET event == Head(upstream) IN
           \/ /\ event.type = "Error"
              /\ pc' = "sendLast" /\ ev' = event
           \/ /\ event.type # "Error" /\ event.object.relation = "unknown"
              /\ pc' = "sendLast" /\ ev' = [type |-> "Error"]
           \/ /\ event.type # "Error" /\ event.object.relation # "unknown"
              /\ IF IsMember(event.object) THEN pc' = "send" /\ ev' = event
                                           ELSE UNCHANGED <<pc, ev>>
  /\ UNCHANGED <<stored, upstreamClosed, upstreamStopped, resultClosed, clientVars>>

\* What the client makes of an event.
Applied(event) ==
  [view EXCEPT ![event.name] = IF event.type = "Deleted" THEN Absent ELSE event.object.content]

\* res <- ev: the client receives at the same time.
Send ==
  /\ pc \in {"send", "sendLast"}
  /\ ~stopped \/ drains
  /\ view' = IF ~stopped /\ pc = "send" THEN Applied(ev) ELSE view
  /\ pc' = IF pc = "send" THEN "select" ELSE "closeResult"
  /\ ev' = NoEvent
  /\ UNCHANGED <<stored, upstreamVars, resultClosed, stopped, drains>>

\* Faulty: without defer close(res).
LeaveResultOpen ==
  /\ pc = "closeResult"
  /\ pc' = "stopUpstream"
  /\ UNCHANGED <<stored, upstreamVars, ev, resultClosed, clientVars>>

\* defer close(res), which runs first ...
CloseResult ==
  /\ pc = "closeResult"
  /\ resultClosed' = TRUE
  /\ pc' = "stopUpstream"
  /\ UNCHANGED <<stored, upstreamVars, ev, clientVars>>

\* Faulty: without defer wi.Stop().
LeaveUpstreamOpen ==
  /\ pc = "stopUpstream"
  /\ pc' = "ended"
  /\ UNCHANGED <<stored, upstreamVars, ev, resultClosed, clientVars>>

\* ... and defer wi.Stop().
StopUpstream ==
  /\ pc = "stopUpstream"
  /\ upstreamStopped' = TRUE
  /\ pc' = "ended"
  /\ UNCHANGED <<stored, upstream, upstreamClosed, ev, resultClosed, clientVars>>

----------------------------------------------------------------------------
(* The client. *)

Stop ==
  /\ ~stopped
  /\ stopped' = TRUE
  /\ UNCHANGED <<stored, upstreamVars, pc, ev, resultClosed, drains, view>>

Next ==
  \/ \E n \in Names : ChangeObject(n)
  \/ FailUpstream \/ CloseUpstream
  \/ TakeStop \/ TakeEvent \/ Send \/ CloseResult \/ StopUpstream
  \/ Stop

\* The goroutine runs; a select takes a case that is ready again and again (SF);
\* the client receives while it watches, and after Stop if it drains.
Fairness ==
  /\ SF_vars(TakeStop) /\ WF_vars(TakeEvent) /\ WF_vars(Send)
  /\ WF_vars(CloseResult) /\ WF_vars(StopUpstream)

Spec == Init /\ [][Next]_vars /\ Fairness

----------------------------------------------------------------------------
(* Properties. *)

\* A client that watches knows the present state, or the deletion, of every
\* object it owns or is a member of, as soon as nothing is under way: no event
\* of it was dropped or overtaken, the creation of an object it owns included.
FollowsVisible ==
  pc = "select" /\ upstream = <<>> /\ ~stopped
    => \A n \in Names : stored[n].relation \in {"owner", "member"}
                          => view[n] = stored[n].content

\* A closed channel tells the client that it must watch again: a watch that is
\* over, on its own, by an error or an unreadable object, ends in that.
EndIsTold == (upstreamClosed \/ pc = "sendLast") /\ ~stopped ~> (resultClosed \/ stopped)

\* Once the client has called Stop, the upstream watch is stopped, unless the
\* goroutine has an event in its hands that nobody will receive.
Stuck == pc \in {"send", "sendLast"} /\ ~drains
StopReleasesUpstream == stopped ~> (upstreamStopped \/ Stuck)
=============================================================================
