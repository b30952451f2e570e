----------------------------- MODULE Dashboard -----------------------------
(***************************************************************************)
(* The operations dashboard: src/src/ops/core.py, which coalesces the      *)
(* changes that are announced and pushes a summary, the broker and the     *)
(* sessions of src/src/platform/websocket.py, and its two transports, the  *)
(* WebSocket of src/src/infra/http/rest.py, whose frames are handled one   *)
(* by one, and the XHR fallback of src/src/platform/sockjs.py, whose       *)
(* frames come in requests of their own.  A summary is known by the number *)
(* of changes it shows.                                                    *)
(***************************************************************************)
EXTENDS Naturals, FiniteSetsExt

CONSTANTS Writers,      \* requests and background calls that change the database
          Native,       \* WebSocket sessions
          Xhr,          \* SockJS sessions
          MaxCommits, MaxRoleChanges

ASSUME DashboardAssumption ==
    /\ Native \intersect Xhr = {}
    /\ MaxCommits \in Nat /\ MaxRoleChanges \in Nat

Sessions == Native \union Xhr

VARIABLES changes,      \* committed changes
          writer,       \* who has committed and not yet answered
          changed,      \* _changed
          push,         \* tick, its summary and the subscriptions it publishes to
          session,      \* the STOMP sessions
          subscribed,   \* sessions with a subscription in the broker
          ready,        \* sessions whose SUBSCRIBE has passed its checks
          isAdmin,      \* what the token of a session resolves to
          roleChanges,
          outbound,     \* the newest summary that waits for a poll of an XHR session
          polled,       \* what its poll has copied
          received,     \* the newest summary the client has
          due           \* the newest announcement made while it was subscribed

subscriberVars == <<session, subscribed, ready, isAdmin, roleChanges>>
clientVars == <<outbound, polled, received, due>>
dashboardVars == <<changes, writer, changed, push, subscriberVars, clientVars>>

DashboardInit ==
    /\ changes = 0 /\ writer = [w \in Writers |-> "idle"]
    /\ changed = FALSE
    /\ push = [at |-> "idle", shows |-> 0, to |-> {}]
    /\ session = [s \in Sessions |-> "none"]
    /\ subscribed = {} /\ ready = {}
    /\ isAdmin = Sessions /\ roleChanges = 0
    /\ outbound = [s \in Sessions |-> 0] /\ polled = [s \in Sessions |-> 0]
    /\ received = [s \in Sessions |-> 0] /\ due = [s \in Sessions |-> 0]

----------------------------------------------------------------------------
(* Changes and their announcement *)

Change(w) ==
    /\ writer[w] = "idle" /\ changes < MaxCommits
    /\ changes' = changes + 1
    /\ writer' = [writer EXCEPT ![w] = "committed"]
    /\ UNCHANGED <<changed, push, subscriberVars, clientVars>>

\* A 2xx answer to a POST, PUT, PATCH or DELETE, or a background call that
\* returns: state_transition_committed.
Announced(w) ==
    /\ writer[w] = "committed"
    /\ changed' = TRUE
    /\ due' = [s \in Sessions |-> IF s \in subscribed \intersect Native THEN changes ELSE due[s]]
    /\ writer' = [writer EXCEPT ![w] = "idle"]
    /\ UNCHANGED <<changes, push, subscriberVars, outbound, polled, received>>

\* The call fails after a commit of its own: nobody announces the change.
Unannounced(w) ==
    /\ writer[w] = "committed"
    /\ writer' = [writer EXCEPT ![w] = "idle"]
    /\ UNCHANGED <<changes, changed, push, subscriberVars, clientVars>>

----------------------------------------------------------------------------
(* DashboardPush.tick, in the one loop of the process *)

StartTick ==
    /\ push.at = "idle" /\ changed
    /\ changed' = FALSE
    /\ push' = [push EXCEPT !.at = "summary"]
    /\ UNCHANGED <<changes, writer, subscriberVars, clientVars>>

Summary ==
    /\ push.at = "summary"
    /\ push' = [push EXCEPT !.at = "publish", !.shows = changes]
    /\ UNCHANGED <<changes, writer, changed, subscriberVars, clientVars>>

\* The flag is set again and the exception ends the loop.
SummaryFails ==
    /\ push.at = "summary"
    /\ changed' = TRUE
    /\ push' = [push EXCEPT !.at = "dead"]
    /\ UNCHANGED <<changes, writer, subscriberVars, clientVars>>

Restart ==
    /\ push.at = "dead"
    /\ push' = [push EXCEPT !.at = "idle"]
    /\ UNCHANGED <<changes, writer, changed, subscriberVars, clientVars>>

\* InMemoryStompBroker.publish: the subscriptions of this moment.
Publish ==
    /\ push.at = "publish"
    /\ push' = [push EXCEPT !.at = "deliver", !.to = subscribed]
    /\ UNCHANGED <<changes, writer, changed, subscriberVars, clientVars>>

\* To the client, or to where the next poll finds it.
Deliver(s) ==
    /\ push.at = "deliver" /\ s \in push.to
    /\ push' = [push EXCEPT !.to = @ \ {s}]
    /\ IF s \in Native
       THEN received' = [received EXCEPT ![s] = push.shows] /\ UNCHANGED outbound
       ELSE outbound' = [outbound EXCEPT ![s] = push.shows] /\ UNCHANGED received
    /\ UNCHANGED <<changes, writer, changed, subscriberVars, polled, due>>

Dropped(s) == subscribed' = subscribed \ {s} /\ due' = [due EXCEPT ![s] = 0]

\* A sink that raises loses its subscription.
DeliveryFails(s) ==
    /\ push.at = "deliver" /\ s \in push.to
    /\ push' = [push EXCEPT !.to = @ \ {s}]
    /\ Dropped(s)
    /\ UNCHANGED <<changes, writer, changed, session, ready, isAdmin, roleChanges,
                   outbound, polled, received>>

\* Mutant of TickEnds: the flag is cleared when the push is done.
TickEndsAndClears ==
    /\ push.at = "deliver" /\ push.to = {}
    /\ push' = [push EXCEPT !.at = "idle", !.shows = 0]
    /\ changed' = FALSE
    /\ UNCHANGED <<changes, writer, subscriberVars, clientVars>>

TickEnds ==
    /\ push.at = "deliver" /\ push.to = {}
    /\ push' = [push EXCEPT !.at = "idle", !.shows = 0]
    /\ UNCHANGED <<changes, writer, changed, subscriberVars, clientVars>>

----------------------------------------------------------------------------
(* StompFrameProcessor *)

RoleChange(s) ==
    /\ roleChanges < MaxRoleChanges
    /\ roleChanges' = roleChanges + 1
    /\ isAdmin' = IF s \in isAdmin THEN isAdmin \ {s} ELSE isAdmin \union {s}
    /\ UNCHANGED <<changes, writer, changed, push, session, subscribed, ready, clientVars>>

\* The frames of a WebSocket wait for the one that is being handled.
NextFrame(s) == s \in Xhr \/ s \notin ready

Connect(s) ==
    /\ session[s] = "none"
    /\ session' = [session EXCEPT ![s] = "connected"]
    /\ UNCHANGED <<changes, writer, changed, push, subscribed, ready, isAdmin, roleChanges, clientVars>>

\* The session, the principal and the policy; then the broker.
CheckSubscribe(s) ==
    /\ session[s] = "connected" /\ NextFrame(s) /\ s \in isAdmin
    /\ ready' = ready \union {s}
    /\ UNCHANGED <<changes, writer, changed, push, session, subscribed, isAdmin, roleChanges, clientVars>>

Subscribe(s) ==
    /\ s \in ready
    /\ ready' = ready \ {s}
    /\ subscribed' = subscribed \union {s}
    /\ UNCHANGED <<changes, writer, changed, push, session, isAdmin, roleChanges, clientVars>>

Unsubscribe(s) ==
    /\ session[s] = "connected" /\ NextFrame(s) /\ s \in subscribed
    /\ Dropped(s)
    /\ UNCHANGED <<changes, writer, changed, push, session, ready, isAdmin, roleChanges,
                   outbound, polled, received>>

\* DISCONNECT, a rejected frame or the end of the socket: the session is
\* forgotten, then its subscriptions.
ForgetSession(s) ==
    /\ session[s] = "connected" /\ NextFrame(s)
    /\ session' = [session EXCEPT ![s] = "leaving"]
    /\ UNCHANGED <<changes, writer, changed, push, subscribed, ready, isAdmin, roleChanges, clientVars>>

Disconnect(s) ==
    /\ session[s] = "leaving"
    /\ session' = [session EXCEPT ![s] = "gone"]
    /\ Dropped(s)
    /\ UNCHANGED <<changes, writer, changed, push, ready, isAdmin, roleChanges,
                   outbound, polled, received>>

----------------------------------------------------------------------------
(* SockJsHttpTransport.receive: the frames are copied, then cleared, while the *)
(* broker appends without the lock of the session.                             *)

Poll(s) ==
    /\ s \in Xhr /\ polled[s] = 0 /\ outbound[s] # 0
    /\ polled' = [polled EXCEPT ![s] = outbound[s]]
    /\ UNCHANGED <<changes, writer, changed, push, subscriberVars, outbound, received, due>>

PollEnds(s) ==
    /\ s \in Xhr /\ polled[s] # 0
    /\ outbound' = [outbound EXCEPT ![s] = 0]
    /\ received' = [received EXCEPT ![s] = polled[s]]
    /\ polled' = [polled EXCEPT ![s] = 0]
    /\ UNCHANGED <<changes, writer, changed, push, subscriberVars, due>>

----------------------------------------------------------------------------

PushStep == \/ StartTick \/ Summary \/ SummaryFails \/ Restart \/ Publish \/ TickEnds
            \/ \E s \in Sessions : Deliver(s) \/ DeliveryFails(s)

FrameStep(s) == \/ Connect(s) \/ CheckSubscribe(s) \/ Subscribe(s) \/ Unsubscribe(s)
                \/ ForgetSession(s) \/ Disconnect(s)

DashboardNext ==
    \/ PushStep
    \/ \E w \in Writers : Change(w) \/ Announced(w) \/ Unannounced(w)
    \/ \E s \in Sessions : FrameStep(s) \/ RoleChange(s) \/ Poll(s) \/ PollEnds(s)

----------------------------------------------------------------------------

\* A change that is announced while a WebSocket client is subscribed is shown
\* to it, in this push or a later one, also when it comes between the summary
\* and the publication of another change or when a push fails; and a client
\* that has left has no subscription.  ops/core.py:197-222,
\* platform/websocket.py:137-163, 237-240.
ChangesShown ==
    /\ []<>(\A s \in Native : received[s] >= due[s])
    /\ [](\A s \in Native \intersect subscribed : session[s] \in {"connected", "leaving"})
=============================================================================
