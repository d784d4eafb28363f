------------------------------ MODULE LiveStream ------------------------------
(***************************************************************************)
(* The live stream: WebSocketConnectionManager, the session coroutine of   *)
(* every client, and the broadcasts the event-bus bridge schedules for     *)
(* every step of a twin.                                                   *)
(*                                                                         *)
(* All of it runs on one event loop.  The manager's asyncio.Lock guards    *)
(* sections without an await, so it is always free and never suspends      *)
(* anybody: the suspension points are the sends and the receives, and an   *)
(* action is the code between two of them.  Twins are stepped by sessions  *)
(* and by REST handlers, all of them coroutines of the same loop.          *)
(***************************************************************************)
EXTENDS Integers, FiniteSets

CONSTANTS
  Client,    \* the connections of a server's life: client ids are never reused
  Dedicated, \* those of /ws/twins/{system_id}, the others use the multiplexed /ws
  Sender,    \* those that send telemetry, the others only watch
  Twin,
  NoTwin,    \* the default twin of the multiplexed endpoint
  NoClient,
  MaxSteps   \* bound: steps of all twins together

ASSUME StreamAssumption ==
  /\ MaxSteps \in Nat
  /\ Dedicated \subseteq Client
  /\ Sender \subseteq Client
  /\ NoTwin \notin Twin
  /\ NoClient \notin Client
  /\ Client \intersect 1..MaxSteps = {}

Bridged == 1..MaxSteps          \* the broadcast scheduled for the k-th step
Broadcast == Bridged \union Client  \* a client's own runs inside its session

\* Where a session is suspended: none: not accepted yet.  receiving: in
\* receive_text.  broadcasting: in its own broadcast.  ended: returned.  The
\* others: in the send of that message.  A reply that nothing but the next
\* receive follows is part of the step that makes it.
SessionAt == {"none", "welcome", "initial", "receiving", "subscribed", "latest",
              "ack", "broadcasting", "ended"}

VARIABLES
  connections,    \* keys of _connections
  subscriptions,  \* _subscriptions; an absent key is an empty set
  clientSubs,     \* _client_subscriptions, likewise
  link,           \* whether the peer of the WebSocket is reachable
  session,        \* per client: where it is suspended, about which twin and step
  cast,           \* the broadcasts
  exists,         \* the twins of the twin service
  stepped,        \* per twin, the number (among all steps) of its latest step
  steps,          \* number of steps so far
  seen            \* history: per client and twin, the latest step it has been sent

hubVars == <<connections, subscriptions, clientSubs>>
twinVars == <<exists, stepped, steps>>
streamVars == <<hubVars, link, session, cast, twinVars, seen>>

Session == [at: SessionAt, twin: Twin \union {NoTwin}, step: Nat]

Cast == [at: {"none", "scheduled", "sending"}, twin: Twin \union {NoTwin},
         step: Nat, to: Client \union {NoClient}, todo: SUBSET Client, dead: SUBSET Client]

NoCast == [at |-> "none", twin |-> NoTwin, step |-> 0, to |-> NoClient,
           todo |-> {}, dead |-> {}]

StreamTypeOK ==
  /\ connections \in SUBSET Client
  /\ subscriptions \in [Twin -> SUBSET Client]
  /\ clientSubs \in [Client -> SUBSET Twin]
  /\ link \in [Client -> {"up", "down"}]
  /\ session \in [Client -> Session]
  /\ cast \in [Broadcast -> Cast]
  /\ exists \in SUBSET Twin
  /\ stepped \in [Twin -> Nat]
  /\ steps \in Nat
  /\ seen \in [Client -> [Twin -> Nat]]

StreamInit ==
  /\ connections = {}
  /\ subscriptions = [y \in Twin |-> {}]
  /\ clientSubs = [c \in Client |-> {}]
  /\ link = [c \in Client |-> "up"]
  /\ session = [c \in Client |-> [at |-> "none", twin |-> NoTwin, step |-> 0]]
  /\ cast = [b \in Broadcast |-> NoCast]
  /\ exists = Twin
  /\ stepped = [y \in Twin |-> 0]
  /\ steps = 0
  /\ seen = [c \in Client |-> [y \in Twin |-> 0]]

-----------------------------------------------------------------------------
(* WebSocketConnectionManager: the registry and its two indexes.           *)

\* Faulty variant: no check that the client is registered.
SubscribeAnyone(c, y) ==
  /\ subscriptions' = [subscriptions EXCEPT ![y] = @ \union {c}]
  /\ clientSubs' = [clientSubs EXCEPT ![c] = @ \union {y}]

\* subscribe(): nothing for a client that is not registered.
Subscribe(c, y) ==
  IF c \in connections
  THEN /\ subscriptions' = [subscriptions EXCEPT ![y] = @ \union {c}]
       /\ clientSubs' = [clientSubs EXCEPT ![c] = @ \union {y}]
  ELSE UNCHANGED <<subscriptions, clientSubs>>

Unsubscribe(c, y) ==
  /\ subscriptions' = [subscriptions EXCEPT ![y] = @ \ {c}]
  /\ clientSubs' = [clientSubs EXCEPT ![c] = @ \ {y}]

\* Faulty variant: the twins' sets keep the client.
UnregisterHalf(gone) ==
  /\ connections' = connections \ gone
  /\ clientSubs' = [c \in Client |-> IF c \in gone THEN {} ELSE clientSubs[c]]
  /\ UNCHANGED subscriptions

\* disconnect() of every client in gone: its own index tells which twins it
\* is taken from.
Unregister(gone) ==
  /\ connections' = connections \ gone
  /\ clientSubs' = [c \in Client |-> IF c \in gone THEN {} ELSE clientSubs[c]]
  /\ subscriptions' =
       [y \in Twin |-> {c \in subscriptions[y] : c \in gone => y \notin clientSubs[c]}]

-----------------------------------------------------------------------------
(* Broadcasts: broadcast_to_twin() sends to a copy of the subscribers, one *)
(* by one, and disconnects the dead ones at the end.                       *)

\* On to the next registered client of b, or to the end.
Proceed(id, b) ==
  LET reachable == b.todo \intersect connections
  IN IF reachable # {}
     THEN /\ \E c \in reachable :
               cast' = [cast EXCEPT ![id] = [b EXCEPT !.at = "sending", !.to = c,
                                                      !.todo = @ \ {c}]]
          /\ UNCHANGED hubVars
     ELSE /\ cast' = [cast EXCEPT ![id] = NoCast]
          /\ Unregister(b.dead \union b.todo)

\* run_coroutine_threadsafe: scheduled broadcasts start in order.
BroadcastStarts(k) ==
  /\ cast[k].at = "scheduled"
  /\ \A j \in Bridged : j < k => cast[j].at # "scheduled"
  /\ Proceed(k, [cast[k] EXCEPT !.todo = subscriptions[cast[k].twin]])
  /\ UNCHANGED <<link, session, twinVars, seen>>

Latest(a, b) == IF a > b THEN a ELSE b

\* The send of state (y, n) to c is over; it fails exactly when the peer is gone.
Delivered(c, y, n) ==
  seen' = IF link[c] = "up" THEN [seen EXCEPT ![c][y] = Latest(@, n)] ELSE seen

\* Faulty variant: the first failure ends the broadcast.
SentNotIsolated(id) ==
  LET b == cast[id]
      c == b.to
  IN /\ b.at = "sending"
     /\ Delivered(c, b.twin, b.step)
     /\ Proceed(id, IF link[c] = "up" THEN b ELSE [b EXCEPT !.dead = @ \union {c}, !.todo = {}])

Sent(id) ==
  LET b == cast[id]
      c == b.to
  IN /\ b.at = "sending"
     /\ Delivered(c, b.twin, b.step)
     /\ Proceed(id, IF link[c] = "up" THEN b ELSE [b EXCEPT !.dead = @ \union {c}])

BridgeSends(k) == Sent(k) /\ UNCHANGED <<link, session, twinVars>>

-----------------------------------------------------------------------------
(* Steps of a twin.  The event bus hands TwinSynchronized to the bridge,   *)
(* which schedules a broadcast.                                            *)

StepTwin(y) ==
  /\ steps < MaxSteps
  /\ y \in exists
  /\ steps' = steps + 1
  /\ stepped' = [stepped EXCEPT ![y] = steps']
  /\ cast' = [cast EXCEPT ![steps'] = [NoCast EXCEPT !.at = "scheduled", !.twin = y,
                                                     !.step = steps']]
  /\ UNCHANGED exists

RestStep(y) == StepTwin(y) /\ UNCHANGED <<hubVars, link, session, seen>>

DeleteTwin(y) ==
  /\ y \in exists
  /\ exists' = exists \ {y}
  /\ UNCHANGED <<hubVars, link, session, cast, stepped, steps, seen>>

-----------------------------------------------------------------------------
(* A session.                                                              *)

At(c, at, y, n) == session' = [session EXCEPT ![c] = [at |-> at, twin |-> y, step |-> n]]

Receiving(c) == At(c, "receiving", NoTwin, 0)

\* accept() and connect() up to the send of the welcome.  A default twin is
\* followed without asking whether it exists.
Accept(c, y) ==
  /\ session[c].at = "none"
  /\ c \in Dedicated <=> y # NoTwin
  /\ connections' = connections \union {c}
  /\ IF y = NoTwin
     THEN /\ clientSubs' = [clientSubs EXCEPT ![c] = {}]
          /\ UNCHANGED subscriptions
     ELSE /\ clientSubs' = [clientSubs EXCEPT ![c] = {y}]
          /\ subscriptions' = [subscriptions EXCEPT ![y] = @ \union {c}]
  /\ At(c, "welcome", y, 0)
  /\ UNCHANGED <<link, cast, twinVars, seen>>

\* send_personal_message() of anything but a state is over; a failure
\* unregisters the client and the session goes on.
PersonalSent(c) ==
  IF link[c] = "up" THEN UNCHANGED hubVars ELSE Unregister({c})

\* The latest state of y, read now, is what is sent next; without one, on to
\* the next message.
SendLatest(c, y, at) ==
  IF y \in exists /\ stepped[y] > 0 THEN At(c, at, y, stepped[y])
  ELSE Receiving(c)

Welcomed(c) ==
  /\ session[c].at = "welcome"
  /\ PersonalSent(c)
  /\ SendLatest(c, session[c].twin, "initial")
  /\ UNCHANGED <<link, cast, twinVars, seen>>

\* Messages that arrived before the peer was lost are still received.

\* A subscribe request: an error for an unknown twin.
SubscribeReceived(c, y) ==
  /\ session[c].at = "receiving"
  /\ \/ /\ y \in exists
        /\ Subscribe(c, y)
        /\ At(c, "subscribed", y, 0)
        /\ UNCHANGED connections
     \/ /\ y \notin exists
        /\ PersonalSent(c)
        /\ UNCHANGED session
  /\ UNCHANGED <<link, cast, twinVars, seen>>

\* "subscribed" is out: the latest state follows, unless the twin has been
\* deleted while it was being sent.
SubscribedSent(c) ==
  /\ session[c].at = "subscribed"
  /\ PersonalSent(c)
  /\ SendLatest(c, session[c].twin, "latest")
  /\ UNCHANGED <<link, cast, twinVars, seen>>

StateSent(c) ==
  /\ session[c].at \in {"initial", "latest"}
  /\ Delivered(c, session[c].twin, session[c].step)
  /\ PersonalSent(c)
  /\ Receiving(c)
  /\ UNCHANGED <<link, cast, twinVars>>

UnsubscribeReceived(c, y) ==
  /\ session[c].at = "receiving"
  /\ IF link[c] = "up" THEN Unsubscribe(c, y) /\ UNCHANGED connections
     ELSE Unregister({c})
  /\ UNCHANGED <<link, session, cast, twinVars, seen>>

\* telemetry_ingest steps the twin, or is refused with an error.
IngestReceived(c, y) ==
  /\ c \in Sender
  /\ session[c].at = "receiving"
  /\ \/ /\ StepTwin(y)
        /\ At(c, "ack", y, steps')
        /\ UNCHANGED hubVars
     \/ /\ PersonalSent(c)
        /\ UNCHANGED <<session, cast, twinVars>>
  /\ UNCHANGED <<link, seen>>

\* After the acknowledgement the session broadcasts the step itself, on top
\* of the bridge's broadcast; an unreachable sender is unregistered first.
AckSent(c) ==
  LET y == session[c].twin
      todo == IF link[c] = "up" THEN subscriptions[y] ELSE subscriptions[y] \ {c}
  IN /\ session[c].at = "ack"
     /\ \/ /\ todo = {}
           /\ PersonalSent(c)
           /\ Receiving(c)
           /\ UNCHANGED cast
        \/ /\ PersonalSent(c)
           /\ \E to \in todo :
                cast' = [cast EXCEPT ![c] = [NoCast EXCEPT !.at = "sending", !.twin = y,
                           !.step = session[c].step, !.to = to, !.todo = todo \ {to}]]
           /\ At(c, "broadcasting", NoTwin, 0)
     /\ UNCHANGED <<link, twinVars, seen>>

SessionSends(c) ==
  /\ session[c].at = "broadcasting"
  /\ Sent(c)
  /\ IF cast'[c] = NoCast THEN Receiving(c) ELSE UNCHANGED session
  /\ UNCHANGED <<link, twinVars>>

\* receive_text raises once the peer is gone: the session unregisters its
\* client and returns.
SessionEnds(c) ==
  /\ session[c].at = "receiving"
  /\ link[c] = "down"
  /\ Unregister({c})
  /\ At(c, "ended", NoTwin, 0)
  /\ UNCHANGED <<link, cast, twinVars, seen>>

PeerLost(c) ==
  /\ session[c].at # "none"
  /\ link[c] = "up"
  /\ link' = [link EXCEPT ![c] = "down"]
  /\ UNCHANGED <<hubVars, session, cast, twinVars, seen>>

-----------------------------------------------------------------------------
SessionGoesOn(c) ==
  \/ Welcomed(c)
  \/ SubscribedSent(c)
  \/ StateSent(c)
  \/ AckSent(c)
  \/ SessionSends(c)
  \/ SessionEnds(c)

StreamNext ==
  \/ \E c \in Client, y \in Twin \union {NoTwin} : Accept(c, y)
  \/ \E c \in Client : SessionGoesOn(c) \/ PeerLost(c)
  \/ \E c \in Client, y \in Twin :
       SubscribeReceived(c, y) \/ UnsubscribeReceived(c, y) \/ IngestReceived(c, y)
  \/ \E k \in Bridged : BroadcastStarts(k) \/ BridgeSends(k)
  \/ \E y \in Twin : RestStep(y) \/ DeleteTwin(y)

StreamSpec == StreamInit /\ [][StreamNext]_streamVars

\* Ready tasks run, and every send ends: a peer that takes nothing more is
\* dropped by the server's keepalive.
StreamFairness ==
  /\ \A c \in Client : WF_streamVars(SessionGoesOn(c))
  /\ \A k \in Bridged : WF_streamVars(BroadcastStarts(k) \/ BridgeSends(k))

FairStreamSpec == StreamSpec /\ StreamFairness

-----------------------------------------------------------------------------
(* Properties.                                                             *)

\* The two indexes agree and name registered clients only, whatever
\* broadcasts that clean up dead clients interleave with the sessions.
IndexesAgree ==
  /\ \A c \in Client, y \in Twin : c \in subscriptions[y] <=> y \in clientSubs[c]
  /\ \A y \in Twin : subscriptions[y] \subseteq connections

Hub == INSTANCE Subscribers
         WITH registered <- connections,
              follows <- {p \in Client \X Twin : p[1] \in subscriptions[p[2]]}

\* The two indexes, updated separately, implement one relation.
ImplementsHub == Hub!HubSpec

\* The clients behind the twins they follow.
Behind ==
  {p \in Client \X Twin :
     /\ p[1] \in subscriptions[p[2]] /\ link[p[1]] = "up"
     /\ p[2] \in exists /\ seen[p[1]][p[2]] < stepped[p[2]]}

\* Whoever connects, subscribes or breaks off while broadcasts are under way,
\* a time comes when every client that follows a twin has been sent its latest
\* state: by a broadcast, or on subscribing; not that an older one never comes
\* after it, as broadcasts are not ordered.
CatchesUp == Behind # {} ~> Behind = {}
=============================================================================
