------------------------------- MODULE EventStream -------------------------------
(***************************************************************************)
(* Detections on their way to Home Assistant: published to a bounded queue    *)
(* per subscriber (state.py), written to an HTTP response by a task of its     *)
(* own (http_api.py, events), read by the integration's listener, which        *)
(* connects again ten seconds after a connection ends (__init__.py, api.py).   *)
(*                                                                         *)
(* An event, a detection or a rejection, is its number; the listener passes    *)
(* over rejections when it has read them.  The server restarts and connections  *)
(* break: noticed by the client or not, and while the response is prepared.     *)
(***************************************************************************)
EXTENDS Naturals, Sequences

CONSTANTS
    Subscribers,            \* config entries for this server
    Capacity,               \* of a queue: 100
    MaxEvents, MaxFaults    \* bounds: events published; connections and servers lost

ASSUME EventsAssumption == Capacity \in Nat \ {0} /\ MaxEvents \in Nat /\ MaxFaults \in Nat

VARIABLES
    published,      \* number of events published
    running,        \* the server is
    client,         \* of each subscriber: waiting (to connect), listening, deaf
    queue,          \* of the task that serves a listening client
    wire,           \* lines written to it and not yet read
    unread,         \* listeners whose connection is gone: [late, leaked] numbers of
                    \* those that will be unsubscribed and those that will not
    received,       \* events the listener has read, to hand on the detections
    faults,
    expected        \* history: the events received before the client last connected
                    \* and those put in its queue since

eventVars == <<published, running, client, queue, wire, unread, received, faults, expected>>

Room(events) == Len(events) < Capacity

\* put_nowait; QueueFull is passed over.
Offered_Newest(events, e) ==            \* mutant: a full queue loses its oldest event
    Append(IF Room(events) THEN events ELSE Tail(events), e)
Offered(events, e) == IF Room(events) THEN Append(events, e) ELSE events

\* State.publish, by the handler of a Wyoming client: it never waits.
Publish ==
    /\ running /\ published < MaxEvents
    /\ published' = published + 1
    /\ LET reached == {s \in Subscribers : client[s] = "listening"}
       IN  /\ queue' = [s \in Subscribers |->
                 IF s \in reached THEN Offered(queue[s], published') ELSE queue[s]]
           /\ expected' = [s \in Subscribers |->
                 IF s \in reached /\ Room(queue[s])
                 THEN Append(expected[s], published') ELSE expected[s]]
    /\ UNCHANGED <<running, client, wire, unread, received, faults>>

\* GET /api/events.
Connect(s) ==
    /\ running /\ client[s] = "waiting"
    /\ client' = [client EXCEPT ![s] = "listening"]
    /\ expected' = [expected EXCEPT ![s] = received[s]]
    /\ UNCHANGED <<published, running, queue, wire, unread, received, faults>>

\* prepare() raises after subscribe() and ahead of the try that would unsubscribe.
ConnectFails(s) ==
    /\ running /\ client[s] = "waiting" /\ faults < MaxFaults
    /\ unread' = [unread EXCEPT !.leaked = @ + 1]
    /\ faults' = faults + 1
    /\ UNCHANGED <<published, running, client, queue, wire, received, expected>>

\* One turn of the loop in events().
Serve(s) ==
    /\ running /\ client[s] = "listening" /\ queue[s] # << >>
    /\ queue' = [queue EXCEPT ![s] = Tail(@)]
    /\ wire' = [wire EXCEPT ![s] = Append(@, Head(queue[s]))]
    /\ UNCHANGED <<published, running, client, unread, received, faults, expected>>

\* A write, of an event or of the keepalive after 30 s, finds the connection gone.
Unsubscribe ==
    /\ running /\ unread.late > 0
    /\ unread' = [unread EXCEPT !.late = @ - 1]
    /\ UNCHANGED <<published, running, client, queue, wire, received, faults, expected>>

\* listen_events yields an event to _listen_for_detections.
Receive(s) ==
    /\ client[s] = "listening" /\ wire[s] # << >>
    /\ wire' = [wire EXCEPT ![s] = Tail(@)]
    /\ received' = [received EXCEPT ![s] = Append(@, Head(wire[s]))]
    /\ UNCHANGED <<published, running, client, queue, unread, faults, expected>>

Forget(s) ==
    /\ queue' = [queue EXCEPT ![s] = << >>]
    /\ wire' = [wire EXCEPT ![s] = << >>]

Cut(s, becomes) ==
    /\ client[s] = "listening" /\ faults < MaxFaults
    /\ client' = [client EXCEPT ![s] = becomes]
    /\ unread' = [unread EXCEPT !.late = @ + 1]
    /\ Forget(s)
    /\ faults' = faults + 1
    /\ UNCHANGED <<published, running, received, expected>>

\* Nothing tells the client, which reads without a timeout (sock_read=None).
BreakSilently(s) == Cut(s, "deaf")

\* The client sees the end of the stream or an error, or its entry is reloaded.
Break_Ends(s) == Cut(s, "ended")        \* mutant: the error ends the listener's task
Break(s) == Cut(s, "waiting")

StopServer ==
    /\ running /\ faults < MaxFaults
    /\ running' = FALSE
    /\ client' = [s \in Subscribers |-> IF client[s] = "deaf" THEN "deaf" ELSE "waiting"]
    /\ queue' = [s \in Subscribers |-> << >>] /\ wire' = queue'
    /\ unread' = [late |-> 0, leaked |-> 0]
    /\ faults' = faults + 1
    /\ UNCHANGED <<published, received, expected>>

StartServer ==
    /\ ~running /\ running' = TRUE
    /\ UNCHANGED <<published, client, queue, wire, unread, received, faults, expected>>

EventsInit ==
    /\ published = 0 /\ running \in BOOLEAN /\ faults = 0
    /\ client = [s \in Subscribers |-> "waiting"]
    /\ queue = [s \in Subscribers |-> << >>]
    /\ wire = [s \in Subscribers |-> << >>]
    /\ unread = [late |-> 0, leaked |-> 0]
    /\ received = [s \in Subscribers |-> << >>]
    /\ expected = [s \in Subscribers |-> << >>]

EventsNext ==
    \/ Publish \/ Unsubscribe \/ StopServer \/ StartServer
    \/ \E s \in Subscribers :
          \/ Connect(s) \/ ConnectFails(s) \/ Serve(s) \/ Receive(s)
          \/ Break(s) \/ BreakSilently(s)

EventsSpec == EventsInit /\ [][EventsNext]_eventVars

----------------------------------------------------------------------------
\* The events a listener has read and those on their way to it are the ones published
\* since it connected, in order and each once, but for those its queue had no room
\* for; over all its connections it reads none twice or out of order.
EventsArrive ==
    \A s \in Subscribers :
        /\ client[s] = "listening" => received[s] \o wire[s] \o queue[s] = expected[s]
        /\ \A i, j \in DOMAIN received[s] : i < j => received[s][i] < received[s][j]

\* "Server restart or network blip: reconnect with a small backoff"
\* (__init__.py:101): whatever has ended its connection, a client is listening
\* again, unless the server is down or it has not noticed; and no listener of a
\* broken connection stays subscribed.
ListensAgain ==
    /\ \A s \in Subscribers :
          running ~> (client[s] \in {"listening", "deaf"} \/ ~running)
    /\ (unread.late > 0) ~> (unread.late = 0)
=============================================================================
