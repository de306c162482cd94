----------------------------- MODULE EventStream -----------------------------
(***************************************************************************)
(* The events of one instance on their way to the connections of /event    *)
(* and /global/event: bus/index.ts, util/queue.ts and the two routes.      *)
(*                                                                         *)
(* A connection of /event has a subscription to the bus's PubSub and a     *)
(* fiber that calls it back; one of /global/event listens to an emitter,   *)
(* which calls at once.  Both push into a queue that the route reads.  An  *)
(* event is its number.                                                    *)
(***************************************************************************)
EXTENDS Naturals, Sequences

CONSTANTS
    Connections, \* of /event
    Globals,     \* of /global/event
    MaxEvents,   \* bound on the events
    MaxBeats     \* bound on the heartbeats of a connection

VARIABLES
    bus,       \* "up", or "down" when the instance was disposed
    published, \* the number of events
    sub,       \* of each subscription: what waits in it, what its fiber has taken
    conn       \* of each connection: its queue, what was written, how far it is

evvars == <<bus, published, sub, conn>>

All == Connections \cup Globals
\* What a queue holds: the events of the bus, and four words.
Event(n) == [type |-> "event", n |-> n]
Word(type) == [type |-> type, n |-> 0]
Disposed == Word("server.instance.disposed")
Connected == Word("server.connected")
Heartbeat == Word("server.heartbeat")
Null == Word("null")

Unconnected == [at |-> "none", since |-> 0, queue |-> <<>>, written |-> <<>>, beats |-> 0,
                done |-> FALSE, late |-> FALSE]
NoSubscription == [at |-> "none", buffer |-> <<>>, chunk |-> <<>>]

Init ==
    /\ bus = "up" /\ published = 0
    /\ sub = [c \in Connections |-> NoSubscription]
    /\ conn = [c \in All |-> Unconnected]

-----------------------------------------------------------------------------
(* AsyncQueue, and PubSub as it is used *)

\* Mutant: the queue is a stack.
PushFront(c, item) == [c EXCEPT !.queue = <<item>> \o @]

Push(c, item) == [c EXCEPT !.queue = Append(@, item)]

\* A fiber that waits is handed the event; one that is calling back finds it later.
Idle(s) == s.at = "on" /\ s.chunk = <<>> /\ s.buffer = <<>>
Given(s, event) ==
    IF s.at # "on" THEN s
    ELSE IF Idle(s) THEN [s EXCEPT !.chunk = <<event>>] ELSE [s EXCEPT !.buffer = Append(@, event)]

-----------------------------------------------------------------------------
(* The bus *)

\* To the PubSub, then to the emitter.
Publish ==
    /\ bus = "up" /\ published < MaxEvents
    /\ published' = published + 1
    /\ sub' = [c \in Connections |-> Given(sub[c], Event(published + 1))]
    /\ conn' = [c \in All |-> IF c \in Globals /\ conn[c].at = "open" /\ ~conn[c].done
                              THEN Push(conn[c], Event(published + 1)) ELSE conn[c]]
    /\ UNCHANGED bus

\* A PubSub that is shut down forgets what waits in it; a fiber finishes what it has taken.
ShutDown(s) == [s EXCEPT !.buffer = <<>>, !.at = IF @ = "on" THEN "last" ELSE @]

\* Mutant: the PubSub is shut down first.
LastWordsUnsaid(s) == ShutDown(s)

LastWords(s) == ShutDown(Given(s, Disposed))

\* The finalizer publishes InstanceDisposed and shuts the PubSub down.
Dispose ==
    /\ bus = "up" /\ bus' = "down"
    /\ sub' = [c \in Connections |-> LastWords(sub[c])]
    /\ conn' = [c \in All |-> IF c \in Connections /\ sub[c].at = "on" /\ ~Idle(sub[c])
                              THEN [conn[c] EXCEPT !.late = TRUE] ELSE conn[c]]
    /\ UNCHANGED published

-----------------------------------------------------------------------------
(* A subscription's fiber *)

TakeAll(c) ==
    /\ sub[c].at = "on" /\ sub[c].chunk = <<>> /\ sub[c].buffer # <<>>
    /\ sub' = [sub EXCEPT ![c].chunk = sub[c].buffer, ![c].buffer = <<>>]
    /\ UNCHANGED <<bus, published, conn>>

\* Mutant: the route that reads the queue is not told.
StopSilently(c) == [c EXCEPT !.done = TRUE]

\* stop(): no more heartbeats, unsubscribe, and null for the route.
Stop(c) == IF c.done THEN c ELSE [Push(c, Null) EXCEPT !.done = TRUE]

CallBack(c) ==
    /\ sub[c].chunk # <<>>
    /\ LET event == Head(sub[c].chunk)
           pushed == Push(conn[c], event)
       IN conn' = [conn EXCEPT ![c] = IF event = Disposed THEN Stop(pushed) ELSE pushed]
    /\ sub' = [sub EXCEPT ![c].chunk = Tail(@)]
    /\ UNCHANGED <<bus, published>>

\* unsub() of a connection that has stopped: its scope is closed by a fiber of its own.
Unsubscribe(c) ==
    /\ conn[c].done /\ sub[c].at # "off"
    /\ sub' = [sub EXCEPT ![c] = [NoSubscription EXCEPT !.at = "off"]]
    /\ UNCHANGED <<bus, published, conn>>

-----------------------------------------------------------------------------
(* A connection *)

Open(c) ==
    /\ conn[c].at = "none"
    /\ c \in Connections => bus = "up"
    /\ conn' = [conn EXCEPT ![c] = [Push(Unconnected, Connected) EXCEPT !.at = "open", !.since = published]]
    /\ sub' = IF c \in Connections THEN [sub EXCEPT ![c].at = "on"] ELSE sub
    /\ UNCHANGED <<bus, published>>

Beat(c) ==
    /\ conn[c].at = "open" /\ ~conn[c].done /\ conn[c].beats < MaxBeats
    /\ conn' = [conn EXCEPT ![c] = [Push(conn[c], Heartbeat) EXCEPT !.beats = @ + 1]]
    /\ UNCHANGED <<bus, published, sub>>

\* onAbort: the client has gone.
Abort(c) ==
    /\ conn[c].at = "open" /\ ~conn[c].done
    /\ conn' = [conn EXCEPT ![c] = Stop(@)]
    /\ UNCHANGED <<bus, published, sub>>

WriteSSE(c) ==
    /\ conn[c].at = "open" /\ conn[c].queue # <<>>
    /\ LET data == Head(conn[c].queue)
       IN conn' = [conn EXCEPT ![c] = IF data = Null
                                       THEN [conn[c] EXCEPT !.at = "closed", !.queue = <<>>]
                                       ELSE [conn[c] EXCEPT !.queue = Tail(@), !.written = Append(@, data)]]
    /\ UNCHANGED <<bus, published, sub>>

-----------------------------------------------------------------------------
GoesOn(c) == WriteSSE(c) \/ (c \in Connections /\ (TakeAll(c) \/ CallBack(c) \/ Unsubscribe(c)))

Next ==
    \/ Publish \/ Dispose
    \/ \E c \in All : Open(c) \/ Beat(c) \/ Abort(c) \/ GoesOn(c)

\* Fibers and the loops of the routes go on.
Spec == Init /\ [][Next]_evvars /\ \A c \in All : WF_evvars(GoesOn(c))

-----------------------------------------------------------------------------
(* Properties *)

TypeOK ==
    /\ bus \in {"up", "down"} /\ published \in 0..MaxEvents
    /\ \A c \in Connections :
        /\ sub[c].at \in {"none", "on", "last", "off"}
        /\ sub[c].buffer # <<>> => bus = "up"
    /\ \A c \in All :
        /\ conn[c].at \in {"none", "open", "closed"} /\ conn[c].done \in BOOLEAN
        /\ conn[c].late \in BOOLEAN /\ conn[c].since \in 0..MaxEvents /\ conn[c].beats \in 0..MaxBeats

\* The events of a line are those from a + 1 to b, each once and in order.
InOrder(line, a, b) ==
    /\ \A i \in DOMAIN line : line[i].type = "event" =>
          /\ line[i].n \in a + 1..b
          /\ \A j \in 1..i - 1 : line[j].type = "event" => line[j].n < line[i].n
    /\ \A n \in a + 1..b : \E i \in DOMAIN line : line[i] = Event(n)

\* The events that a connection has written are those published since it was opened, each
\* once and in order; the first line says that it is connected, and nothing follows the
\* word that the instance is gone.
WrittenInOrder ==
    \A c \in All :
        LET written == conn[c].written
        IN  /\ \E n \in conn[c].since..published : InOrder(written, conn[c].since, n)
            /\ written # <<>> => Head(written) = Connected
            /\ \A i \in DOMAIN written : written[i] = Disposed => i = Len(written)

\* What /event has not written of an instance that is gone was lost behind an event
\* that its subscription was busy with.
NothingSkipped ==
    \A c \in Connections :
        LET written == conn[c].written
        IN  (\E i \in DOMAIN written : written[i] = Disposed) =>
                \A n \in conn[c].since + 1..published : \E i \in DOMAIN written : written[i] = Event(n)

StreamInOrder == TypeOK /\ WrittenInOrder /\ NothingSkipped

\* A stream whose client has gone away, or whose instance, is closed; unless the
\* subscription was busy when the instance went.  It comes to that again and again:
\* EverythingEnds of MCSession.
NobodyWaits ==
    /\ \A c \in All : conn[c].done => conn[c].at = "closed"
    /\ \A c \in Connections : sub[c].at = "last" /\ ~conn[c].late => conn[c].at = "closed"

\* Does not hold: a subscription that is busy when the instance goes is not told.
DisposedIsSeen == \A c \in Connections : sub[c].at = "last" ~> conn[c].at = "closed"
==============================================================================
