------------------------------ MODULE TuiSync ------------------------------
(***************************************************************************)
(* What the terminal client shows of one session: the event stream and its *)
(* batches (startSSE, handleEvent and flush of cli/cmd/tui/context/        *)
(* sdk.tsx), the reducer and session.sync of context/sync.tsx.             *)
(*                                                                         *)
(* A message stands for what it holds, its parts included: the number of   *)
(* the write that it had last.  Left out: the list of sessions and what    *)
(* bootstrap fetches, the pieces of a text that is being written, the      *)
(* limit of 100 messages.                                                  *)
(***************************************************************************)
EXTENDS Naturals, Sequences

CONSTANTS
    Messages,
    Unloaded,  \* store.message[sessionID] is undefined
    MaxWrites, \* a bound: writes of the server
    MaxEnds    \* a bound: times the connection ends

VARIABLES
    now,     \* the number of the last write
    server,  \* the messages of the session, 0 for one that is not there
    stream,  \* events on their way
    conn,    \* the loop of startSSE: connected, waiting to connect again, or over
    ends,    \* how often the connection has ended
    queue,   \* events of the next batch
    timer,   \* is a flush set?
    store,   \* store.message[sessionID] with its parts
    sync,    \* the call of session.sync and the answer it has got
    missed,  \* an event was lost with a connection or a batch
    overtaken \* an event was applied that is newer than the answer still to be applied

svars == <<now, server, stream, conn, ends, queue, timer, store, sync, missed, overtaken>>

Empty == [m \in Messages |-> 0]

Init ==
    /\ now = 1 /\ server \in [Messages -> 0..1]
    /\ stream = <<>> /\ conn = "up" /\ ends = 0
    /\ queue = <<>> /\ timer = FALSE
    /\ store = Unloaded
    /\ sync = [at |-> "none", reply |-> Empty, asOf |-> 0]
    /\ missed = FALSE /\ overtaken = FALSE

-----------------------------------------------------------------------------
(* The server *)

Publish(type, m) ==
    /\ now' = now + 1
    /\ IF conn = "up"
       THEN stream' = Append(stream, [type |-> type, message |-> m, write |-> now']) /\ UNCHANGED missed
       ELSE missed' = TRUE /\ UNCHANGED stream

Update(m) ==
    /\ now < MaxWrites
    /\ Publish("updated", m)
    /\ server' = [server EXCEPT ![m] = now']
    /\ UNCHANGED <<conn, ends, queue, timer, store, sync, overtaken>>

RemoveMessage(m) ==
    /\ now < MaxWrites /\ server[m] # 0
    /\ Publish("removed", m)
    /\ server' = [server EXCEPT ![m] = 0]
    /\ UNCHANGED <<conn, ends, queue, timer, store, sync, overtaken>>

-----------------------------------------------------------------------------
(* The reducer and the batches *)

\* The removal of a message of a session that is not loaded throws.
Throws(s, e) == e.type = "removed" /\ s = Unloaded

Reduce(s, e) ==
    CASE e.type = "updated" -> [(IF s = Unloaded THEN Empty ELSE s) EXCEPT ![e.message] = e.write]
      [] e.type = "removed" /\ s # Unloaded -> [s EXCEPT ![e.message] = 0]
      [] OTHER -> s

\* The events of a batch, one after the other.
Applied(s, events) ==
    LET after[i \in 0..Len(events)] == IF i = 0 THEN s ELSE Reduce(after[i - 1], events[i])
    IN  after[Len(events)]

\* An update loads the list: only an event before the first update can throw.
Thrown(events) == events # <<>> /\ Throws(store, Head(events))

\* What throws takes the rest of its batch with it.
Flush(events, lost) ==
    /\ queue' = <<>> /\ timer' = FALSE
    /\ store' = IF Thrown(events) THEN store ELSE Applied(store, events)
    /\ missed' = (missed \/ lost \/ Thrown(events))
    /\ overtaken' = (overtaken \/ \E i \in 1..Len(events) : sync.at = "replied" /\ events[i].write > sync.asOf)

\* In the loop over the stream: the exception ends it.
FlushInLoop(events, lost, next) ==
    /\ Flush(events, lost)
    /\ conn' = IF Thrown(events) THEN "over" ELSE next

HandleEvent ==
    /\ conn = "up" /\ stream # <<>>
    /\ LET events == Append(queue, Head(stream)) IN
       \/ queue' = events /\ timer' = TRUE /\ UNCHANGED <<store, missed, overtaken, conn>>
       \/ ~timer /\ FlushInLoop(events, FALSE, "up")
    /\ stream' = Tail(stream)
    /\ UNCHANGED <<now, server, ends, sync>>

TimerFires ==
    /\ timer
    /\ Flush(queue, FALSE)
    /\ UNCHANGED <<now, server, stream, conn, ends, sync>>

\* Mutant: the timer is cleared and the batch is left.
StreamEndsUnflushed ==
    /\ conn = "up" /\ ends < MaxEnds
    /\ stream' = <<>>
    /\ conn' = "down" /\ timer' = FALSE
    /\ missed' = (missed \/ stream # <<>>)
    /\ ends' = ends + 1
    /\ UNCHANGED <<now, server, sync, queue, store, overtaken>>

\* The connection ends; what has come is applied.
StreamEnds ==
    /\ conn = "up" /\ ends < MaxEnds
    /\ stream' = <<>>
    /\ FlushInLoop(queue, stream # <<>>, "down")
    /\ ends' = ends + 1
    /\ UNCHANGED <<now, server, sync>>

Reconnect ==
    /\ conn = "down"
    /\ conn' = "up"
    /\ UNCHANGED <<now, server, stream, ends, queue, timer, store, sync, missed, overtaken>>

-----------------------------------------------------------------------------
(* session.sync *)

SyncAsk ==
    /\ sync.at = "none"
    /\ sync' = [sync EXCEPT !.at = "asked"]
    /\ UNCHANGED <<now, server, stream, conn, ends, queue, timer, store, missed, overtaken>>

\* The server reads the session, or fails.
SyncReply ==
    /\ sync.at = "asked"
    /\ \/ sync' = [at |-> "replied", reply |-> server, asOf |-> now]
       \/ sync' = [sync EXCEPT !.at = "none"]
    /\ UNCHANGED <<now, server, stream, conn, ends, queue, timer, store, missed, overtaken>>

\* Mutant: a list that is there already is kept.
SyncApplyNew ==
    /\ sync.at = "replied"
    /\ store' = IF store = Unloaded THEN sync.reply ELSE store
    /\ sync' = [sync EXCEPT !.at = "done"]
    /\ UNCHANGED <<now, server, stream, conn, ends, queue, timer, missed, overtaken>>

\* The answer takes the place of what the store holds; it is not asked for again.
SyncApply ==
    /\ sync.at = "replied"
    /\ store' = sync.reply
    /\ sync' = [sync EXCEPT !.at = "done"]
    /\ UNCHANGED <<now, server, stream, conn, ends, queue, timer, missed, overtaken>>

GoesOn == TimerFires \/ Reconnect

Next ==
    \/ \E m \in Messages : Update(m) \/ RemoveMessage(m)
    \/ HandleEvent \/ StreamEnds
    \/ SyncAsk \/ SyncReply \/ SyncApply
    \/ GoesOn

\* The timer fires and the backoff ends.
Spec == Init /\ [][Next]_svars /\ WF_svars(GoesOn)

-----------------------------------------------------------------------------
(* Properties *)

TypeOK ==
    /\ now \in 0..MaxWrites /\ server \in [Messages -> 0..MaxWrites]
    /\ conn \in {"up", "down", "over"}
    /\ store = Unloaded \/ store \in [Messages -> 0..MaxWrites]
    /\ sync.at \in {"none", "asked", "replied", "done"}
    /\ timer \in BOOLEAN /\ missed \in BOOLEAN /\ overtaken \in BOOLEAN

Settled == conn = "up" /\ stream = <<>> /\ queue = <<>>

\* When all events have come the client shows what the server has, unless one was lost
\* or one overtook the answer to sync.
ShowsServer == sync.at = "done" /\ Settled /\ ~missed /\ ~overtaken => store = server

\* What has come is applied or, with its batch, given up.  It comes to that again and
\* again: EverythingEnds of MCServices.
NobodyWaits == queue = <<>>

\* Wanted, but does not hold:
\* A client that is connected again shows what the server has.
Converges == sync.at = "done" /\ Settled => store = server

\* Wanted, but does not hold:
\* The client goes on listening.
KeepsListening == conn # "over"
=============================================================================
