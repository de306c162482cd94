--------------------------- MODULE WorkspaceSync ---------------------------
(***************************************************************************)
(* A session in a remote workspace: control-plane/workspace.ts, replay of  *)
(* sync/index.ts, server/fence.ts and server/proxy.ts.                     *)
(*                                                                         *)
(* Two devices keep the log of the session's sync events in their own      *)
(* databases: the local server and the server of the workspace.  The       *)
(* number of an event is its place in the log.  A sync loop of the local   *)
(* server follows the remote log: it opens the event stream, asks for the  *)
(* history it lacks, then replays the stream.                              *)
(***************************************************************************)
EXTENDS Integers, Sequences

CONSTANTS
    Loops,       \* calls of syncWorkspaceLoop
    None,        \* no loop is registered
    MaxEvents,   \* a bound: events in a log
    MaxRestores, \* a bound: attempts to move the session
    MaxFaults,   \* a bound: connections that fail or break
    BatchSize,   \* rows per request of sessionRestore
    OneWriter    \* while the session moves, does only the move itself write?

VARIABLES
    log,        \* the event table of each device, in the order of the numbers
    moved,      \* the session's local row names the workspace: requests are proxied
    restore,    \* the call of sessionRestore: rows read, rows posted
    loop,       \* where each sync loop is, its history answer and its stream
    registered, \* aborts.get(workspace): the loop that stopSync would stop
    status,     \* connections.get(workspace)
    starting,   \* a startSync that has read the workspace and awaits its target
    removal,    \* Workspace.remove: "no", "sessions" removed, sync "stopped"
    request,    \* a proxied request and the fence its response waits for
    faults      \* connections that failed or broke so far

vars == <<log, moved, restore, loop, registered, status, starting, removal, request, faults>>

Devices == {"local", "remote"}

Init ==
    /\ \E d \in Devices :
        /\ log = [x \in Devices |-> IF x = d THEN <<[by |-> d, n |-> 1]>> ELSE <<>>]
        /\ moved = (d = "remote")
    /\ restore = [pc |-> "none", rows |-> <<>>, at |-> 0, tries |-> 0]
    /\ loop = [l \in Loops |-> [pc |-> "none", aborted |-> FALSE, asked |-> 0,
                               history |-> <<>>, stream |-> <<>>]]
    /\ registered = None
    /\ status = "none"
    /\ starting = FALSE
    /\ removal = "no"
    /\ request = [pc |-> "none", before |-> 0, after |-> 0, need |-> 0]
    /\ faults = 0

-----------------------------------------------------------------------------
(* SyncEvent: run and replay.  Both devices run one event at a time. *)

\* The events from number `first` on, as they travel.
Rows(events, first) ==
    [i \in 1..Len(events) - first + 1 |->
        [seq |-> first + i - 1, event |-> events[first + i - 1]]]

Made == IF Len(log.local) > Len(log.remote) THEN Len(log.local) ELSE Len(log.remote)
NewEvent(device) == [by |-> device, n |-> Made + 1]

\* Mutant: an event ahead of the log is stored as if it were the next.
ReplayAnyway(events, m) == IF m.seq <= Len(events) THEN events ELSE Append(events, m.event)

\* What is known is ignored; a gap throws and changes nothing.
Replay(events, m) == IF m.seq = Len(events) + 1 THEN Append(events, m.event) ELSE events

\* One after the other, until one throws.
ReplayAll(events, ms) ==
    LET after[i \in 0..Len(ms)] == IF i = 0 THEN events ELSE Replay(after[i - 1], ms[i])
    IN  after[Len(ms)]
Throws(events, ms) == ms # <<>> /\ Head(ms).seq > Len(events) + 1

\* Mutant: the stream is opened when the history has come.
HasStreamLate(l) == loop[l].pc = "connected"

HasStream(l) == loop[l].pc \in {"history", "replay", "connected"}

\* The remote server's own events go to the streams that are open.
Publish(m) ==
    loop' = [l \in Loops |-> IF HasStream(l) THEN [loop[l] EXCEPT !.stream = Append(@, m)]
                            ELSE loop[l]]

RunRemote ==
    /\ Made < MaxEvents
    /\ log.remote # <<>>
    /\ OneWriter => restore.pc \notin {"posting", "failed"}
    /\ log' = [log EXCEPT !.remote = Append(@, NewEvent("remote"))]
    /\ Publish([seq |-> Len(log.remote) + 1, event |-> NewEvent("remote")])
    /\ UNCHANGED <<moved, restore, registered, status, starting, removal, request, faults>>

\* Another process with the same database: its events are on no stream.
RunUnpublished ==
    /\ Made < MaxEvents
    /\ log.remote # <<>>
    /\ OneWriter => restore.pc \notin {"posting", "failed"}
    /\ log' = [log EXCEPT !.remote = Append(@, NewEvent("other"))]
    /\ UNCHANGED <<moved, restore, loop, registered, status, starting, removal, request, faults>>

\* A prompt that works on the local session; once the session has moved, one
\* that was under way.
RunLocal ==
    /\ Made < MaxEvents
    /\ log.local # <<>>
    /\ moved => ~OneWriter /\ restore.pc # "none"
    /\ log' = [log EXCEPT !.local = Append(@, NewEvent("local"))]
    /\ UNCHANGED <<moved, restore, loop, registered, status, starting, removal, request, faults>>

-----------------------------------------------------------------------------
(* sessionRestore: move the session, then post its whole log in batches *)

RestoreStart ==
    /\ restore.pc \in {"none", "failed"}
    /\ restore.tries < MaxRestores
    /\ Made < MaxEvents
    /\ removal = "no"
    /\ log.local # <<>> /\ Head(log.local).by = "local"
    /\ LET rows == Append(log.local, NewEvent("local"))
       IN  /\ log' = [log EXCEPT !.local = rows]
           /\ restore' = [pc |-> "posting", rows |-> Rows(rows, 1), at |-> 0, tries |-> restore.tries + 1]
    /\ moved' = TRUE
    /\ UNCHANGED <<loop, registered, status, starting, removal, request, faults>>

Batch ==
    LET left == Len(restore.rows) - restore.at
    IN  SubSeq(restore.rows, restore.at + 1, restore.at + (IF left < BatchSize THEN left ELSE BatchSize))

Post ==
    /\ restore.pc = "posting"
    /\ log' = [log EXCEPT !.remote = ReplayAll(@, Batch)]
    /\ LET at == restore.at + Len(Batch)
       IN  restore' = IF Throws(log.remote, Batch) THEN [restore EXCEPT !.pc = "failed"]
                      ELSE [restore EXCEPT !.at = at,
                                           !.pc = IF at = Len(restore.rows) THEN "done" ELSE @]
    /\ UNCHANGED <<moved, loop, registered, status, starting, removal, request, faults>>

\* Mutant: the status of the response is not looked at.
PostFailsUnseen ==
    /\ restore.pc = "posting"
    /\ faults < MaxFaults /\ faults' = faults + 1
    /\ LET at == restore.at + Len(Batch)
       IN  restore' = [restore EXCEPT !.at = at, !.pc = IF at = Len(restore.rows) THEN "done" ELSE @]
    /\ UNCHANGED <<log, moved, loop, registered, status, starting, removal, request>>

\* The request does not arrive, or only its response is lost.
PostFails ==
    /\ restore.pc = "posting"
    /\ faults < MaxFaults /\ faults' = faults + 1
    /\ \/ UNCHANGED log
       \/ log' = [log EXCEPT !.remote = ReplayAll(@, Batch)]
    /\ restore' = [restore EXCEPT !.pc = "failed"]
    /\ UNCHANGED <<moved, loop, registered, status, starting, removal, request>>

-----------------------------------------------------------------------------
(* startSync, stopSync and the sync loop *)

\* startSync reads the workspace's row and then awaits its adaptor.
StartSync ==
    /\ ~starting /\ removal # "stopped"
    /\ \E l \in Loops : loop[l].pc = "none"
    /\ starting' = TRUE
    /\ UNCHANGED <<log, moved, restore, loop, registered, status, removal, request, faults>>

\* Which of the loops that have not begun does not matter.
NextLoop == CHOOSE l \in Loops : loop[l].pc = "none"

StartLoop(l) ==
    /\ starting
    /\ loop[l].pc = "none" /\ l = NextLoop
    /\ starting' = FALSE
    /\ IF registered # None THEN UNCHANGED <<loop, registered, status>>
       ELSE /\ loop' = [loop EXCEPT ![l].pc = "top"]
            /\ registered' = l
            /\ status' = "disconnected"
    /\ UNCHANGED <<log, moved, restore, removal, request, faults>>

\* Workspace.remove deletes the workspace's sessions, then stops the loop that
\* is registered.
RemoveSessions ==
    /\ removal = "no"
    /\ removal' = "sessions"
    /\ log' = IF moved THEN [log EXCEPT !.local = <<>>] ELSE log
    /\ moved' = FALSE
    /\ UNCHANGED <<restore, loop, registered, status, starting, request, faults>>

StopSync ==
    /\ removal = "sessions"
    /\ removal' = "stopped"
    /\ loop' = [l \in Loops |-> IF l = registered THEN [loop[l] EXCEPT !.aborted = TRUE] ELSE loop[l]]
    /\ registered' = None
    /\ status' = "none"
    /\ UNCHANGED <<log, moved, restore, starting, request, faults>>

Top(l) ==
    /\ loop[l].pc = "top"
    /\ loop' = [loop EXCEPT ![l].pc = IF loop[l].aborted THEN "ended" ELSE "connect"]
    /\ status' = IF loop[l].aborted THEN status ELSE "connecting"
    /\ UNCHANGED <<log, moved, restore, registered, starting, removal, request, faults>>

\* The stream is open, and the question for the history under way: what the
\* workspace's sessions have so far, nothing for a session not yet here.
Connect(l) ==
    /\ loop[l].pc = "connect"
    /\ ~loop[l].aborted
    /\ loop' = [loop EXCEPT ![l].pc = "history", ![l].asked = IF moved THEN Len(log.local) ELSE 0]
    /\ UNCHANGED <<log, moved, restore, registered, status, starting, removal, request, faults>>

\* Mutant: the answer starts one event too late.
AnswerHistoryPastNext(l) ==
    /\ loop[l].pc = "history"
    /\ ~loop[l].aborted
    /\ loop' = [loop EXCEPT ![l].pc = "replay", ![l].asked = 0,
                           ![l].history = Rows(log.remote, loop[l].asked + 2)]
    /\ UNCHANGED <<log, moved, restore, registered, status, starting, removal, request, faults>>

AnswerHistory(l) ==
    /\ loop[l].pc = "history"
    /\ ~loop[l].aborted
    /\ loop' = [loop EXCEPT ![l].pc = "replay", ![l].asked = 0,
                           ![l].history = Rows(log.remote, loop[l].asked + 1)]
    /\ UNCHANGED <<log, moved, restore, registered, status, starting, removal, request, faults>>

\* Where an attempt that failed leaves the loop, and what setStatus does.
Sleeping(l) == [loop[l] EXCEPT !.pc = "sleep", !.asked = 0, !.history = <<>>, !.stream = <<>>]
SetError ==
    /\ status' = "error"
    /\ registered' = IF status = "error" THEN registered ELSE None

ReplayHistory(l) ==
    /\ loop[l].pc = "replay"
    /\ log' = [log EXCEPT !.local = ReplayAll(@, loop[l].history)]
    /\ IF Throws(log.local, loop[l].history)
       THEN loop' = [loop EXCEPT ![l] = Sleeping(l)] /\ SetError
       ELSE /\ loop' = [loop EXCEPT ![l].pc = "connected", ![l].history = <<>>]
            /\ status' = "connected"
            /\ UNCHANGED registered
    /\ moved' = (moved \/ log'.local # log.local)
    /\ UNCHANGED <<restore, starting, removal, request, faults>>

\* The stream or the history cannot be had, or the loop was stopped meanwhile.
ConnectFails(l) ==
    /\ loop[l].pc \in {"connect", "history", "replay"}
    /\ loop[l].aborted \/ faults < MaxFaults
    /\ faults' = IF loop[l].aborted THEN faults ELSE faults + 1
    /\ loop' = [loop EXCEPT ![l] = Sleeping(l)]
    /\ SetError
    /\ UNCHANGED <<log, moved, restore, starting, removal, request>>

\* An event of the stream; one with a gap is logged and dropped.
Deliver(l) ==
    /\ loop[l].pc = "connected"
    /\ ~loop[l].aborted
    /\ loop[l].stream # <<>>
    /\ log' = [log EXCEPT !.local = Replay(@, Head(loop[l].stream))]
    /\ loop' = [loop EXCEPT ![l].stream = Tail(@)]
    /\ moved' = (moved \/ log'.local # log.local)
    /\ UNCHANGED <<restore, registered, status, starting, removal, request, faults>>

StreamEnds(l) ==
    /\ loop[l].pc = "connected"
    /\ loop[l].aborted \/ faults < MaxFaults
    /\ faults' = IF loop[l].aborted THEN faults ELSE faults + 1
    /\ loop' = [loop EXCEPT ![l] = Sleeping(l)]
    /\ status' = "disconnected"
    /\ UNCHANGED <<log, moved, restore, registered, starting, removal, request>>

Wake(l) ==
    /\ loop[l].pc = "sleep"
    /\ loop' = [loop EXCEPT ![l].pc = "top"]
    /\ UNCHANGED <<log, moved, restore, registered, status, starting, removal, request, faults>>

-----------------------------------------------------------------------------
(* A request for the session: proxied, fenced.  proxy.http calls the async     *)
(* isSyncing without awaiting it, so it forwards whether a loop runs or not.    *)

SendRequest ==
    /\ moved
    /\ request.pc = "none"
    /\ request' = [pc |-> "sent", before |-> Len(log.remote), after |-> 0, need |-> 0]
    /\ UNCHANGED <<log, moved, restore, loop, registered, status, starting, removal, faults>>

\* Mutant: the fence names the log before the handler.
AnswerWithOldFence ==
    /\ request.pc = "sent"
    /\ request' = [request EXCEPT !.pc = "waiting", !.after = Len(log.remote), !.need = request.before]
    /\ UNCHANGED <<log, moved, restore, loop, registered, status, starting, removal, faults>>

\* FenceMiddleware: the number after the handler, if it has changed; without it the
\* response passes at once.
AnswerRequest ==
    /\ request.pc = "sent"
    /\ request' = IF Len(log.remote) = request.before
                  THEN [pc |-> "passed", before |-> 0, after |-> 0, need |-> 0]
                  ELSE [request EXCEPT !.pc = "waiting", !.after = Len(log.remote), !.need = Len(log.remote)]
    /\ UNCHANGED <<log, moved, restore, loop, registered, status, starting, removal, faults>>

\* waitForSync: at once, or when an event makes it look again.
PassFence ==
    /\ request.pc = "waiting"
    /\ Len(log.local) >= request.need
    /\ request' = [request EXCEPT !.pc = "passed"]
    /\ UNCHANGED <<log, moved, restore, loop, registered, status, starting, removal, faults>>

FenceTimeout ==
    /\ request.pc = "waiting"
    /\ Len(log.local) < request.need
    /\ request' = [pc |-> "failed", before |-> 0, after |-> 0, need |-> 0]
    /\ UNCHANGED <<log, moved, restore, loop, registered, status, starting, removal, faults>>

-----------------------------------------------------------------------------
LoopGoesOn(l) ==
    \/ Top(l) \/ Connect(l) \/ AnswerHistory(l) \/ ReplayHistory(l) \/ Deliver(l) \/ Wake(l)

Next ==
    \/ RunRemote \/ RunUnpublished \/ RunLocal
    \/ RestoreStart \/ Post \/ PostFails
    \/ StartSync \/ RemoveSessions \/ StopSync
    \/ \E l \in Loops : StartLoop(l) \/ LoopGoesOn(l) \/ ConnectFails(l) \/ StreamEnds(l)
    \/ SendRequest \/ AnswerRequest \/ PassFence \/ FenceTimeout

\* A loop goes on with its calls, and those that do not fail return.
Fairness == \A l \in Loops : WF_vars(LoopGoesOn(l))

Spec == Init /\ [][Next]_vars /\ Fairness

-----------------------------------------------------------------------------
(* Properties *)

\* "Because only one device is allowed to write": the two logs never hold
\* different events under one number.
LogsAgree ==
    \A i \in DOMAIN log.local \cap DOMAIN log.remote : log.local[i] = log.remote[i]

\* A stream that was opened before the history was read misses nothing: what the
\* local log lacks is on its way, but for the events of other processes.
NothingMissed ==
    \A l \in Loops : loop[l].pc = "connected" /\ removal = "no" =>
        \A i \in DOMAIN log.remote :
            \/ i <= Len(log.local)
            \/ \E j \in 1..i : log.remote[j].by = "other"
            \/ \E j \in DOMAIN loop[l].stream : loop[l].stream[j].seq = i

\* A response that has passed its fence comes when the events of its request are
\* in the local log.
FenceShowsWrites ==
    request.pc = "passed" /\ removal = "no" =>
        \A i \in DOMAIN log.remote :
            i \in request.before + 1..request.after =>
                i \in DOMAIN log.local /\ log.local[i] = log.remote[i]

\* The events of a session that was moved completely are all on the remote device.
RestoreComplete ==
    restore.pc = "done" => \A i \in DOMAIN restore.rows :
        i \in DOMAIN log.remote /\ log.remote[i] = restore.rows[i].event

\* While a loop stays connected and no other process writes, the local log gets
\* everything the remote log has.
CatchesUp ==
    <>[](/\ \E l \in Loops : loop[l].pc = "connected"
         /\ removal = "no"
         /\ \A i \in DOMAIN log.remote : log.remote[i].by # "other")
        => <>[](\A i \in DOMAIN log.remote : i \in DOMAIN log.local /\ log.local[i] = log.remote[i])

\* Events that are waited for arrive: by the stream, before a fenced response, and
\* with a session that is moved.
EventsArrive == NothingMissed /\ FenceShowsWrites /\ RestoreComplete
=============================================================================
