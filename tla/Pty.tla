-------------------------------- MODULE Pty --------------------------------
(***************************************************************************)
(* One terminal of pty/index.ts, with the sockets that routes/instance/    *)
(* pty.ts connects to it.                                                  *)
(*                                                                         *)
(* Output is counted, a piece of it is its position.  A client that comes  *)
(* back names the position up to which it has the output; the server keeps *)
(* the last Limit positions.  Between two awaits the code runs at once.    *)
(***************************************************************************)
EXTENDS Integers, Sequences, SequencesExt

CONSTANTS
    Clients,
    Limit,    \* BUFFER_LIMIT
    MaxCursor \* a bound: how much output there is

VARIABLES
    creating, \* where create is
    process,
    status,   \* info.status
    listed,   \* is the session in the state of the directory, or in one that was disposed?
    cursor, bufferCursor,
    subscribers,
    client,   \* each client: its socket, where it began, its cursor, what it was sent
    events    \* what was published about the session

yvars == <<creating, process, status, listed, cursor, bufferCursor, subscribers, client, events>>

Init ==
    /\ creating = "new" /\ process = "none" /\ status = "running" /\ listed = "no"
    /\ cursor = 0 /\ bufferCursor = 0
    /\ subscribers = {}
    /\ client = [c \in Clients |-> [socket |-> "none", base |-> 0, at |-> 0, got |-> <<>>]]
    /\ events = <<>>

-----------------------------------------------------------------------------
(* create *)

\* The plugins and the library are awaited.
Create ==
    /\ creating = "new"
    /\ creating' = "preparing"
    /\ UNCHANGED <<process, status, listed, cursor, bufferCursor, subscribers, client, events>>

Created ==
    /\ creating \in {"preparing", "preparingDisposed"}
    /\ creating' = "done"
    /\ process' = "running"
    /\ listed' = IF creating = "preparing" THEN "yes" ELSE "disposed"
    /\ events' = Append(events, "created")
    /\ UNCHANGED <<status, cursor, bufferCursor, subscribers, client>>

-----------------------------------------------------------------------------
(* onData *)

Positions(from, to) == [i \in 1..to - from |-> from + i - 1]

Sent(c, from, to) == [client EXCEPT ![c].got = @ \o Positions(from, to), ![c].at = to]

\* Sockets that are not open are forgotten.
Output(n) ==
    /\ process \in {"running", "killed"}
    /\ cursor + n <= MaxCursor
    /\ cursor' = cursor + n
    /\ subscribers' = {c \in subscribers : client[c].socket = "open"}
    /\ client' = [c \in Clients |-> IF c \in subscribers' THEN Sent(c, cursor, cursor')[c] ELSE client[c]]
    /\ bufferCursor' = IF cursor' - bufferCursor > Limit THEN cursor' - Limit ELSE bufferCursor
    /\ UNCHANGED <<creating, process, status, listed, events>>

-----------------------------------------------------------------------------
(* teardown, remove, onExit, the end of the instance *)

\* Mutant: the sockets are forgotten and stay open.
CloseNone == subscribers' = {} /\ UNCHANGED client

CloseAll ==
    /\ client' = [c \in Clients |-> IF c \in subscribers THEN [client[c] EXCEPT !.socket = "closed"] ELSE client[c]]
    /\ subscribers' = {}

\* Mutant: the end is told whenever the process ends.
ExitedAgain == Append(events, "exited")

\* onExit: the end is told once.
Exited == IF status = "exited" THEN events ELSE Append(events, "exited")

\* kill: one library (bun-pty) calls onExit before it returns, the other (node-pty)
\* when the process has ended.
Kill(last) ==
    IF process # "running" THEN events' = events \o last /\ UNCHANGED <<process, status>>
    ELSE /\ process' = "killed"
         /\ \/ status' = "exited" /\ events' = Exited \o last
            \/ events' = events \o last /\ UNCHANGED status

RemovePty ==
    /\ listed = "yes"
    /\ listed' = "no"
    /\ CloseAll
    /\ Kill(<<"deleted">>)
    /\ UNCHANGED <<creating, cursor, bufferCursor>>

\* The process ends; onExit publishes and removes the session.
ProcessEnds ==
    /\ process \in {"running", "killed"}
    /\ process' = "ended"
    /\ status' = "exited"
    /\ IF listed = "yes"
       THEN listed' = "no" /\ CloseAll /\ events' = Exited \o <<"deleted">>
       ELSE events' = Exited /\ UNCHANGED <<listed, subscribers, client>>
    /\ UNCHANGED <<creating, cursor, bufferCursor>>

\* The finalizer of the state: the sessions it holds are torn down.
Dispose ==
    /\ creating # "new"
    /\ creating' = IF creating = "preparing" THEN "preparingDisposed" ELSE creating
    /\ IF listed = "yes"
       THEN listed' = "no" /\ CloseAll /\ Kill(<<>>)
       ELSE UNCHANGED <<process, status, listed, subscribers, client, events>>
    /\ UNCHANGED <<cursor, bufferCursor>>

-----------------------------------------------------------------------------
(* The sockets *)

\* The route asks first whether the session is there.
Open(c) ==
    /\ client[c].socket \in {"none", "closed"} /\ c \notin subscribers
    /\ listed = "yes"
    /\ client' = [client EXCEPT ![c].socket = "opening"]
    /\ UNCHANGED <<creating, process, status, listed, cursor, bufferCursor, subscribers, events>>

\* Mutant: the client's cursor is taken for an offset into the buffer.
OffsetRaw(from) == from

\* Where the buffer goes on for a client that has everything before `from`.
Offset(from) == IF from > bufferCursor THEN from - bufferCursor ELSE 0

\* What is in the buffer from the client's cursor on; -1 asks for what is to come.
Connect(c, from) ==
    /\ client[c].socket = "opening"
    /\ from = client[c].at \/ (client[c].at = 0 /\ from = -1)
    /\ IF listed # "yes"
       THEN client' = [client EXCEPT ![c].socket = "closed"] /\ UNCHANGED subscribers
       ELSE /\ subscribers' = subscribers \cup {c}
            /\ LET first == IF from = -1 THEN cursor ELSE bufferCursor + Offset(from)
                   next == IF first < cursor THEN Sent(c, first, cursor) ELSE [client EXCEPT ![c].at = cursor]
               IN  client' = [next EXCEPT ![c].socket = "open", ![c].base = IF from = -1 THEN cursor ELSE @]
    /\ UNCHANGED <<creating, process, status, listed, cursor, bufferCursor, events>>

\* The connection is lost, the server may not know yet.
Lost(c) ==
    /\ client[c].socket = "open"
    /\ client' = [client EXCEPT ![c].socket = "closed"]
    /\ UNCHANGED <<creating, process, status, listed, cursor, bufferCursor, subscribers, events>>

OnClose(c) ==
    /\ client[c].socket = "closed" /\ c \in subscribers
    /\ subscribers' = subscribers \ {c}
    /\ UNCHANGED <<creating, process, status, listed, cursor, bufferCursor, client, events>>

Next ==
    \/ Create \/ Created \/ RemovePty \/ ProcessEnds \/ Dispose
    \/ \E n \in 1..2 : Output(n)
    \/ \E c \in Clients : Open(c) \/ Lost(c) \/ OnClose(c)
    \/ \E c \in Clients, from \in -1..MaxCursor : Connect(c, from)

Spec == Init /\ [][Next]_yvars

-----------------------------------------------------------------------------
(* Properties *)

TypeOK ==
    /\ creating \in {"new", "preparing", "preparingDisposed", "done"}
    /\ process \in {"none", "running", "killed", "ended"} /\ status \in {"running", "exited"}
    /\ listed \in {"no", "yes", "disposed"}
    /\ cursor \in 0..MaxCursor /\ bufferCursor \in 0..cursor
    /\ subscribers \subseteq Clients
    /\ events \in Seq({"created", "exited", "deleted"})

\* A client that comes back with its cursor gets the output in order, nothing twice,
\* and misses only what the buffer has dropped.
StreamIntact ==
    \A c \in Clients : LET got == client[c].got IN
        /\ \A i, j \in DOMAIN got : i < j => got[i] < got[j]
        /\ \A k \in client[c].base..client[c].at - 1 : k \in Range(got) \/ k < bufferCursor

\* Nobody stays connected to a terminal that is gone.
SocketsEnd == listed # "yes" => \A c \in Clients : client[c].socket # "open"

\* The end of the process is told exactly once, whoever ended it.
ExitToldOnce ==
    /\ \A i, j \in DOMAIN events : events[i] = "exited" /\ events[j] = "exited" => i = j
    /\ status = "exited" <=> \E i \in DOMAIN events : events[i] = "exited"
    /\ process = "ended" => status = "exited"

\* Wanted, but does not hold:
\* The events come in the order created, exited, deleted.
EventsInOrder == IsPrefix(events, <<"created", "exited", "deleted">>)

\* Wanted, but does not hold:
\* A process that runs can be found and ended.
NoShellLost == process = "running" => listed = "yes"

\* The clients of a terminal get its output, and its end, once.
TerminalIsTold == TypeOK /\ StreamIntact /\ SocketsEnd /\ ExitToldOnce
=============================================================================
