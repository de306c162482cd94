----------------------------- MODULE LspClients -----------------------------
(***************************************************************************)
(* The language server of one root: getClients of lsp/lsp.ts, the          *)
(* handshake of lsp/client.ts, and the end of the instance.  Calls share   *)
(* one spawn; a server that failed is not tried again.                     *)
(***************************************************************************)

CONSTANTS
    Calls,    \* the calls of getClients that need the server
    Servers   \* the processes that are spawned

VARIABLES
    clients,  \* s.clients
    broken,   \* s.broken has the server
    spawning, \* s.spawning: the calls that wait for the spawn under way, with its process
    process,  \* each process: not there, spawned, initialized, stopped
    call,     \* where each call is
    disposed  \* the state was disposed

lvars == <<clients, broken, spawning, process, call, disposed>>

NoSpawn == [server |-> "none", waiting |-> {}]

Init ==
    /\ clients = {} /\ broken = FALSE /\ spawning = NoSpawn
    /\ process = [x \in Servers |-> "none"]
    /\ call = [c \in Calls |-> "new"]
    /\ disposed = FALSE

Spawning == spawning.waiting # {}

-----------------------------------------------------------------------------
(* getClients *)

\* The root of the file is looked for.
Ask(c) ==
    /\ call[c] = "new"
    /\ call' = [call EXCEPT ![c] = "root"]
    /\ UNCHANGED <<clients, broken, spawning, process, disposed>>

Skip(c) ==
    /\ call[c] = "root" /\ broken
    /\ call' = [call EXCEPT ![c] = "without"]
    /\ UNCHANGED <<clients, broken, spawning, process, disposed>>

Match(c) ==
    /\ call[c] = "root" /\ ~broken /\ clients # {}
    /\ call' = [call EXCEPT ![c] = "with"]
    /\ UNCHANGED <<clients, broken, spawning, process, disposed>>

\* Mutant: a spawn is looked for where only clients are.
JoinOrSpawnAnyway(c) ==
    /\ call[c] = "root" /\ ~broken /\ clients = {}
    /\ call' = [call EXCEPT ![c] = "waiting"]
    /\ \E x \in Servers : process[x] = "none" /\ process' = [process EXCEPT ![x] = "spawned"]
                          /\ spawning' = [server |-> x, waiting |-> spawning.waiting \cup {c}]
    /\ UNCHANGED <<clients, broken, disposed>>

JoinOrSpawn(c) ==
    /\ call[c] = "root" /\ ~broken /\ clients = {}
    /\ call' = [call EXCEPT ![c] = "waiting"]
    /\ IF Spawning
       THEN spawning' = [spawning EXCEPT !.waiting = @ \cup {c}] /\ UNCHANGED process
       ELSE \E x \in Servers : process[x] = "none" /\ process' = [process EXCEPT ![x] = "spawned"]
                               /\ spawning' = [server |-> x, waiting |-> {c}]
    /\ UNCHANGED <<clients, broken, disposed>>

Settle(how) ==
    /\ call' = [c \in Calls |-> IF c \in spawning.waiting THEN how ELSE call[c]]
    /\ spawning' = NoSpawn

Initialized ==
    /\ Spawning /\ process[spawning.server] = "spawned"
    /\ process' = [process EXCEPT ![spawning.server] = "initialized"]
    /\ clients' = clients \cup {spawning.server}
    /\ Settle("with")
    /\ UNCHANGED <<broken, disposed>>

\* Mutant: a server that failed may be tried again by those who waited.
FailsUnmarked ==
    /\ Spawning
    /\ process' = [process EXCEPT ![spawning.server] = "stopped"]
    /\ call' = [c \in Calls |-> IF c \in spawning.waiting THEN "root" ELSE call[c]]
    /\ spawning' = NoSpawn
    /\ UNCHANGED <<clients, broken, disposed>>

\* It cannot be spawned, or does not answer initialize within its time: the process
\* is stopped.
Fails ==
    /\ Spawning
    /\ broken' = TRUE
    /\ process' = [process EXCEPT ![spawning.server] = "stopped"]
    /\ Settle("without")
    /\ UNCHANGED <<clients, disposed>>

-----------------------------------------------------------------------------
\* The instance ends: the clients there are now are shut down.
Dispose ==
    /\ ~disposed
    /\ disposed' = TRUE
    /\ process' = [x \in Servers |-> IF x \in clients THEN "stopped" ELSE process[x]]
    /\ UNCHANGED <<clients, broken, spawning, call>>

\* A server dies; nobody looks.
Dies(x) ==
    /\ process[x] = "initialized"
    /\ process' = [process EXCEPT ![x] = "stopped"]
    /\ UNCHANGED <<clients, broken, spawning, call, disposed>>

GoesOn ==
    \/ \E c \in Calls : Skip(c) \/ Match(c) \/ JoinOrSpawn(c)
    \/ Initialized \/ Fails

Next ==
    \/ \E c \in Calls : Ask(c)
    \/ GoesOn \/ Dispose
    \/ \E x \in Servers : Dies(x)

\* A spawn ends, one way or the other.
Spec == Init /\ [][Next]_lvars /\ WF_lvars(GoesOn)

-----------------------------------------------------------------------------
(* Properties *)

TypeOK ==
    /\ clients \subseteq Servers /\ spawning \in [server : Servers \cup {"none"}, waiting : SUBSET Calls]
    /\ broken \in BOOLEAN /\ disposed \in BOOLEAN
    /\ process \in [Servers -> {"none", "spawned", "initialized", "stopped"}]
    /\ call \in [Calls -> {"new", "root", "waiting", "with", "without"}]

Running == {x \in Servers : process[x] \in {"spawned", "initialized"}}

\* However many tools ask at once, one process runs for a root, and it is a client
\* or the one that is being spawned.
OneServer == (\A x, y \in Running : x = y) /\ Running \subseteq clients \cup {spawning.server}

\* Whoever has asked has gone on, with the server or without it.  It comes to that again
\* and again: EverythingEnds of MCServices.
NobodyWaits == \A c \in Calls : call[c] \in {"new", "with", "without"}

\* Wanted, but does not hold:
\* When the instance has ended no server of it is left.
NoServerLeft == disposed /\ ~Spawning => Running = {}

\* Wanted, but does not hold:
\* A client that is handed out has a server that runs.
ClientsLive == clients \subseteq Running
=============================================================================
