----------------------------- MODULE McpClients -----------------------------
(***************************************************************************)
(* The connections to one MCP server: add, connect, disconnect and the     *)
(* watch for changes of the tool list, of mcp/index.ts.                    *)
(*                                                                         *)
(* Between two awaits a call changes status, clients and defs at once; it  *)
(* awaits the connection, the first list of tools and the close of the     *)
(* client before.                                                          *)
(***************************************************************************)
EXTENDS Naturals, FiniteSets

CONSTANTS
    Connects,    \* the calls of add and connect; each may make a client, its name is the call's
    Disconnects, \* the calls of disconnect
    NoClient

VARIABLES
    stored,    \* s.clients[name]
    status,    \* s.status[name]
    defs,      \* s.defs[name]: the client that listed them
    client,    \* the client of each connect: not made, open or closed
    call,      \* where each call is
    listing,   \* clients whose changed list is on its way
    overlapped \* two calls were closing the client before at once

mvars == <<stored, status, defs, client, call, listing, overlapped>>

McpCalls == Connects \cup Disconnects

Init ==
    /\ stored = NoClient /\ status = "disabled" /\ defs = NoClient
    /\ client = [c \in Connects |-> "none"]
    /\ call = [c \in McpCalls |-> "new"]
    /\ listing = {}
    /\ overlapped = FALSE

Closing == {c \in McpCalls : call[c] \in {"closing", "closingFailed", "disconnecting"}}

\* closeClient drops the tools, and closes the client if there is one.
CloseStored ==
    /\ defs' = NoClient
    /\ client' = IF stored = NoClient THEN client ELSE [client EXCEPT ![stored] = "closed"]

\* What a call does once the client before is closed.
Finish(c, how) ==
    CASE how = "closing" -> stored' = c /\ defs' = c /\ status' = "connected"
      [] how = "closingFailed" -> stored' = NoClient /\ UNCHANGED <<defs, status>>
      [] how = "disconnecting" -> stored' = NoClient /\ status' = "disabled" /\ UNCHANGED defs

-----------------------------------------------------------------------------
(* add, connect *)

\* Connected, and the tools are listed; a client whose tools are not is closed.
Create(c) ==
    /\ c \in Connects /\ call[c] = "new"
    /\ \/ client' = [client EXCEPT ![c] = "open"] /\ call' = [call EXCEPT ![c] = "created"]
       \/ UNCHANGED client /\ call' = [call EXCEPT ![c] = "failed"]
    /\ UNCHANGED <<stored, status, defs, listing, overlapped>>

\* Mutant: the client before is not closed.
StoreOnly(c) ==
    /\ call[c] \in {"created", "failed"}
    /\ status' = IF call[c] = "created" THEN "connected" ELSE "failed"
    /\ stored' = IF call[c] = "created" THEN c ELSE NoClient
    /\ defs' = stored'
    /\ call' = [call EXCEPT ![c] = "done"]
    /\ UNCHANGED <<client, listing, overlapped>>

\* createAndStore: the status at once, the rest when the client before is closed.
Store(c) ==
    /\ call[c] \in {"created", "failed"}
    /\ status' = IF call[c] = "created" THEN "connected" ELSE "failed"
    /\ IF stored = NoClient
       THEN /\ stored' = IF call[c] = "created" THEN c ELSE NoClient
            /\ defs' = stored'
            /\ call' = [call EXCEPT ![c] = "done"]
            /\ UNCHANGED <<client, overlapped>>
       ELSE /\ CloseStored
            /\ call' = [call EXCEPT ![c] = IF @ = "created" THEN "closing" ELSE "closingFailed"]
            /\ overlapped' = (overlapped \/ Closing # {})
            /\ UNCHANGED stored
    /\ UNCHANGED listing

Closed(c) ==
    /\ c \in Closing
    /\ Finish(c, call[c])
    /\ call' = [call EXCEPT ![c] = "done"]
    /\ UNCHANGED <<client, listing, overlapped>>

Disconnect(c) ==
    /\ c \in Disconnects /\ call[c] = "new"
    /\ CloseStored
    /\ IF stored = NoClient
       THEN status' = "disabled" /\ call' = [call EXCEPT ![c] = "done"] /\ UNCHANGED overlapped
       ELSE /\ call' = [call EXCEPT ![c] = "disconnecting"]
            /\ overlapped' = (overlapped \/ Closing # {})
            /\ UNCHANGED status
    /\ UNCHANGED <<stored, listing>>

-----------------------------------------------------------------------------
(* watch *)

Current(c) == stored = c /\ status = "connected"

ListChanged(c) ==
    /\ client[c] = "open" /\ Current(c)
    /\ listing' = listing \cup {c}
    /\ UNCHANGED <<stored, status, defs, client, call, overlapped>>

\* Mutant: the list is stored without another look.
ListedAnyway(c) ==
    /\ c \in listing
    /\ listing' = listing \ {c}
    /\ defs' = c
    /\ UNCHANGED <<stored, status, client, call, overlapped>>

\* Whose client is current is asked again after the list has come.
Listed(c) ==
    /\ c \in listing
    /\ listing' = listing \ {c}
    /\ defs' = IF Current(c) THEN c ELSE defs
    /\ UNCHANGED <<stored, status, client, call, overlapped>>

Next ==
    \/ \E c \in McpCalls : Create(c) \/ Store(c) \/ Closed(c) \/ Disconnect(c)
    \/ \E c \in Connects : ListChanged(c) \/ Listed(c)

Spec == Init /\ [][Next]_mvars

-----------------------------------------------------------------------------
(* Properties *)

TypeOK ==
    /\ stored \in Connects \cup {NoClient} /\ defs \in Connects \cup {NoClient}
    /\ status \in {"disabled", "connected", "failed"}
    /\ client \in [Connects -> {"none", "open", "closed"}]
    /\ listing \subseteq Connects

Offered == stored # NoClient /\ status = "connected" /\ defs # NoClient

\* The tools that the model is offered were listed by the client they are called on.
ToolsOfClient == Offered => defs = stored

Quiet == \A c \in McpCalls : call[c] \in {"new", "done"}

\* Calls that do not close at the same time keep one open client, or none, and
\* the status says which.
OneClient ==
    Quiet /\ ~overlapped =>
        /\ \A c \in Connects : client[c] = "open" <=> c = stored
        /\ status = "connected" <=> stored # NoClient

\* Wanted, but does not hold:
\* No client is left open and forgotten.
NoClientLost == Quiet => \A c \in Connects : client[c] = "open" => c = stored

\* A server has the client, the status and the tools that belong together.
ClientsAgree == TypeOK /\ ToolsOfClient /\ OneClient
=============================================================================
