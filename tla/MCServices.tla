----------------------------- MODULE MCServices -----------------------------
(***************************************************************************)
(* Instances, for TLC, of the services around a session, one beside the    *)
(* other: the agent processes, the instances of a directory, MCP, terminals,*)
(* language servers, the terminal client's store, the event tables, a      *)
(* session that moves to a workspace, the tokens of an account, the         *)
(* sessions of older versions and the plugins of the terminal client.  A   *)
(* behaviour is one of the part that `moving` names; the others stay where *)
(* they are.                                                               *)
(***************************************************************************)
EXTENDS Naturals

CONSTANTS
    AgentCalls, MaxChunks,
    MaxTurns, MaxUpdates,
    Sessions, Turns, MaxSpawns,
    Requests, Ops, MaxBoots,
    Connects, Disconnects, NoClient,
    MaxFlows,
    Clients, Limit, MaxCursor,
    Messages, Unloaded, MaxWrites, MaxEnds,
    Calls, Servers,
    Touches, NoDocument, MaxContents, MaxPushes,
    Processes, MaxSeq,
    Tools, Asked, Nothing, MaxText, MaxNews,
    Loops, None, MaxEvents, MaxRestores, MaxFaults, BatchSize, OneWriter,
    Callers, NoRow, MaxLogins, MaxRefreshes,
    MaxRecords, MaxStarts, MaxWork,
    Found, Added, Activations, NoScope, MaxHooks

VARIABLES
    moving,
    passage, known, session, said, outcome, over,
    turn, at, bound, waiting, yielded, queue, routed, listens, prompt, aborted, ending,
    entries, pending, spawns, agent, turns, handler, latest,
    cache, boot, state, request, op, all,
    stored, status, defs, client, call, listing, overlapped,
    flow, oauthState, update, stale, mixed, transport, pendingAuths, nameToState, exchanged,
    creating, shell, info, listed, cursor, bufferCursor, subscribers, socket, told,
    now, server, stream, conn, ends, batch, timer, store, sync, missed, overtaken,
    clients, broken, spawning, lsp, asking, disposed,
    content, touch, document, wire, served, confused, versioned, pushes, pushed, diagnosed, crossed,
    ops, sequence, events, doing, where, published,
    parts, written, news, handling, managed, toolStarts, load, shown, permit, prev, tail, disturbed,
    log, moved, restore, loop, registered, connection, starting, removal, proxied, faults,
    row, expired, caller, lookup, granted, lost, reused,
    origin, plain, files, messages, diffs, marker, opened, rows, imported, process, migration, failed, dropped, removed, starts, work,
    runtime, installed, enabled, scope, plugin, stage, list, hooks, twice, again

Adapter == INSTANCE AcpAdapter
Turn == INSTANCE AcpTurn
Pool == INSTANCE AcpPool WITH process <- agent
Instances == INSTANCE InstanceCache
Mcp == INSTANCE McpClients
Auth == INSTANCE McpAuth
Terminal == INSTANCE Pty WITH process <- shell, status <- info, client <- socket, events <- told
Tui == INSTANCE TuiSync WITH queue <- batch
Lsp == INSTANCE LspClients WITH process <- lsp, call <- asking
Document == INSTANCE LspDocument WITH published <- pushed, overlapped <- crossed
Rows == INSTANCE SyncStore WITH at <- where
Editor == INSTANCE AcpAgent
Workspace == INSTANCE WorkspaceSync WITH status <- connection, request <- proxied
Tokens == INSTANCE Account
Files == INSTANCE Storage WITH batch <- imported
Plugins == INSTANCE TuiPlugins WITH Calls <- Activations, listed <- installed

adapterVars == <<passage, known, session, said, outcome, over>>
turnVars == <<turn, at, bound, waiting, yielded, queue, routed, listens, prompt, aborted, ending>>
poolVars == <<entries, pending, spawns, agent, turns, handler, latest>>
instancesVars == <<cache, boot, state, request, op, all>>
mcpVars == <<stored, status, defs, client, call, listing, overlapped>>
authVars == <<flow, oauthState, update, stale, mixed, transport, pendingAuths, nameToState, exchanged>>
terminalVars == <<creating, shell, info, listed, cursor, bufferCursor, subscribers, socket, told>>
tuiVars == <<now, server, stream, conn, ends, batch, timer, store, sync, missed, overtaken>>
lspVars == <<clients, broken, spawning, lsp, asking, disposed>>
documentVars == <<content, touch, document, wire, served, confused, versioned, pushes, pushed, diagnosed, crossed>>
rowsVars == <<ops, sequence, events, where, doing, published>>
editorVars == <<parts, written, news, handling, managed, toolStarts, load, shown, permit, prev, tail, disturbed>>
workspaceVars == <<log, moved, restore, loop, registered, connection, starting, removal, proxied, faults>>
tokenVars == <<row, expired, caller, lookup, granted, lost, reused>>
fileVars == <<origin, plain, files, messages, diffs, marker, opened, rows, imported, process, migration, failed,
              dropped, removed, starts, work>>
pluginVars == <<runtime, installed, enabled, scope, plugin, stage, list, hooks, twice, again>>

\* The editor's updates and its permissions move apart: they share nothing but
\* the stream.
Parts == {"adapter", "turn", "pool", "instances", "mcp", "auth", "terminal", "tui", "lsp", "document", "rows",
          "editor", "permits", "workspace", "tokens", "files", "plugins"}

Init ==
    /\ moving \in Parts
    /\ Adapter!Init /\ Turn!Init /\ Pool!Init /\ Instances!Init /\ Mcp!Init /\ Auth!Init /\ Terminal!Init /\ Lsp!Init
    /\ Tui!Init /\ (moving # "tui" => \A m \in Messages : server[m] = 0)
    /\ Document!Init /\ (moving # "document" => versioned)
    /\ Rows!Init /\ (moving # "rows" => ops = {})
    /\ Editor!Init /\ (moving \notin {"editor", "permits"} => managed)
    /\ Workspace!Init /\ (moving # "workspace" => moved)
    /\ Tokens!Init
    /\ Files!Init /\ IF moving = "files" THEN \E s \in 1..MaxRecords : origin[s] \in {"taken", "full"}
                     ELSE plain /\ \A s \in 1..MaxRecords : origin[s] = "slim"
    /\ Plugins!Init /\ (moving # "plugins" => \A p \in 1..(Found + Added) : enabled[p])

Next ==
    /\ UNCHANGED moving
    /\ IF moving = "adapter" THEN Adapter!Next ELSE UNCHANGED adapterVars
    /\ IF moving = "turn" THEN Turn!Next ELSE UNCHANGED turnVars
    /\ IF moving = "pool" THEN Pool!Next ELSE UNCHANGED poolVars
    /\ IF moving = "instances" THEN Instances!Next ELSE UNCHANGED instancesVars
    /\ IF moving = "mcp" THEN Mcp!Next ELSE UNCHANGED mcpVars
    /\ IF moving = "auth" THEN Auth!Next ELSE UNCHANGED authVars
    /\ IF moving = "terminal" THEN Terminal!Next ELSE UNCHANGED terminalVars
    /\ IF moving = "tui" THEN Tui!Next ELSE UNCHANGED tuiVars
    /\ IF moving = "lsp" THEN Lsp!Next ELSE UNCHANGED lspVars
    /\ IF moving = "document" THEN Document!Next ELSE UNCHANGED documentVars
    /\ IF moving = "rows" THEN Rows!Next ELSE UNCHANGED rowsVars
    /\ IF moving \in {"editor", "permits"}
       THEN Editor!Next /\ (IF moving = "editor" THEN UNCHANGED permit ELSE UNCHANGED <<parts, written>>)
       ELSE UNCHANGED editorVars
    /\ IF moving = "workspace" THEN Workspace!Next ELSE UNCHANGED workspaceVars
    /\ IF moving = "tokens" THEN Tokens!Next ELSE UNCHANGED tokenVars
    /\ IF moving = "files" THEN Files!Next ELSE UNCHANGED fileVars
    /\ IF moving = "plugins" THEN Plugins!Next ELSE UNCHANGED pluginVars

vars == <<moving, adapterVars, turnVars, poolVars, instancesVars, mcpVars, authVars, terminalVars, tuiVars, lspVars, documentVars, rowsVars, editorVars,
                  workspaceVars, tokenVars, fileVars, pluginVars>>

\* The fairness of each part, while it is the one that moves.
Spec ==
    /\ Init /\ [][Next]_vars
    /\ WF_turnVars(moving = "turn" /\ Turn!GoesOn)
    /\ WF_poolVars(moving = "pool" /\ Pool!GoesOn)
    /\ WF_instancesVars(moving = "instances" /\ Instances!GoesOn)
    /\ \A f \in 1..MaxFlows : WF_authVars(moving = "auth" /\ Auth!GoesOn(f))
    /\ WF_tuiVars(moving = "tui" /\ Tui!GoesOn)
    /\ WF_lspVars(moving = "lsp" /\ Lsp!GoesOn)
    /\ WF_documentVars(moving = "document" /\ Document!GoesOn)
    /\ WF_editorVars(moving = "permits" /\ Editor!ChainStep)
    /\ \A l \in Loops : WF_workspaceVars(moving = "workspace" /\ Workspace!LoopGoesOn(l))
    /\ WF_tokenVars(moving = "tokens" /\ Tokens!GoesOn)
    /\ WF_pluginVars(moving = "plugins" /\ Plugins!GoesOn)

-----------------------------------------------------------------------------
(* The properties are those of the modules, where they are explained. *)

\* A session has one agent; what it says and does is in the session, under the turn it
\* was said in.
AgentIsHeard == Adapter!SessionFollowsAgent /\ Turn!TurnsKeepApart /\ Pool!OneAgent

\* The cache of instances holds neither what failed nor what disposeAll has found.
CacheIsCurrent == Instances!CacheIsCurrent

\* An MCP server has the client, the status and the tools that belong together.
ClientsAgree == Mcp!ClientsAgree /\ Auth!TypeOK

\* A refresh token is spent once and the row has the one that the server takes.
TokensKept == Tokens!TokensKept

\* What older versions left is kept and imported once, and no diffs are lost on the way.
SessionsKept == Files!TypeOK /\ Files!SessionsKept

\* What was overtaken changes nothing: a login by another one, as long as updates of the
\* credentials do not overlap; a refresh by the removal of its account; the diffs in an old
\* file by newer ones, as long as no migration fails.
OvertakenFails == Auth!OvertakenFails /\ Tokens!RemovedStays /\ Files!NewDiffsKept

\* The clients of a terminal get its output, and its end, once.
TerminalIsTold == Terminal!TerminalIsTold

\* One language server runs for a root, and its text is the tools'.
ServerInStep == Lsp!TypeOK /\ Lsp!OneServer /\ Document!DocumentInStep

\* The rows of a session are its events in order, each told once.
RowsInOrder == Rows!RowsInOrder

\* The terminal client and the editor show what the server has when all events have
\* come, and the editor one dialog.
ClientsFollow == Tui!TypeOK /\ Tui!ShowsServer /\ Editor!EditorFollows

\* What the terminal client has from its plugins can be undone.
PluginsTracked == Plugins!PluginsTracked

\* The logs of the two devices of a session that moves never differ, and events that
\* are waited for arrive.
DevicesAgree == Workspace!LogsAgree /\ Workspace!EventsArrive

\* A loop that stays connected brings everything that the workspace has.
CatchesUp == Workspace!CatchesUp

\* Nobody waits for ever: for a turn, an agent, an instance, a login, a language
\* server, a batch of events, an answer of the editor, a token or a plugin.
EverythingEnds ==
    []<>(/\ Turn!NobodyWaits /\ Pool!NobodyWaits /\ Instances!NobodyWaits /\ Auth!NobodyWaits
         /\ Tui!NobodyWaits /\ Lsp!NobodyWaits /\ Document!NobodyWaits /\ Editor!NobodyWaits
         /\ Tokens!NobodyWaits /\ (moving = "plugins" => Plugins!NobodyWaits))
=============================================================================
