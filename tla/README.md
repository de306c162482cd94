# Formal models of turing

turing is a coding agent for the terminal: a server process that runs sessions
(a conversation with a language model that calls tools), terminal and editor
clients that follow it over events, and files, locks and a database that several
processes share.  This directory holds TLA+ models of the parts whose
correctness depends on the order in which things happen, TLC configurations that
check them on small instances, and TLAPS proofs that hold for any instance.

Run from this directory, for example:

    tlc -workers 2 -config SessionRunState_live.cfg MCSessionRunState
    tlc -workers 2 -config Permission_safe.cfg MCPermission
    tlc -workers 2 -config Session.cfg MCSession
    tlc -workers 2 -config Services.cfg MCServices
    tlapm SessionRunState_proofs.tla
    tlapm Session_proofs.tla
    tlapm Tools_proofs.tla

Contents: [1 Inventory](#1-inventory), [2 Modules](#2-modules),
[3 Runs](#3-runs), [4 Fairness](#4-fairness), [5 Proofs](#5-proofs),
[6 What the code does not promise](#6-what-the-code-does-not-promise),
[7 Not modelled](#7-not-modelled), [8 Plan](#8-plan).

## 1. Inventory

Paths are relative to `packages/turing/src` unless they start with `packages/`.

| component | state | operations | hard behaviour |
|---|---|---|---|
| session run slot: `effect/runner.ts`, `session/run-state.ts`, `session/status.ts` | a `Runner` per session in a map, its state, a Deferred per run, the status shown | ensureRunning, startShell, cancel, the exits | a cancel waits while new calls arrive; a run queued behind a shell |
| prompt loop: `session/prompt.ts` | the messages of the session, the loop's counters | prompt, loop, turns of runLoop | messages that arrive during a turn; exit on stale reads |
| stream processor: `session/processor.ts`, `retry.ts` | parts of an assistant message, open calls, snapshot | a handler per stream event, cleanup, halt, retry | interruption in the middle of a call; retry after partial output |
| compaction: `session/compaction.ts`, `message-v2.ts` | requests and summaries among the messages | request, choice of the tail, summary, replay | overflow of the summary itself, several compactions |
| revert: `session/revert.ts`, `snapshot/index.ts` | the mark of the session, git snapshots | revert, unrevert, cleanup | several reverts before a prompt |
| permission requests: `permission/index.ts` | pending requests, approvals | ask, reply, finalizer | cascades of one answer, aborts, late clients |
| question requests: `question/index.ts` | pending questions | ask, reply, reject | a reply that meets an abort or a disposal |
| file locks: `packages/shared/src/util/flock.ts`, `effect-flock.ts` | lock and breaker directories, heartbeat | acquire, heartbeat, release | crashes of owners, stale locks, several processes |
| tools: `tool/edit.ts`, `tool/bash.ts`, `patch/index.ts`, `tool/truncate.ts` | a file, a process, what is on its way | edit, write, apply_patch, shell | asking for permission between read and write; kill while saving |
| ids: `id/id.ts` | last time and counter | ascending, descending, cleanup by age | counter and 48 bits that run over |
| event bus: `bus/*`, `util/queue.ts`, the event routes | subscriptions, queues | publish, subscribe, stream | subscribe late, dispose, client that leaves |
| sync events: `sync/index.ts`, `storage/db.ts` | rows and a number per aggregate | run, replay, remove | number read and written by several processes; effects after commit |
| workspaces: `control-plane/*`, `server/fence.ts` | a connection per workspace, last number | restore, sync loop, fence | reconnects, fences that time out |
| storage: `storage/storage.ts`, `json-migration.ts`, `index.ts` | files of older versions, marker, tables | import, migrations | killed anywhere |
| account: `account/*` | tokens of an account, a cache of refreshes | token, login, remove | several callers, lost answers |
| instance cache: `project/instance.ts`, `effect/instance-state.ts` | promise of an instance per directory | provide, reload, dispose, disposeAll | disposal that races with a boot |
| ACP client: `acp-client/*`, `session/llm-claude-code.ts` | pool of agent processes, updates of a turn | acquire, release, closeAll, prompt, abort | death during a spawn; late updates |
| ACP agent: `acp/agent.ts` | chain of permissions, replay of a session | event handling, loadSession | replay beside live events |
| MCP clients: `mcp/*` | clients, status, tools, logins | connect, disconnect, startAuth, callback | timeout and callback, overlapping logins |
| pty: `pty/index.ts` | process, bounded buffer, subscribers | create, connect, remove | cursor against a buffer that drops |
| language servers: `lsp/lsp.ts`, `lsp/client.ts` | clients, spawns under way, documents | getClients, touchFile | shared spawn, diagnostics that come late |
| terminal client: `cli/cmd/tui/context/*`, `plugin/*` | the store, the plugins' scopes | sync, event batches, activate, dispose | lost events; plugins that hang |
| the rest | | | I/O, formatting, sequential work (section 7) |

Callers reach a session through HTTP handlers and the task tool.  The prompt loop
is the work of the run slot; it calls the stream processor, which calls tools,
which ask permissions and questions.  Everything publishes on the bus, the
clients see the bus only; sync events also reach other devices.  Locks, tables
and files are shared with other processes.

What makes each part correct, in short; the modules state it exactly.

* A session runs one thing at a time; who shares a run gets its answer; cancel
  returns; a session at rest is idle.  A prompt is answered by a finished turn that
  has seen it.  A turn that is over has no call open, and its texts are saved.
* No message is forgotten over compactions; a revert undoes exactly what the
  reverted messages did.
* A request is pending exactly while its call waits; an answer reaches
  whom it should and nobody else; dialogs match what is pending.
* One holder of a lock; a live holder's lock is not broken, a dead one's is.
* Edits of a file do not undo each other; a command's output is answered or saved;
  a patch changes all or nothing but where a write fails; ids rise.
* Every connection gets every event in order; numbers of events have no gaps; two
  devices never number different events alike.
* What of older versions can be read and has a project is imported, and not brought back
  when it is removed; a refresh token is spent once.
* One agent per session, one language server per root, one client per MCP server,
  no disposed instance in the cache; clients show what the server has.

The hazards behind these are listed, line by line, in `PROJECT.json`.

## 2. Modules

| module | models | checked by | proofs |
|---|---|---|---|
| `SessionRunState` | the run slot of one session | `MCSessionRunState` | `SessionRunState_proofs` |
| `SessionSlot` | what the run slot promises, without Runners, map and fibers | `MCSessionRunState` | `SessionRunState_proofs` |
| `Permission` | permission requests and the dialogs of terminal clients | `MCPermission` | `Permission_proofs` |
| `Flock` | `flock.ts`: the lock directory protocol | `MCSession` | `Flock_proofs` |
| `EffectFlock` | `effect-flock.ts`: `Flock` with its other heartbeat | `MCSession`, `MCEffectFlock` | `Flock_proofs`, `Session_proofs` |
| `PromptLoop` | prompts of one session and the turns that answer them | `MCSession`, `PromptLoop` | `Session_proofs` |
| `Processor` | one assistant message, its calls, retries and end | `MCSession` | `Session_proofs` |
| `Question` | questions, the tools that ask and the dialogs | `MCSession` | `Session_proofs` |
| `Revert` | revert, unrevert, cleanup, and the files | `MCSession` | `Session_proofs` |
| `Compaction` | what the model is shown over compactions | `MCSession` | `Session_proofs` |
| `Identifier` | ids and the outputs that are named with them | `MCSession` | `Tools_proofs` |
| `ShellTool` | one shell command and its output | `MCSession` | `Tools_proofs` |
| `FileTools` | edit, write and apply_patch at one file | `MCSession` | `Tools_proofs` |
| `Patch`, `PatchCases` | places of chunks, application of a patch | `MCSession` | `Tools_proofs`, in part |
| `EditReplace` | the place that an edit replaces | `MCSession` | |
| `EventStream` | bus, queues and the two event routes | `MCSession` | `Tools_proofs` |
| `AcpAdapter` | what an agent says, as stream parts and in the session | `MCServices` | `Services_proofs` |
| `AcpTurn` | turns on one pooled connection | `MCServices` | `Services_proofs` |
| `AcpPool` | the pool of agent processes | `MCServices` | `Services_proofs` |
| `AcpAgent` | the server as the agent of an editor | `MCServices` | `Clients_proofs` |
| `InstanceCache` | the instances of one directory | `MCServices` | `Services_proofs` |
| `McpClients` | one MCP server's client, status and tools | `MCServices` | `Services_proofs` |
| `McpAuth` | logins to one MCP server | `MCServices` | `Services_proofs` |
| `Pty` | one terminal and its clients | `MCServices` | `Clients_proofs` |
| `LspClients` | the language server of one root | `MCServices` | `Services_proofs` |
| `LspDocument` | one file and its language server | `MCServices` | `Services_proofs` |
| `SyncStore` | the numbered events of one session in the tables | `MCServices` | `Services_proofs` |
| `WorkspaceSync` | a session that moves to a workspace | `MCServices` | `Clients_proofs` |
| `Account` | the tokens of one account | `MCServices` | `Services_proofs` |
| `Storage` | import and migration of old sessions | `MCServices` | `Services_proofs` |
| `TuiSync` | the store of a terminal client | `MCServices` | `Clients_proofs` |
| `TuiPlugins` | plugins of the terminal client | `MCServices` | `Services_proofs` |

`MaxLemmas` holds the lemmas about numbers (induction, the least and the greatest, `Max`)
that the proof modules use.

The comment at the head of a module says which files it translates and what it
leaves out; the comment behind a VARIABLE which field or map of the code it is; the
comment before an action, where the name is not that of the function, which
lines it is.  `PROJECT.json` maps every definition to its lines.

Three conventions:

* The runtimes are cooperative (JavaScript, Effect fibers), so an action is the
  code between two suspensions; an `await`, a `yield*` that suspends, a file system
  call of another process, a message that is on its way are the boundaries.
* Definitions whose comment starts with "Mutant:" are wrong on purpose: each is the
  definition that follows it with one plausible mistake, and breaks a property.
* Properties after a comment "Wanted, but does not hold" are checked by no run
  or by one that expects the violation; section 6 explains them.

Some correspondences that are not obvious from the modules:

* `SessionRunState`: a *work item* is what `startRun` or `startShell` creates at
  once: id, Deferred and fiber.  `cancel` is `CancelIdle`, or `CancelBusy` (the
  state becomes Idle, the fiber is interrupted) and later `CancelFinish`.  The
  phase of an interrupted fiber is `interrupted` until its handlers have run.
  `OverlapCancel = FALSE` is a client that makes no call while one of its cancels
  waits; `LateStart = TRUE` adds a property of the Effect library, whose source is not in
  the repository: a fiber interrupted before its first step ends without `onExit`.
* `SessionSlot`: a shell and a run at most, the run waiting while there is a shell.
  What ends by itself is answered then; what a cancel throws out unwinds later.
  `Slot` in `SessionRunState` is the refinement mapping.
* `Flock`: the ages of files are counted in ticks up to `StaleAge` (`staleMs`).  `by`
  records who made a directory; the program does not know it, only properties
  read it.  `Timely` is the one assumption about time: a live process makes its
  next call, and its heartbeat, before what it made turns stale.  `BreakerDied`
  records that a process was killed between claiming and removing the breaker: the code
  then removes a breaker by its path after a `stat` that may be out of date.
* `Permission`: a rule is a set of targets and an action; which wildcard spells the set
  does not matter.  `ask` up to its Deferred, and `reply`, do not suspend.
* `PromptLoop`: an id is a position in the log; a message is made before it is saved.
* `Processor`: the tools run beside the stream; `prompt.ts` is modelled as far as
  it runs them, `Cleanup` waits for them at most 250 ms.
* `EffectFlock`: `since` is the age of the date that the beats of a holder write, `beaten`
  says whose heartbeat has run since the last tick.  With `LongBody` no tick comes before
  every holder's beat: a body may be long, its heartbeat is not late.
* `McpAuth`: an update of the credentials file is `Begin` (it has read) and `Write`, and
  `stale` are those whose read has been overwritten since.  The credentials are one entry;
  the providers of the connections, which save tokens, client and verifier beside the
  flows, are one writer that writes the state as it has read it.  `mixed` says that a stale
  one was written.
* `Storage`: `origin` says what each session was when the program came: which of the
  migrations take it and why others pass it over (no commit, a global project, a worktree
  that is gone, a record without an id or with diffs that are not decoded, the directory of
  another project, no project file, no JSON).  A batch of the import is any run of sessions.
* `TuiPlugins`: a scope has the name of the activation that made it.  `Stray` is what is
  registered with a scope that is done; `twice` and `again` record plugins of which two
  activations ran at once, and those switched on after the end of the client had begun.
* `FileTools`: a content is the call that wrote it whole and the edits since.
* `Compaction`: what fits in the budget of the tail is any choice that `select` can make.
* `Patch`, `EditReplace`: one step from an input to its result; the inputs are all small
  files and patches over a few words, the result is compared with a definition that
  says what a replacement is, not how it is found.

`MCSession` and `MCServices` put parts that share no variables beside each other.
A behaviour is one of the part that `moving` names: a product of independent
parts has the behaviours of each, and interleaving them would add states and no
question.  Parts stand in their first state while they do not move.  The
properties of these two modules are conjunctions of the parts' properties that
belong together; each is explained in its own module.

## 3. Runs

Passing runs:

| run | instance | shows |
|---|---|---|
| `run_serial` (`SessionRunState_serial.cfg`) | 3 callers, 3 Runners, 4 work items; no call overlaps a cancel; `LateStart` | `OneRunPerSession`, `RunningIsVisible`, `ImplementsSlot` |
| `run_live` (`SessionRunState_live.cfg`) | 3 callers, 2 Runners, 2 work items; calls overlap cancels | `RunnerExclusive`, `QuiescentIsIdle`, `NoOrphanWaiter`, `CompletedOnce`, `EveryoneReturns` |
| `perm_safe` (`Permission_safe.cfg`) | 3 requests of 2 sessions, 1 client, 5 inputs over 2 targets with rules that ask, deny, allow | `PendingIsDue`, `DialogsFollow`, `RepliesKeepToSession` |
| `session` (`Session.cfg`) | the thirteen parts of `MCSession` | `MutualExclusion`, `HolderOwnsLock`, `EffectExcludes`, `PromptsAnswered`, `TurnSettles`, `RevertIsExact`, `HistoryIsKept`, `ToolsAreExact`, `QuestionsSettle`, `StreamInOrder`, `StepsAreSound`, `StampsTell`, `EditsAgree`, `EverythingEnds` |
| `services` (`Services.cfg`) | the seventeen parts of `MCServices` | `AgentIsHeard`, `CacheIsCurrent`, `ClientsAgree`, `TokensKept`, `SessionsKept`, `TerminalIsTold`, `ServerInStep`, `RowsInOrder`, `ClientsFollow`, `PluginsTracked`, `DevicesAgree`, `CatchesUp`, `OvertakenFails`, `EverythingEnds` |

Bounds, and why they are enough for what can go wrong.  Each is a constant, named in
the guard it limits.

* *Run slot.*  Four work items are the longest story the code can tell about one
  Runner: a run that is cancelled, its replacement, and one more on each of two
  further Runners.  Three callers are one that cancels, one that waits and one that
  starts.
* *Permissions.*  A request that is answered, one of the same session that the answer
  cascades to, and one of the other session that it must not reach.
* *Locks.*  Three ticks are the least age at which "fresh", "ageing" and "stale"
  differ and a holder can beat in time; four processes are an owner that dies, the
  breaker, and two contenders that saw the same stale lock.
* *Prompts.*  One that starts the loop, one that a turn overtakes, one that makes the
  loop go on; `MaxTurns` says when the model stops asking for tools, later turns happen
  for prompts that are unanswered.
* *Processor.*  Two calls (one that is open while the other ends), one text, two attempts.
* *Compaction and revert.*  Nine messages hold two compactions whose summary overflows,
  `MaxCalls` limits those of the user; four messages and two files hold two reverts and a
  prompt in any order.
* *Shell, edits, patches.*  Four chunks over a limit of two; two edits and a creation
  that wait for a lock with a write that does not; files of up to four lines over two
  words, one of which may be indented, with old texts of up to three lines.
* *Ids.*  A counter of 3 values and 5 milliseconds until the bits run over.
* *Services.*  Three calls or turns where the third meets the remains of the second
  (agents, connects, refreshes), two where a pair is enough; two logins, one that
  overtakes the other, with a removal and a provider that write the same file; a buffer of 2
  against a cursor of 4; 3 events and one fault on the way to a workspace.
* *Old sessions.*  Two starts over two sessions, one that is killed and one that goes on;
  one session is well formed, the other any of the ten kinds, so that each meets one
  that must be kept whatever happens to it.
* *Plugins.*  One that load finds, one that is added, one more activation, one hook for
  each scope and one stray hook at a time: `twice` needs the plugin that is added while
  load goes on (load and add both start it), `again` one that is added behind the end.

`CHECK_DEADLOCK FALSE` is set where the calls may be used up and the system rests,
or (`run_serial`) where with `LateStart` a caller can wait for ever.

Runs that expect a violation, one per finding:

* *Two loops in one session* (`run_twoloops`).  A cancel waits for the fiber it
  interrupted.  Meanwhile the same Runner runs again and ends, which frees the
  map entry; a new prompt puts a second Runner there.  The late cancel calls
  `onIdle` (`run-state.ts:57`), which deletes the entry of the second, busy Runner.
  The next prompt starts a third.
* *Frozen heartbeat* (`effectflock_long`).  `new Date()` is evaluated when the
  effect is built, not at each beat (`effect-flock.ts:263`): a body longer than
  `STALE_MS` loses its lock while it is inside.  In the run the holder has beaten before
  every tick, and its lock is stale after three of them all the same.  The heartbeat is
  what is wrong: with a `Beat` that sets the age to 0 the same instance has no violation.
* *A prompt nobody sees* (`prompt_lost`).  The loop reads the messages
  (`prompt.ts:1296`) and makes the id of the turn later (`prompt.ts:1389`).  A prompt
  saved in between is older than the turn and not in its input; the exit check takes
  the turn for its answer.
* *Two writers* (`workspace_writers`).  A prompt that writes while its session moves
  makes two devices store different events under one number
  (`control-plane/workspace.ts:158`).
* *Text after a thought* (`acp_said`).  The adapter opens the text once per turn and
  closes it at the first thought or tool call; text that follows is dropped by the
  processor (`event-adapter.ts:141`).
* *Recent outputs removed* (`recent_removed`).  The 48 bits of an id run over every
  2^36 ms; a cleanup whose cutoff lies before that removes what was just written
  (`truncate.ts:59`).
* *Several matches* (`edit_several`).  An old text that is in the file several times
  is not refused: a looser replacer names one of the places (`edit.ts:696`).

## 4. Fairness

Only steps that the runtime owes are fair; what a user, a model, an agent or a
client does is free unless a line below says so.

| part | fair | why |
|---|---|---|
| `SessionRunState` | callers whose Deferred is done resume, cancels whose fiber is gone finish, interrupted fibers end | the scheduler runs what is ready; the clean-up of a run is bounded.  That work ends is the premise `WorkEnds` of `CallersReturn` and used nowhere else |
| `Flock` | a live process goes on with its calls and touches its heartbeat; time passes | asking, giving up and finishing are free |
| `PromptLoop` | the loop's steps | includes that the model ends its streams.  Prompts, the resolution of their parts, cancels are free |
| `Processor` | `Cleanup` | it is the code that runs when a turn was stopped |
| `ShellTool` | the tool's own steps and the timeout | the command owes nothing |
| `FileTools` | a call goes on when it has the lock or an answer | requests are answered and formatters end |
| `Question` | a reply that has begun, and a tool that has its answer | |
| `EventStream` | fibers and the loops of the routes | |
| `AcpTurn`, `AcpPool` | the client's steps; an agent that was asked answers or fails, one that is terminated stops | the pool waits with a timeout |
| `InstanceCache` | boots end, what awaits them goes on | |
| `McpAuth`, `LspClients`, `LspDocument` | timers; each flow that has its code or writes its state; spawns end | the code sets these timers, a file is read and written |
| `TuiSync` | the batch timer and the reconnect | |
| `AcpAgent` | the chain of permission requests | the editor answers or fails |
| `WorkspaceSync` | each loop's calls | those that do not fail return |
| `Account` | the refresh request ends and its waiters go on | |
| `TuiPlugins` | loading, disposal, plugin code that returns or throws | the last is an assumption; handlers that hang are cut off by the code's timeout |

`EverythingEnds` of the two sum modules says `[]<>` that nobody waits, for every
part at once: under it each part's waits end, again and again, since the parts that do not
move are at rest.

## 5. Proofs

Every theorem holds for any number of callers, processes, requests, messages, ...;
the assumptions on constants are the named ASSUMEs of the modules, or stand in the
theorem.  The method is the same everywhere: a safety property is seldom
inductive, so each proof module defines the strengthening it needs as a
conjunction of named parts, shows that `Init` implies it and that each action
keeps it (one step per action, and under it one per conjunct the action can
disturb), and closes with a temporal step.  TLC checked each strengthening first.

**`SessionRunState_proofs`.**  `IInv` is type correctness plus the bookkeeping that
connects the three views of a run: what the state of a Runner names is owned by
that Runner and in the matching phase; a live work item is named by its owner's
state; a queued run sits behind a live shell; a waiting caller's target is of the
kind it waits for.  From it: `TypeCorrect`, `RunnerExclusion`, `SingleCompletion`,
`NothingLeftBehind`, and under `~LateStart` `WaitersServed`.  A second invariant, under
`~OverlapCancel` (without which `run_twoloops` refutes it), gives `OneRun` and
`SerialClientSafety`.  `Refinement`: under `~OverlapCancel` every behaviour implements
`SessionSlot`; one lemma per action says which step of the slot it is.  It rests on both
invariants: a Runner that is not idle must be the one in the map, or the slot
would not see what it holds.

**`Flock_proofs`.**  `IInv == TypeOK /\ (BreakerDied \/ Own)`: until a process has died
inside the breaker, a process in the owner's part made the lock on disk, and one in
the breaker's part made the breaker, and neither is about to be stale; so who acts on an
old `stat` is never wrong.  `Exclusion`, `HolderKeepsLock`, `SingleBreaker`
follow.  `EInv` is the same for `EffectFlock` under `~LongBody`, with one
more conjunct: a beat's date is no older than the lock looks.  `EffectExclusion` is its
theorem.

**`Permission_proofs`.**  `IInv` adds to the types that what is pending is waited for,
that what was asked is known, that the rules granted by users come after the
configured ones, that a grant resolves the requests of its own session, and that
clients have an event on its way for every dialog they lack or should lose.  The
lemma `GrantDecides` is the heart: the last matching rule decides, so a
request that stays pending is not allowed by what its session was granted.
`StoredAssumption` says that rules read from the database carry no session's name
(`by` is for the properties only), `RulesetsAssumption` types the inputs.
`Due`, `Dialogs` and `OneSessionOnly` are the theorems.

**`Session_proofs`, `Tools_proofs`, `Services_proofs`, `Clients_proofs`.**  The theorems about the
parts that the two large runs put beside each other.  These modules extend `MCSession` and
`MCServices`, so that a theorem is about the specification and the property that the
run checks.  What they use of the composition is in the lemmas `Starts` and `Steps`: the first
state is a first state of every part, and a step is for every part one of its own or
none.  From there each section argues about its part alone.  The MC modules give their
constants no values, the .cfg files do, so the theorems hold for any.

What the session does:

| theorem | states | rests on |
|---|---|---|
| `Answered` | `PromptsAnswered` | `PromptsHaveMessages`, `TurnsAreSaved`, `StreamIsNewest`, `ReadIsNew` relate calls, log, turn and view; the property's second alternative (the prompt was overtaken while the loop's last look was on its way) is the finding `prompt_lost` |
| `Settles`, `Stays` | `TurnSettles`; `FinalStays`: a tool that outlives its turn changes nothing | `CallsAreTracked` (a call that is not settled is in `ctx.toolcalls`, or has not been shown), `TextsAreOpen`, `StreamIsAnswered`, `SnapshotIsOlder`, `PatchIsDue`, `ResultIsLast`, `ContinueIsAnswered`, `RetriesAreLeft` |
| `Settled` | `QuestionsSettle` | `OneReply`, `Told`, `EndIsLast`, `EndComes`: per client, the inbox holds at most one end of a question, behind its asking, and it is the answer that the tool gets |
| `RevertsAreExact` | `RevertIsExact` | `UndoInv`: what a call has read still fits the messages while no prompt came between (`CallInStep`), the snapshot of a revert is `original`, and every answer has a prompt before it (`PromptsFirst`) |
| `NothingIsForgotten` | `HistoryIsKept` | `AllPresented`: at any time what would be shown, with what the newest summary covers, holds every message; see below |
| `SessionStepsAreSound` | `StepsAreSound` | `KeepsOlder` from `UndoInv`, `GoesOn` from `ShortInv`, and `Stays` |
| `EffectBodiesExclude` | `EffectExcludes` | `EInv` of `Flock_proofs`, through the instance `Locks` of it: its steps are those of `EffectFlock` here, definition by definition (`SameTry`, `SameStep`, `SameStart`, `SameExclusion`) |

The invariant of `NothingIsForgotten` is the longest.  `NothingForgotten` speaks of a turn, and what
a turn is shown was decided when the loop read, which depends on every compaction
before.  So `AllPresented` states it for every state.  A summary that ends makes another request the
newest (`Ordered`: requests and summaries come in pairs that do not cross), and hides what is
older than its tail: `AtCompact` says that while it is written, the summary covers this or the tail keeps it,
or it lies between the prompt that will be sent again and the request.  Messages that
come while the loop works (`ReadTo`) are only those of the user, so what it has read is
what it would read but for them.  `Between` and `TailsLate` keep a tail from being the tail of an older
request, and `Followed`, that a turn without a finish is not taken for the last answer.
A message is never gone: it is shown, covered, or a later one stands for it (`StandsFor`).

What the tools do, and what tells of it:

| theorem | states | rests on |
|---|---|---|
| `EditsOfFileAgree` | `EditsAgree` | `EditsLock`, `WorksAlone`: an edit at work holds the lock, and what it has read is the file while no write came between |
| `StampsTellOrderAndAge` | `StampsTell` | `SinceBreak`: the ids since the clock last stood at another time; the lemmas `StampsOfLap` and `TimesOfStamps` on the bits |
| `AnswersAreWhole` | `ShellTool!AnswerIsWhole` | `Held`, `Saving`: the list begins at the first chunk and its bytes fit, or the file has all that was taken, or the fiber is on its way to write it; the lemmas on `Total` (bytes do not shrink) |
| `PatchesGoInOrder` | `PatchInOrder`: nothing is written before all sections are verified and allowed; sections are made in order, as verified; where a write fails those before are made and none behind | `ChangesArePlanned`: what is still to be written is what the verification found in the files of the beginning; `OthersStay`: a section leaves the files of the others |
| `EventsAreInOrder` | `StreamInOrder` | `Served`, per connection: what is written, what waits in its queue, what its subscription has in hand and what waits in the bus is one line of the events since it was opened (`GoneIsLast`, `Unsaid`: and the last word behind them) |

What the services do:

| theorem | states | rests on |
|---|---|---|
| `InstancesAreCurrent` | `InstanceCache!CacheIsCurrent` | an instance in the cache has not failed; a disposeAll under way has seen every instance that it will not find again |
| `McpClientsAgree` | `McpClients!ClientsAgree` | `ClosesAlone`: an open client is the stored one or that of a call which has not stored yet |
| `LoginsAreOvertaken` | `McpAuth`: types and `OvertakenFails`, which exempts what comes after an update that was written over one it had not read (`mixed`) | `LoginsGoOn`: who updates the file and from which stage; `StateIsNewest`: until then the state in the file, the one that a provider writes back and the one that a login is about to write belong to logins that nothing has overtaken |
| `TokensAreKept` | `Account`: `TokensKept` and `RemovedStays` | `HeldAreKnown`, `ReadIsEarlier`, `AskedIsTaken`: the row whose refresh is asked for is the row in the table, or one that was overtaken; the lemma `Completed` for who is told |
| `SessionHasOneAgent` | `AcpPool!OneAgent` | `OwnSpawns`, `TurnsJoin`, `RunsForSession`: entries and spawns belong to their session, at most one of them runs |
| `SessionHasOutcomes` | `AcpAdapter!SessionFollowsAgent` | `CallsHaveParts`: a call that is open for the adapter is a part of the session, and one that has its outcome is not open |
| `TurnsAreApart` | `AcpTurn!TurnsKeepApart` | `GotWasSent`, `GotOnce`: what a turn has taken was sent, in order and to it while no aborted turn is running; `CleanTurnIsAlone`, `TurnsGoOn`, `FinishedIsWhole` |
| `AgentOfSessionIsHeard` | `AgentIsHeard` of the run | `SessionHasOneAgent`, `SessionHasOutcomes` and `TurnsAreApart` |
| `RootHasOneServer` | `LspClients!OneServer` | `OneSpawn`: what runs is the client or the spawn under way, never both |
| `EventsInOrder` | `SyncStore!RowsInOrder` | `KindsAreLogs` (rows are numbered without gaps where all run or all replay), `StillUntold` |
| `OldSessionsAreKept` | `Storage`: types, `SessionsKept` and `NewDiffsKept`, over every kind of session that the migrations skip, cannot read or cannot insert | `MigrationGoesOn` (what the step under way has done so far), `AllStripped`, `NewAreLater` (until a migration fails, new diffs come after both), `ImportIsFirst`, `ImportIsKnown` |
| `PluginsAreTracked` | `TuiPlugins!PluginsTracked`, which exempts a plugin that two activations have run at once (`twice`) and one that was switched on behind the end (`again`) | `ScopesAreOwn`: a plugin has the scope kept for it and none while its code runs; `HooksAreListed`: what the client has from a scope is in its list until that is given up, but for what was registered too late; `SwitchedOff`: how far the disposal has come |
| `DocumentIsInStep` | `LspDocument!DocumentInStep` | the texts sent, by their versions, and how many of them the server has received, exist: `TextsGrow`, `DocumentIsLast`, `WireGoesOn`, `PushesNamed` |
| `ServerStaysInStep` | `ServerInStep` of the run | `RootHasOneServer` and `DocumentIsInStep` |
| `OvertakenChangesNothing` | `OvertakenFails` of the run | `LoginsAreOvertaken`, `TokensAreKept` and `OldSessionsAreKept` |

What their clients see:

| theorem | states | rests on |
|---|---|---|
| `ClientsGetOutput` | `Pty!TerminalIsTold` | `ViewerIsServed`: who is connected stands at the end of the buffer, and what it has got is all that came from where it began but what the buffer dropped; `OnceTold` |
| `EditorIsTold` | `AcpAgent!EditorFollows` | `InLine`: the requests that wait form a line, each behind the one before it; `LeadsToSaved`: from what is shown, the replay, the event in hand and the events under way lead, picture by picture, to what the session has |
| `TerminalShowsServer` | `TuiSync`: types and `ShowsServer` | `TellServer`, `FitServer`: the last event about a message tells what the server has, and what no event is about, the store or the answer to sync already has; `BatchLeaves`: what a batch leaves in the store, by induction over its events |
| `LogsOfDevicesAgree` | `DevicesAgree` of the run, with `OneWriter` | `LogsGoOn`: which of the two logs is how the other begins, before, during and after a move; `LoopIsFed`: what a loop has of the remote log, and that what the local log lacks comes by the history or the stream; `ReplayAllLeaves`: what a replay leaves, by induction over its events |
| `ClientsSeeServer` | `ClientsFollow` of the run | `TerminalShowsServer` and `EditorIsTold` |

Assumptions: bounds are natural numbers, calls of different kinds are different values
(`CallsAreNamed`, `FileCallsDiffer`), no tool call has the name of the text
(`EditorConstants`), "not loaded" is no list of messages (`TuiConstants`), the two event routes
have connections of their own (`StreamConstants`), sizes are numbers and "no file" is no output
(`ShellConstants`), "no revert" is no revert and no snapshot (`RevertConstants`), the user's calls are
bounded (`ShortConstants`), the two files of a patch differ (`PatchesGoInOrder`), no process is called
`None` and bodies are shorter than `STALE_MS` (`EffectBodiesExclude`).  They stand in the
theorems, and hold in the runs.

Only model-checked, and why:

* Liveness (`EveryoneReturns`, `EverythingEnds`, `CatchesUp`) and everything with
  ENABLED: out of the proof system's reach here.
* What folds, sorting and `SelectSeq` compute for every input: that the places that
  `ComputeReplacements` finds and `ApplyReplacements` fills are places that fit (`Done` and
  `RefusedForAReason` of `Patch`), and that the replacers of an edit find what they should
  (`EditReplace`).  The library's induction theorems take an operator, which the installed
  provers cannot instantiate.  `ToolsAreExact` has both as conjuncts, so of it only
  `AnswersAreWhole` and, with what the chunks become left open, `PatchesGoInOrder` are theorems.
  Where the model has a recursive function in their place (`Applied` of `TuiSync`),
  `InductionOnNat` of `MaxLemmas`, which takes a set, does it.

## 6. What the code does not promise

The findings of section 3, and these, met while modelling.  The properties are in
the modules, after "Wanted, but does not hold".

* `Flock`: after a process died while it broke a lock, two contenders can both own
  the breaker (`flock.ts:171-172`); a heartbeat and a release of a process that was
  suspended for `staleMs` can hit its successor's lock (`flock.ts:230`, `260-264`).
* `Processor`: a turn that was stopped may carry no error (`StoppedIsError`); files that
  a completed call wrote may be in no patch when the turn ends otherwise (`CompletedIsPatched`).
* `Compaction`: a prompt may be answered by a summary only (`PromptOutlivesCompaction`).
* `Revert`: a file that was gone before the revert, and that the revert brought back, is not
  removed again by unrevert (`FilesRestored`); what lies between the asked and the marked message is hidden and not
  undone (`HiddenIsUndone`).
* `ShellTool`: a call can be over before its output is in the file it names (`FullOutputSaved`).
* `Question`: nobody is told that a call with a question was aborted, its dialog stays
  (`NoDeadDialog`).  `EventStream`: a subscription that is busy when the instance goes is not
  told of the end (`DisposedIsSeen`).
* `AcpTurn`: a turn after an aborted one may yield the other's updates
  (`TurnYieldsItsUpdates`).
* `InstanceCache`: a service's state can outlive the instance it was made for
  (`NoStateLeft`); dispose drops whatever the cache holds by then, also the instance that a
  reload has put there meanwhile (`instance.ts:145`).
* `McpClients`: two connects at once leave one client open and not stored (`NoClientLost`);
  `McpAuth`: removing a login does not always find its flow (`CancelFindsFlow`), and a flow may
  exchange its code on another's transport (`OwnTransport`).  The file of the credentials is
  read, changed and written back with no lock (`mcp/auth.ts:77-103`), also by the providers
  (`oauth-provider.ts:139`, `155`): a write that began before a second login can put the
  state of the first back, which then passes (`OvertakenNeverPasses`).
* `Pty`: a shell that is created while the instance is disposed runs on unlisted
  (`NoShellLost`), events may come out of order (`EventsInOrder`).
* `LspClients`: a spawn that ends after the disposal stays (`NoServerLeft`), a client whose
  process died stays listed (`ClientsLive`); `LspDocument`: two touches at once can send
  a second open, or versions that do not rise (`AlwaysInStep`).
* `SyncStore`: a process that replays and one that runs can leave a gap (`AlwaysSequence`).
* `TuiSync`: events lost during a reconnect are not fetched again (`Converges`); an error
  in the stream can end the listening (`KeepsListening`).
* `Account`: a refresh may store the token of an older login (`LoginKept`); two
  processes share the table and not the cache, so each may spend the same refresh token.
* `Storage` (`index.ts:118-128`): a start that is killed before the import leaves an empty
  database, and no later start imports; a channel whose database is not `turing.db`
  imports at every start.  Migration 1 passes over the sessions of a global project, of one
  without a commit or without its worktree, copies no messages of a record without an id, and
  is counted as done all the same (`storage.ts:102-154`); one file that is no JSON fails it
  for good.  The import ignores sessions whose project has no file, and commits without the
  batches that failed (`json-migration.ts:94-103`, `193-196`).  Migration 2 leaves the diffs
  in a file that is in another directory than its project's, and writes a second one there.
  After a migration that failed, the next start writes old diffs over new ones.
* `TuiPlugins` (`OneAtATime`): a second activation during the first overwrites
  `plugin.scope`, and load makes one when it comes to a plugin that `add` is starting
  (`runtime.ts:1015-1021`); a registration after the scope is done stays (317); a plugin that is added or
  activated across the end is not disposed (961-972); a `tui()` that never returns
  blocks the exit.
* Patches: "*** End of File" never sets `is_end_of_file`; of two sections for one file the
  second overwrites the first; a move onto itself deletes the file; an empty last line is lost.
* Edits: "read first" of the tool's description is not enforced; a block anchored by
  its first and last line, with one candidate, is replaced whatever is between.
* Subtasks (`prompt.ts`, not modelled): a cancel releases the listener before the child is
  aborted; an unknown agent or an interruption leaves the part running, and the task is run
  again by the next prompt; of two queued subtasks only one is run.
* Credentials and memory (`auth/index.ts:75`, the memory store): read, changed and written back
  without a lock.

## 7. Not modelled

The components marked `not_modelled` in `PROJECT.json`, each with its reason: input
and output, formatting, generated code, or a sequence of calls with no
state of its own.  Among them the worktrees and git, the fork of a session, the entries of
version 2 (no user), the HTTP routes, configuration, the watcher.

What the map covers is a small share of all lines (about 7 %).  Most of the rest has no
order of steps to get wrong: 19,000 lines of generated SDK, 25,000 lines of terminal
rendering and command line, 5,000 of routes, 2,000 that start language
servers, and the schemas and prompts of tools and providers.

In the modelled components the notes in `PROJECT.json` say what is left out, for example
the finalizer that cancels every Runner at disposal, the interruption of a caller, errors of
the file system other than EEXIST and ENOENT, reasoning parts (treated as text) and
prune.

## 8. Plan

Open, in the order of their weight.

1. `Patch`, `EditReplace`: the places of chunks and edits for every text, should the provers come
   to instantiate the induction theorems of the library.
2. The parts of section 7 that have an order of steps: subtasks of a prompt, the fork of a session.
