------------------------------ MODULE MCSession ------------------------------
(***************************************************************************)
(* Instances, for TLC, of the parts of a session and of the locks between  *)
(* the processes on its machine, one beside the other: the loop, a turn,   *)
(* undo, compaction, ids and saved outputs, a shell command, edits of a    *)
(* file, the place an edit replaces, patches, questions, the event stream  *)
(* and the two lock libraries.  A behaviour is one of the part that        *)
(* `moving` names; the others stay where they are.                         *)
(***************************************************************************)
EXTENDS Flock, PatchCases

CONSTANTS
    EProcs, LongBody,
    Prompts, MaxTurns,
    Calls, Texts, MaxAttempts, NoSnapshot,
    Files, Absent, MaxMessages,
    TailTurns, MaxCalls, MaxSaved,
    PerMs, Wrap, Retention, MaxNow, MaxIds, MaxBreaks,
    Sizes, Bytes, MaxChunks, NoFile,
    Edits, Creates, Writes, NoCall,
    Questions, Viewers, Choices, NoAnswer,
    Connections, Globals, MaxEvents, MaxBeats,
    NotFound, Multiple, Words, Indented, NoWord, MaxLines

VARIABLES
    moving,
    elock, ebreaker, epc, esince, ebeaten,
    log, place, uid, answer, loop, view,
    phase, handling, attempt, part, toolcalls, tool, since, text, open, wrote, snapshot, patched, turn,
    messages, nextId, busy, files, revert, op, original, quiet,
    msgs, run, seen, task, calls,
    now, lastTimestamp, counter, made, outputs, breaks,
    command, sizes, taken, first, cut, file, fiber, call, ended,
    content, edit, holder, mixed,
    pending, asker, deferred, replying, audience, connected, inbox, dialogs,
    bus, published, sub, conn,
    disk, patch, applying, changes, begun,
    old, all, source, replaced

Effect == INSTANCE EffectFlock WITH Procs <- EProcs, lock <- elock, breaker <- ebreaker, pc <- epc, since <- esince, beaten <- ebeaten
Loop == INSTANCE PromptLoop WITH pc <- place
Turn == INSTANCE Processor
Undo == INSTANCE Revert WITH log <- messages
Short == INSTANCE Compaction WITH MaxMessages <- MaxSaved
Ids == INSTANCE Identifier
Shell == INSTANCE ShellTool
Editing == INSTANCE FileTools WITH call <- edit
Asking == INSTANCE Question
Stream == INSTANCE EventStream
Patching == INSTANCE Patch WITH Paths <- {One, Other}, Absent <- Missing, tool <- applying
Replacing == INSTANCE EditReplace WITH text <- source

effectVars == <<elock, ebreaker, epc, esince, ebeaten>>
loopVars == <<log, place, uid, answer, loop, view>>
turnVars == <<phase, handling, attempt, part, toolcalls, tool, since, text, open, wrote, snapshot, patched, turn>>
undoVars == <<messages, nextId, busy, files, revert, op, original, quiet>>
shortVars == <<msgs, run, seen, task, calls>>
idVars == <<now, lastTimestamp, counter, made, outputs, breaks>>
shellVars == <<command, sizes, taken, first, cut, file, fiber, call, ended>>
editVars == <<content, edit, holder, mixed>>
askVars == <<pending, asker, deferred, replying, audience, connected, inbox, dialogs>>
streamVars == <<bus, published, sub, conn>>
patchVars == <<disk, patch, applying, changes, begun>>
replaceVars == <<old, all, source, replaced>>

\* Each part starts in one state where it does not move.
SessionInit ==
    /\ moving \in {"flock", "effect-flock", "loop", "turn", "undo", "short", "ids", "shell", "editing", "asking", "stream", "patching", "replacing"}
    /\ Init /\ Effect!EInit /\ Loop!Init /\ Turn!Init /\ Undo!Init /\ Short!Init
    /\ Ids!Init /\ Shell!Init /\ Editing!Init /\ Asking!Init /\ Stream!Init
    /\ moving # "turn" => turn.shouldBreak
    /\ moving # "ids" => now = Retention
    /\ moving # "shell" => ~command.deaf
    /\ moving # "asking" => connected = {}
    /\ \E case \in IF moving = "patching" THEN Cases ELSE {CHOOSE c \in Cases : TRUE} : Patching!Begin(case)
    /\ \E case \in IF moving = "replacing" THEN Replacing!EditCalls ELSE {Replacing!NoEdit} : Replacing!Begin(case)

SessionNext ==
    /\ UNCHANGED moving
    /\ IF moving = "flock" THEN Next ELSE UNCHANGED vars
    /\ IF moving = "effect-flock" THEN Effect!ENext ELSE UNCHANGED effectVars
    /\ IF moving = "loop" THEN Loop!Next ELSE UNCHANGED loopVars
    /\ IF moving = "turn" THEN Turn!Next ELSE UNCHANGED turnVars
    /\ IF moving = "undo" THEN Undo!Next ELSE UNCHANGED undoVars
    /\ IF moving = "short" THEN Short!Next ELSE UNCHANGED shortVars
    /\ IF moving = "ids" THEN Ids!Next ELSE UNCHANGED idVars
    /\ IF moving = "shell" THEN Shell!Next ELSE UNCHANGED shellVars
    /\ IF moving = "editing" THEN Editing!Next ELSE UNCHANGED editVars
    /\ IF moving = "asking" THEN Asking!Next ELSE UNCHANGED askVars
    /\ IF moving = "stream" THEN Stream!Next ELSE UNCHANGED streamVars
    /\ IF moving = "patching" THEN Patching!Next ELSE UNCHANGED patchVars
    /\ IF moving = "replacing" THEN Replacing!Next ELSE UNCHANGED replaceVars

sessionVars == <<moving, vars, effectVars, loopVars, turnVars, undoVars, shortVars, idVars, shellVars, editVars, askVars,
                 streamVars, patchVars, replaceVars>>

\* The fairness of each part, while it is the one that moves.
SessionSpec ==
    /\ SessionInit /\ [][SessionNext]_sessionVars
    /\ \A p \in Procs : WF_vars(moving = "flock" /\ Work(p)) /\ WF_vars(moving = "flock" /\ Touch(p))
    /\ WF_vars(moving = "flock" /\ Tick)
    /\ WF_loopVars(moving = "loop" /\ Loop!LoopStep)
    /\ WF_turnVars(moving = "turn" /\ Turn!Cleanup)
    /\ WF_shellVars(moving = "shell" /\ Shell!Tool)
    /\ WF_shellVars(moving = "shell" /\ Shell!Kill("timeout"))
    /\ \A c \in Edits \cup Creates \cup Writes : WF_editVars(moving = "editing" /\ Editing!GoesOn(c))
    /\ \A q \in Questions : WF_askVars(moving = "asking" /\ Asking!ServiceStep(q))
    /\ \A c \in Connections \cup Globals : WF_streamVars(moving = "stream" /\ Stream!GoesOn(c))

-----------------------------------------------------------------------------
(* The properties are those of the modules, where they are explained. *)

\* A prompt is answered by a finished turn that has seen it, or that overtook it.
PromptsAnswered == Loop!PromptsAnswered

\* A turn that is over has settled its calls, saved its texts and patched its files.
TurnSettles == Turn!TurnSettles

\* What reverted messages did to the files is undone, and comes back by unrevert.
RevertIsExact == Undo!RevertIsExact

\* No compaction takes a message from the model without a summary of it.
HistoryIsKept == Short!HistoryIsKept

\* No step keeps a message that was made from what it undoes, returns with the summary
\* of an automatic compaction, or writes over what a turn has ended with.
StepsAreSound == Undo!KeptIsOlder /\ Short!AutoGoesOn /\ Turn!FinalStays

\* The stamps of ids tell their order and their age.
StampsTell == Ids!StampsTell

\* A shell call answers with all of its command's output, or names a file that is; a patch
\* puts its chunks in places that fit, in all its files or before any of them; an edit
\* replaces a text that is there once and is alike to the old one.
ToolsAreExact == Shell!AnswerIsWhole /\ Patching!PatchesFit /\ Replacing!ReplacesOld

\* Edits of one file do not undo each other, and do what the user has seen.
EditsAgree == Editing!EditsAgree

\* Questions, their tool calls and their dialogs belong together.
QuestionsSettle == Asking!QuestionsSettle

\* A connection is told every event since it was opened, in order.
StreamInOrder == Stream!StreamInOrder

\* EffectFlock keeps two bodies shorter than STALE_MS apart, and a holder's lock does
\* not look stale, whatever date its beats write.
EffectExcludes == Effect!EffectExcludes

\* Nobody waits for ever: for a lock whose owner died, for the loop, for a turn that was stopped, for a command, a
\* file, the tool's return or the end of a stream.
EverythingEnds ==
    []<>(/\ NobodyWaits /\ Loop!NobodyWaits /\ Turn!NobodyWaits /\ (moving = "shell" => Shell!NobodyWaits)
         /\ Editing!NobodyWaits /\ Asking!NobodyWaits /\ Stream!NobodyWaits)
==============================================================================
