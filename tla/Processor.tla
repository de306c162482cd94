----------------------------- MODULE Processor -----------------------------
(***************************************************************************)
(* One turn of a session: process of session/processor.ts, with the tools  *)
(* that session/prompt.ts lets the model call and the retries of           *)
(* session/retry.ts.                                                       *)
(*                                                                         *)
(* The stream of the language model is handled one event at a time.  The   *)
(* tools it calls run beside it, and go on when the stream is cut; their   *)
(* results come as events of the stream, or, after it was cut, by          *)
(* completeToolCall.                                                       *)
(***************************************************************************)
EXTENDS Naturals, FiniteSets

CONSTANTS
    Calls,       \* tool calls of the model
    Texts,       \* passages of text or reasoning
    MaxAttempts, \* a bound: times the stream is asked for
    NoSnapshot   \* ctx.snapshot is undefined

VARIABLES
    phase,     \* where process is: the stream, the pause of a retry, cleanup
    handling,  \* what handleEvent awaits: nothing, a permission, a plugin, a snapshot
    attempt,   \* the stream's number; calls of earlier ones may still run
    part,      \* the saved state of each tool part
    toolcalls, \* ctx.toolcalls: the calls that are still to be settled
    tool,      \* where the execution of each call is
    since,     \* the attempt that made each call
    text,      \* each passage: shown as it comes, saved, or lost to a retry
    open,      \* ctx.currentText and ctx.reasoningMap
    wrote,     \* calls whose change of the files is made
    snapshot,  \* ctx.snapshot: the changes it already holds
    patched,   \* the changes that a patch part of the message names
    turn       \* error, blocked, needsCompaction, the result; was it stopped?

vars == <<phase, handling, attempt, part, toolcalls, tool, since, text, open, wrote, snapshot, patched, turn>>

Init ==
    /\ phase = "stream" /\ handling = "none" /\ attempt = 1
    /\ part = [c \in Calls |-> "none"]
    /\ toolcalls = {}
    /\ tool = [c \in Calls |-> "none"]
    /\ since = [c \in Calls |-> 0]
    /\ text = [t \in Texts |-> "none"] /\ open = {}
    /\ wrote = {} /\ snapshot = {} /\ patched = {}
    /\ \E break \in BOOLEAN :
        turn = [error |-> "none", blocked |-> FALSE, shouldBreak |-> break, needsCompaction |-> FALSE,
                result |-> "none", stopped |-> FALSE]

\* The next event of the stream can be taken.
Reading == phase = "stream" /\ handling = "none"

-----------------------------------------------------------------------------
(* handleEvent *)

TextStart(t) ==
    /\ Reading
    /\ snapshot # NoSnapshot
    /\ text[t] = "none"
    /\ text' = [text EXCEPT ![t] = "shown"]
    /\ open' = open \cup {t}
    /\ UNCHANGED <<phase, handling, attempt, part, toolcalls, tool, since, wrote, snapshot, patched, turn>>

\* A plugin may change the text before it is saved.
TextEnd(t) ==
    /\ Reading
    /\ t \in open
    /\ handling' = "plugin"
    /\ UNCHANGED <<phase, attempt, part, toolcalls, tool, since, text, open, wrote, snapshot, patched, turn>>

TextSave(t) ==
    /\ phase = "stream" /\ handling = "plugin"
    /\ t \in open
    /\ handling' = "none"
    /\ text' = [text EXCEPT ![t] = "saved"]
    /\ open' = open \ {t}
    /\ UNCHANGED <<phase, attempt, part, toolcalls, tool, since, wrote, snapshot, patched, turn>>

ToolInputStart(c) ==
    /\ Reading
    /\ snapshot # NoSnapshot
    /\ part[c] = "none"
    /\ part' = [part EXCEPT ![c] = "pending"]
    /\ toolcalls' = toolcalls \cup {c}
    /\ since' = [since EXCEPT ![c] = attempt]
    /\ UNCHANGED <<phase, handling, attempt, tool, text, open, wrote, snapshot, patched, turn>>

\* The call runs at once; the handler may first ask whether it is a doom loop.
ToolCall(c) ==
    /\ Reading
    /\ c \in toolcalls /\ part[c] = "pending" /\ since[c] = attempt
    /\ part' = [part EXCEPT ![c] = "running"]
    /\ tool' = [tool EXCEPT ![c] = "executing"]
    /\ handling' \in {"none", "permission"}
    /\ UNCHANGED <<phase, attempt, toolcalls, since, text, open, wrote, snapshot, patched, turn>>

Allowed ==
    /\ phase = "stream" /\ handling = "permission"
    /\ handling' = "none"
    /\ UNCHANGED <<phase, attempt, part, toolcalls, tool, since, text, open, wrote, snapshot, patched, turn>>

\* Mutant: any part takes the result.
CompletedAnyway(c) ==
    /\ part' = [part EXCEPT ![c] = "completed"]
    /\ toolcalls' = toolcalls \ {c}

\* completeToolCall: only a call that is tracked and whose part is running.
Completed(c) ==
    IF c \in toolcalls /\ part[c] = "running"
    THEN /\ part' = [part EXCEPT ![c] = "completed"]
         /\ toolcalls' = toolcalls \ {c}
    ELSE UNCHANGED <<part, toolcalls>>

ToolResult(c) ==
    /\ Reading
    /\ tool[c] = "returned"
    /\ tool' = [tool EXCEPT ![c] = "over"]
    /\ Completed(c)
    /\ UNCHANGED <<phase, handling, attempt, since, text, open, wrote, snapshot, patched, turn>>

\* failToolCall; a rejection ends the turn, unless the configuration goes on.
ToolError(c) ==
    /\ Reading
    /\ tool[c] \in {"threw", "rejected"}
    /\ tool' = [tool EXCEPT ![c] = "over"]
    /\ part' = [part EXCEPT ![c] = IF tool[c] = "rejected" THEN "refused" ELSE "failed"]
    /\ toolcalls' = toolcalls \ {c}
    /\ turn' = IF tool[c] = "rejected" THEN [turn EXCEPT !.blocked = turn.shouldBreak] ELSE turn
    /\ UNCHANGED <<phase, handling, attempt, since, text, open, wrote, snapshot, patched>>

StartStep ==
    /\ Reading
    /\ snapshot = NoSnapshot
    /\ snapshot' = wrote
    /\ UNCHANGED <<phase, handling, attempt, part, toolcalls, tool, since, text, open, wrote, patched, turn>>

\* The calls of the stream have all been answered when a step is finished.
Answered == \A c \in Calls : since[c] = attempt => tool[c] = "over"

FinishStep ==
    /\ Reading
    /\ Answered /\ open = {} /\ snapshot # NoSnapshot
    /\ handling' = "snapshot"
    /\ UNCHANGED <<phase, attempt, part, toolcalls, tool, since, text, open, wrote, snapshot, patched, turn>>

Patch == patched' = IF snapshot = NoSnapshot THEN patched ELSE patched \cup (wrote \ snapshot)

FinishStepPatch ==
    /\ phase = "stream" /\ handling = "snapshot"
    /\ handling' = "none"
    /\ Patch
    /\ snapshot' = NoSnapshot
    /\ \E overflow \in BOOLEAN : turn' = [turn EXCEPT !.needsCompaction = overflow]
    /\ phase' = IF turn'.needsCompaction THEN "cleanup" ELSE phase
    /\ UNCHANGED <<attempt, part, toolcalls, tool, since, text, open, wrote>>

-----------------------------------------------------------------------------
(* The end of the stream, its failures, the retries *)

\* The stream's scope closes: its signal aborts the calls that still run, and the
\* events that were not read are gone.
Cut == tool' = [c \in Calls |-> CASE tool[c] = "executing" -> "cut"
                                  [] tool[c] \in {"returned", "threw", "rejected"} -> "over"
                                  [] OTHER -> tool[c]]

Finish ==
    /\ Reading
    /\ Answered /\ snapshot = NoSnapshot
    /\ phase' = "cleanup"
    /\ UNCHANGED <<handling, attempt, part, toolcalls, tool, since, text, open, wrote, snapshot, patched, turn>>

\* An error that the policy retries.
Fail ==
    /\ Reading
    /\ attempt < MaxAttempts
    /\ phase' = "retry" /\ handling' = "none"
    /\ Cut
    /\ UNCHANGED <<attempt, part, toolcalls, since, text, open, wrote, snapshot, patched, turn>>

\* Mutant: a retry starts with a clean turn.
RetryUnblocked ==
    /\ phase = "retry"
    /\ phase' = "stream" /\ attempt' = attempt + 1
    /\ text' = [t \in Texts |-> IF t \in open THEN "lost" ELSE text[t]]
    /\ open' = {}
    /\ turn' = [turn EXCEPT !.blocked = FALSE]
    /\ UNCHANGED <<handling, part, toolcalls, tool, since, wrote, snapshot, patched>>

\* Text and reasoning of the failed attempt are forgotten, its calls are not.
Retry ==
    /\ phase = "retry"
    /\ phase' = "stream" /\ attempt' = attempt + 1
    /\ text' = [t \in Texts |-> IF t \in open THEN "lost" ELSE text[t]]
    /\ open' = {}
    /\ UNCHANGED <<handling, part, toolcalls, tool, since, wrote, snapshot, patched, turn>>

\* halt, for an error of the stream or a handler that is not retried; a context
\* that overflows is compacted.
Halt ==
    /\ phase = "stream"
    /\ phase' = "cleanup" /\ handling' = "none"
    /\ Cut
    /\ \/ turn' = [turn EXCEPT !.error = "failed"]
       \/ handling = "none" /\ turn' = [turn EXCEPT !.needsCompaction = TRUE]
    /\ UNCHANGED <<attempt, part, toolcalls, since, text, open, wrote, snapshot, patched>>

\* The runner cancels the turn.  Only inside the stream this ends in halt: the
\* pause of a retry is outside of onInterrupt.
Stop ==
    /\ phase \in {"stream", "retry"}
    /\ phase' = "cleanup" /\ handling' = "none"
    /\ Cut
    /\ turn' = [turn EXCEPT !.stopped = TRUE,
                            !.error = IF phase = "stream" /\ @ = "none" THEN "aborted" ELSE @]
    /\ UNCHANGED <<attempt, part, toolcalls, since, text, open, wrote, snapshot, patched>>

-----------------------------------------------------------------------------
(* cleanup: first the patch and the texts, then the calls *)

\* Mutant: the patch is left to finish-step.
CleanTextsOnly ==
    /\ phase = "cleanup"
    /\ phase' = "wait"
    /\ snapshot' = NoSnapshot
    /\ text' = [t \in Texts |-> IF t \in open THEN "saved" ELSE text[t]]
    /\ open' = {}
    /\ UNCHANGED <<handling, attempt, part, toolcalls, tool, since, wrote, patched, turn>>

\* Mutant: texts that are open are dropped.
CleanTextsDropped ==
    /\ phase = "cleanup"
    /\ phase' = "wait"
    /\ Patch
    /\ snapshot' = NoSnapshot
    /\ open' = {}
    /\ UNCHANGED <<handling, attempt, part, toolcalls, tool, since, text, wrote, turn>>

CleanTexts ==
    /\ phase = "cleanup"
    /\ phase' = "wait"
    /\ Patch
    /\ snapshot' = NoSnapshot
    /\ text' = [t \in Texts |-> IF t \in open THEN "saved" ELSE text[t]]
    /\ open' = {}
    /\ UNCHANGED <<handling, attempt, part, toolcalls, tool, since, wrote, turn>>

Result == CASE turn.stopped -> "none"
            [] ~turn.stopped /\ turn.needsCompaction -> "compact"
            [] ~turn.stopped /\ ~turn.needsCompaction /\ (turn.blocked \/ turn.error # "none") -> "stop"
            [] OTHER -> "continue"

\* Mutant: calls whose input was still coming are left as they are.
CleanCallsRunning ==
    /\ phase = "wait"
    /\ phase' = "done"
    /\ part' = [c \in Calls |-> IF c \in toolcalls /\ part[c] = "running" THEN "aborted" ELSE part[c]]
    /\ toolcalls' = {}
    /\ turn' = [turn EXCEPT !.result = Result]
    /\ UNCHANGED <<handling, attempt, tool, since, text, open, wrote, snapshot, patched>>

\* Mutant: no time limit.
CleanCallsUnbounded ==
    /\ phase = "wait"
    /\ toolcalls = {}
    /\ phase' = "done"
    /\ turn' = [turn EXCEPT !.result = Result]
    /\ UNCHANGED <<handling, attempt, part, toolcalls, tool, since, text, open, wrote, snapshot, patched>>

\* When they are all settled, or 250 ms later.
CleanCalls ==
    /\ phase = "wait"
    /\ phase' = "done"
    /\ part' = [c \in Calls |-> IF c \in toolcalls THEN "aborted" ELSE part[c]]
    /\ toolcalls' = {}
    /\ turn' = [turn EXCEPT !.result = Result]
    /\ UNCHANGED <<handling, attempt, tool, since, text, open, wrote, snapshot, patched>>

-----------------------------------------------------------------------------
(* The tools *)

Write(c) ==
    /\ tool[c] \in {"executing", "cut"}
    /\ c \notin wrote
    /\ wrote' = wrote \cup {c}
    /\ UNCHANGED <<phase, handling, attempt, part, toolcalls, tool, since, text, open, snapshot, patched, turn>>

Return(c) ==
    /\ tool[c] = "executing"
    /\ tool' = [tool EXCEPT ![c] = "returned"]
    /\ UNCHANGED <<phase, handling, attempt, part, toolcalls, since, text, open, wrote, snapshot, patched, turn>>

Throw(c) ==
    /\ tool[c] = "executing"
    /\ \E how \in {"threw", "rejected"} : tool' = [tool EXCEPT ![c] = how]
    /\ UNCHANGED <<phase, handling, attempt, part, toolcalls, since, text, open, wrote, snapshot, patched, turn>>

\* The signal is aborted: the tool stores its own result, or fails unheard.
ReturnCut(c) ==
    /\ tool[c] = "cut"
    /\ tool' = [tool EXCEPT ![c] = "late"]
    /\ Completed(c)
    /\ UNCHANGED <<phase, handling, attempt, since, text, open, wrote, snapshot, patched, turn>>

ThrowCut(c) ==
    /\ tool[c] = "cut"
    /\ tool' = [tool EXCEPT ![c] = "over"]
    /\ UNCHANGED <<phase, handling, attempt, part, toolcalls, since, text, open, wrote, snapshot, patched, turn>>

-----------------------------------------------------------------------------
Cleanup == CleanTexts \/ CleanCalls

Next ==
    \/ \E t \in Texts : TextStart(t) \/ TextEnd(t) \/ TextSave(t)
    \/ \E c \in Calls : ToolInputStart(c) \/ ToolCall(c) \/ ToolResult(c) \/ ToolError(c)
    \/ Allowed \/ StartStep \/ FinishStep \/ FinishStepPatch
    \/ Finish \/ Fail \/ Retry \/ Halt \/ Stop \/ Cleanup
    \/ \E c \in Calls : Write(c) \/ Return(c) \/ Throw(c) \/ ReturnCut(c) \/ ThrowCut(c)

\* cleanup goes on by itself; nothing is assumed of the stream and the tools.
Spec == Init /\ [][Next]_vars /\ WF_vars(Cleanup)

-----------------------------------------------------------------------------
(* Properties *)

TypeOK ==
    /\ phase \in {"stream", "retry", "cleanup", "wait", "done"}
    /\ handling \in {"none", "permission", "plugin", "snapshot"}
    /\ attempt \in 1..MaxAttempts
    /\ part \in [Calls -> {"none", "pending", "running", "completed", "failed", "refused", "aborted"}]
    /\ toolcalls \subseteq Calls
    /\ tool \in [Calls -> {"none", "executing", "returned", "threw", "rejected", "cut", "over", "late"}]
    /\ since \in [Calls -> 0..MaxAttempts]
    /\ text \in [Texts -> {"none", "shown", "saved", "lost"}]
    /\ open \subseteq Texts
    /\ wrote \subseteq Calls /\ patched \subseteq wrote
    /\ snapshot = NoSnapshot \/ snapshot \subseteq Calls
    /\ turn \in [error : {"none", "failed", "aborted"}, blocked : BOOLEAN, shouldBreak : BOOLEAN,
                needsCompaction : BOOLEAN, result : {"none", "compact", "stop", "continue"},
                stopped : BOOLEAN]

\* cleanup leaves no tool part that looks as if it were still going on.
Settled == phase = "done" => \A c \in Calls : part[c] \notin {"pending", "running"}

\* Whatever the tools do later, the parts stay as the turn has left them.
FinalStays == [][phase = "done" => UNCHANGED <<part, text>>]_vars

\* What the clients were shown is saved when the turn is over, but for the
\* passages of an attempt that was retried.
ShownIsSaved == phase = "done" => \A t \in Texts : text[t] # "shown"

\* The turn goes on after a retry only with every call of the last stream
\* answered, and never past a refusal that blocks.
ContinueIsAnswered ==
    turn.result = "continue" => \A c \in Calls :
        /\ part[c] = "aborted" => since[c] < attempt
        /\ part[c] = "refused" => ~turn.shouldBreak

\* A turn that is stopped is over, which comes true (EverythingEnds of MCSession).
NobodyWaits == turn.stopped => phase = "done"

\* A result that came by the stream, however the stream then ends, has its change
\* of the files in a patch.
AnsweredIsPatched ==
    phase = "done" => \A c \in Calls :
        part[c] = "completed" /\ tool[c] = "over" /\ c \in wrote => c \in patched

\* Wanted, but does not hold:
\* A turn that is stopped is saved as stopped.
StoppedIsError == phase = "done" /\ turn.stopped => turn.error # "none"

\* Wanted, but does not hold:
\* What a completed call did to the files can be undone: a patch names it.
CompletedIsPatched == phase = "done" => \A c \in Calls : part[c] = "completed" /\ c \in wrote => c \in patched

\* However a turn ends, by its stream, an error, a refusal, a retry or a stop: its
\* tool calls are settled, what was shown is saved, and what was answered is patched.
TurnSettles == TypeOK /\ Settled /\ ShownIsSaved /\ ContinueIsAnswered /\ AnsweredIsPatched
=============================================================================
