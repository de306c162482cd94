------------------------------ MODULE ShellTool ------------------------------
(***************************************************************************)
(* One call of tool/bash.ts: the command it spawns, the fiber that takes   *)
(* the command's output, and the race of its exit, the user's abort and    *)
(* the timeout.  A chunk of the output is its number; of its text only the *)
(* size matters, lines are counted like bytes.                             *)
(*                                                                         *)
(* The command's descendants stay in its process group and close their     *)
(* output when they are killed (a daemon that does not keeps the call      *)
(* waiting for `close`).                                                   *)
(***************************************************************************)
EXTENDS Integers, Sequences

CONSTANTS
    Sizes,     \* the sizes of a chunk
    Bytes,     \* Truncate.MAX_BYTES
    MaxChunks, \* bound on the output
    NoFile

VARIABLES
    command, \* the process: its state, and whether it ignores SIGTERM
    sizes,   \* of what it has written, up to each chunk and with it
    taken,   \* how many of them the fiber has taken from the stream
    first,   \* the chunk that `list` begins with
    cut,
    file,    \* the chunks in the file, or NoFile
    fiber,   \* what the fiber of the output does
    call,    \* how far the tool is
    ended    \* which effect has won the race

shvars == <<command, sizes, taken, first, cut, file, fiber, call, ended>>

Keep == 2 * Bytes
Total(n) == IF n = 0 THEN 0 ELSE sizes[n]
Size(from, to) == Total(to) - Total(from - 1)

Init ==
    /\ command \in [state : {"running"}, deaf : BOOLEAN]
    /\ sizes = <<>> /\ taken = 0 /\ first = 1
    /\ cut = FALSE /\ file = NoFile
    /\ fiber = "waiting" /\ call = "running" /\ ended = "none"

-----------------------------------------------------------------------------
(* The command *)

Running == command.state = "running"

Write(size) ==
    /\ Running /\ Len(sizes) < MaxChunks
    /\ sizes' = Append(sizes, Total(Len(sizes)) + size)
    /\ UNCHANGED <<command, taken, first, cut, file, fiber, call, ended>>

\* It ends with a code, or by a signal that is not the tool's.
End(how) ==
    /\ Running
    /\ command' = [command EXCEPT !.state = how]
    /\ UNCHANGED <<sizes, taken, first, cut, file, fiber, call, ended>>

\* `close`: the process is over and what it wrote was read.  The fiber takes a
\* chunk as soon as it is read, unless it waits for the file.
Closed == ~Running /\ (fiber = "saving" \/ taken = Len(sizes))

-----------------------------------------------------------------------------
(* The fiber that takes the output *)

\* The list is shortened from its beginning, to one chunk if need be.
Fits(i, n) == i = n \/ Size(i, n) <= Keep
ListStart(n) == CHOOSE i \in first..n : Fits(i, n) /\ \A j \in first..i - 1 : ~Fits(j, n)

\* Mutant: the file is opened anew with every chunk.
WithChunkOnly(n) == {n}

\* sink.write, to a file that is opened to append.
WithChunk(n) == file \cup {n}

Take ==
    /\ fiber = "waiting" /\ call \in {"running", "killing"} /\ taken < Len(sizes)
    /\ LET n == taken + 1
       IN /\ taken' = n
          /\ first' = ListStart(n)
          /\ cut' = (cut \/ ListStart(n) # first)
          /\ file' = IF file = NoFile THEN NoFile ELSE WithChunk(n)
          /\ fiber' = IF file = NoFile /\ Size(1, n) > Bytes THEN "saving" ELSE "waiting"
    /\ UNCHANGED <<command, sizes, call, ended>>

\* trunc.write returns: `full` is in the file.
Saved ==
    /\ fiber = "saving"
    /\ file' = 1..taken /\ cut' = TRUE
    /\ fiber' = "waiting"
    /\ UNCHANGED <<command, sizes, taken, first, call, ended>>

\* The scope closes: the fiber is interrupted, also while it waits for the file.
StopFiber == fiber' = IF fiber = "saving" THEN "cutOff" ELSE "stopped"

-----------------------------------------------------------------------------
(* The call *)

\* raceAll waits for the first that succeeds; exitCode fails after a signal.
ExitWins ==
    /\ call = "running" /\ Closed /\ command.state = "exited"
    /\ ended' = "exit" /\ call' = "collecting"
    /\ StopFiber
    /\ UNCHANGED <<command, sizes, taken, first, cut, file>>

\* The user's abort or the timeout: SIGTERM to the group.  kill fails, and with it
\* the call, if there is nobody to send it to.
Kill(why) ==
    /\ call = "running"
    /\ ended' = why
    /\ IF Running
       THEN call' = "killing" /\ UNCHANGED fiber
       ELSE call' = "died" /\ StopFiber
    /\ UNCHANGED <<command, sizes, taken, first, cut, file>>

Terminate(how) ==
    /\ call = "killing" /\ Running /\ ~command.deaf
    /\ command' = [command EXCEPT !.state = how]
    /\ UNCHANGED <<sizes, taken, first, cut, file, fiber, call, ended>>

\* Mutant: without forceKillAfter.
ForceKillNever == FALSE /\ UNCHANGED shvars

\* forceKillAfter: SIGKILL three seconds later.
ForceKill ==
    /\ call = "killing" /\ Running
    /\ command' = [command EXCEPT !.state = "signalled"]
    /\ UNCHANGED <<sizes, taken, first, cut, file, fiber, call, ended>>

\* kill returns when the process has closed.
Killed ==
    /\ call = "killing" /\ Closed
    /\ call' = "collecting"
    /\ StopFiber
    /\ UNCHANGED <<command, sizes, taken, first, cut, file, ended>>

\* Mutant: the tail that was cut off is not noticed.
CollectUncut ==
    /\ call = "collecting"
    /\ call' = "done"
    /\ UNCHANGED <<command, sizes, taken, first, cut, file, fiber, ended>>

\* What is in the list becomes the output, or the end of it.
Collect ==
    /\ call = "collecting"
    /\ LET tooLong == Size(first, taken) > Bytes
       IN /\ cut' = (cut \/ tooLong)
          /\ file' = IF file = NoFile /\ tooLong THEN first..taken ELSE file
    /\ call' = "done"
    /\ UNCHANGED <<command, sizes, taken, first, fiber, ended>>

Tool == Saved \/ Take \/ ExitWins \/ ForceKill \/ Killed \/ Collect

Next ==
    \/ \E size \in Sizes : Write(size)
    \/ \E how \in {"exited", "signalled"} : End(how) \/ Terminate(how)
    \/ \E why \in {"abort", "timeout"} : Kill(why)
    \/ Tool

\* The tool's own steps, and the timeout that its caller has set.
Fairness == WF_shvars(Tool) /\ WF_shvars(Kill("timeout"))

Spec == Init /\ [][Next]_shvars /\ Fairness

-----------------------------------------------------------------------------
(* Properties *)

TypeOK ==
    /\ command \in [state : {"running", "exited", "signalled"}, deaf : BOOLEAN]
    /\ taken \in 0..Len(sizes) /\ first \in 1..taken + 1 /\ cut \in BOOLEAN
    /\ file = NoFile \/ file \subseteq 1..taken
    /\ fiber \in {"waiting", "saving", "stopped", "cutOff"}
    /\ call \in {"running", "killing", "collecting", "done", "died"}

\* What the output does not show is in the file it names, from the first chunk to the
\* last, unless the call was over before the file was written.
OutputKept ==
    call = "done" =>
        IF cut
        THEN file # NoFile /\ (fiber = "stopped" => file = 1..Len(sizes))
        ELSE first = 1 /\ taken = Len(sizes)

\* A call that is over has left no command running.
NoneLeft == call \in {"collecting", "done", "died"} => ~Running

\* What a call answers with is all of its command's output, or names a file that is.
AnswerIsWhole == TypeOK /\ OutputKept /\ NoneLeft

\* The call is over, however its command takes it: in the end (EverythingEnds of
\* MCSession).
NobodyWaits == call \in {"done", "died"}

\* Does not hold: the call may be over before its output is written to the file it names.
FullOutputSaved == call = "done" /\ ended = "exit" /\ cut => file = 1..Len(sizes)
==============================================================================
