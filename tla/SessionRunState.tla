-------------------------- MODULE SessionRunState --------------------------
(***************************************************************************)
(* The run slot of one session: session/run-state.ts keeps at most one     *)
(* Runner per session in a map, effect/runner.ts is the state machine      *)
(* behind a Runner, session/status.ts holds the status the UI shows.       *)
(*                                                                         *)
(* Fibers are cooperative, so an action is the code between two            *)
(* suspension points: forking, awaiting a fiber or a Deferred, the work.   *)
(* A work item stands for its id, its Deferred and its fiber at once:      *)
(* startRun and startShell make the three together.  The set Work bounds   *)
(* how many runs and shells are ever started.                              *)
(***************************************************************************)
EXTENDS FiniteSets

CONSTANTS
    Callers,        \* fibers that call ensureRunning, startShell or cancel
    Runners,        \* Runner objects that may be allocated
    Work,           \* runs and shells that may be started
    None,           \* "no entry", "no handle"
    OverlapCancel,  \* may a call arrive while an earlier cancel still waits?
    LateStart       \* may a forked fiber be interrupted before its first step?

ASSUME NoneAssumption == None \notin Runners \cup Work
ASSUME OverlapAssumption == OverlapCancel \in BOOLEAN
ASSUME LateStartAssumption == LateStart \in BOOLEAN

VARIABLES
    runners,  \* the session's entry of the map data.runners
    state,    \* the SynchronizedRef of each Runner
    status,   \* SessionStatus of the session
    phase,    \* how far the fiber of each work item is
    kind,     \* is the work item a run or a shell?
    owner,    \* the Runner that started it
    result,   \* its Deferred (a run's) or its exit (a shell's)
    pc,       \* what each caller awaits
    target    \* the work item it awaits

vars == <<runners, state, status, phase, kind, owner, result, pc, target>>

Tags == {"Idle", "Running", "Shell", "ShellThenRun"}
Phases == {"unused", "queued", "forked", "looping", "halted", "interrupted", "exited"}
Results == {"none", "ok", "fail", "cancelled"}
Statuses == {"idle", "busy", "retry"}
Handle == Work \cup {None}
State == [tag : Tags, run : Handle, shell : Handle]

Idle == [tag |-> "Idle", run |-> None, shell |-> None]
Running(w) == [tag |-> "Running", run |-> w, shell |-> None]
Shell(s) == [tag |-> "Shell", run |-> None, shell |-> s]
ShellThenRun(s, w) == [tag |-> "ShellThenRun", run |-> w, shell |-> s]

Init ==
    /\ runners = None
    /\ state = [r \in Runners |-> Idle]
    /\ status = "idle"
    /\ phase = [w \in Work |-> "unused"]
    /\ kind = [w \in Work |-> "run"]
    /\ owner = [w \in Work |-> None]
    /\ result = [w \in Work |-> "none"]
    /\ pc = [c \in Callers |-> "free"]
    /\ target = [c \in Callers |-> None]

-----------------------------------------------------------------------------
(* What the fiber of a work item is doing. *)

Live(w) == phase[w] \in {"forked", "looping", "halted"}
Current(r, w) == state[r].tag = "Running" /\ state[r].run = w

(***************************************************************************)
(* runner(sessionID): the entry of the map, or a new Runner put in it.     *)
(***************************************************************************)
Fresh(r) == \A w \in Work : owner[w] # r
\* Mutant: a new Runner for every call.
LookupAlwaysNew(r) == Fresh(r)
Lookup(r) == IF runners = None THEN Fresh(r) ELSE runners = r

\* What a new call waits for: nothing, or (a bounded client) earlier cancels.
MayCall(c) ==
    /\ pc[c] = "free"
    /\ ~OverlapCancel => \A d \in Callers : pc[d] # "cancelling"

Await(c, how, w) ==
    /\ pc' = [pc EXCEPT ![c] = how]
    /\ target' = [target EXCEPT ![c] = w]

Release(c) == Await(c, "free", None)

\* next(), Deferred.make and forkIn: a work item gets an owner and a phase.
Start(w, r, k, p) ==
    /\ phase[w] = "unused"
    /\ phase' = [phase EXCEPT ![w] = p]
    /\ kind' = [kind EXCEPT ![w] = k]
    /\ owner' = [owner EXCEPT ![w] = r]

-----------------------------------------------------------------------------
(* ensureRunning, by the state it finds. *)

\* Running, ShellThenRun: share the Deferred of the run, drop the caller's work.
JoinRun(c, r) ==
    /\ MayCall(c)
    /\ Lookup(r)
    /\ state[r].tag \in {"Running", "ShellThenRun"}
    /\ Await(c, "awaitRun", state[r].run)
    /\ UNCHANGED <<runners, state, status, phase, kind, owner, result>>

\* Shell: leave a run behind the shell.
QueueBehindShell(c, r, w) ==
    /\ MayCall(c)
    /\ Lookup(r)
    /\ state[r].tag = "Shell"
    /\ Start(w, r, "run", "queued")
    /\ state' = [state EXCEPT ![r] = ShellThenRun(state[r].shell, w)]
    /\ Await(c, "awaitRun", w)
    /\ UNCHANGED <<runners, status, result>>

\* Mutant: the new Runner is not put in the map.
StartRunUnregistered(c, r, w) ==
    /\ MayCall(c)
    /\ Lookup(r)
    /\ state[r].tag = "Idle"
    /\ Start(w, r, "run", "forked")
    /\ state' = [state EXCEPT ![r] = Running(w)]
    /\ Await(c, "awaitRun", w)
    /\ UNCHANGED <<runners, status, result>>

\* Idle: fork the run and wait for it.
StartRun(c, r, w) ==
    /\ MayCall(c)
    /\ Lookup(r)
    /\ state[r].tag = "Idle"
    /\ Start(w, r, "run", "forked")
    /\ runners' = r
    /\ state' = [state EXCEPT ![r] = Running(w)]
    /\ Await(c, "awaitRun", w)
    /\ UNCHANGED <<status, result>>

\* Mutant: no check that the Runner is idle.
StartShellUnchecked(c, r, s) ==
    /\ MayCall(c)
    /\ Lookup(r)
    /\ Start(s, r, "shell", "looping")
    /\ runners' = r
    /\ state' = [state EXCEPT ![r] = Shell(s)]
    /\ status' = "busy"
    /\ Await(c, "awaitShell", s)
    /\ UNCHANGED result

\* Mutant: onBusy is not called.
StartShellSilently(c, r, s) ==
    /\ MayCall(c)
    /\ Lookup(r)
    /\ state[r].tag = "Idle"
    /\ Start(s, r, "shell", "looping")
    /\ runners' = r
    /\ state' = [state EXCEPT ![r] = Shell(s)]
    /\ Await(c, "awaitShell", s)
    /\ UNCHANGED <<status, result>>

\* startShell on an idle Runner; on a busy one it throws and changes nothing.
StartShell(c, r, s) ==
    /\ MayCall(c)
    /\ Lookup(r)
    /\ state[r].tag = "Idle"
    /\ Start(s, r, "shell", "looping")
    /\ runners' = r
    /\ state' = [state EXCEPT ![r] = Shell(s)]
    /\ status' = "busy"
    /\ Await(c, "awaitShell", s)
    /\ UNCHANGED result

AwaitReturn(c) ==
    /\ \/ pc[c] = "awaitRun" /\ result[target[c]] # "none"
       \/ pc[c] = "awaitShell" /\ phase[target[c]] = "exited"
    /\ Release(c)
    /\ UNCHANGED <<runners, state, status, phase, kind, owner, result>>

-----------------------------------------------------------------------------
(* cancel *)

\* No Runner, or one that is not busy: only the status is reset.
CancelIdle(c) ==
    /\ MayCall(c)
    /\ \A r \in Runners : runners = r => state[r].tag = "Idle"
    /\ status' = "idle"
    /\ UNCHANGED <<runners, state, phase, kind, owner, result, pc, target>>

\* Mutant: the phase of a fiber taken for the exit of a Deferred.
InterruptedAsResult(w) == "cancelled"

\* A fiber interrupted before it ran at all exits without its onExit handlers.
Interrupted(w) ==
    IF LateStart /\ phase[w] = "forked" THEN "exited" ELSE "interrupted"

\* Mutant: cancel fails the Deferred itself, the fiber's onExit does it again.
CancelRunCompletes(c, r) ==
    /\ state[r].tag = "Running"
    /\ phase' = [phase EXCEPT ![state[r].run] = Interrupted(state[r].run)]
    /\ result' = [result EXCEPT ![state[r].run] = "cancelled"]
    /\ Await(c, "cancelling", state[r].run)

CancelRun(c, r) ==
    /\ state[r].tag = "Running"
    /\ phase' = [phase EXCEPT ![state[r].run] = Interrupted(state[r].run)]
    /\ Await(c, "cancelling", state[r].run)
    /\ UNCHANGED result

CancelShell(c, r) ==
    /\ state[r].tag = "Shell"
    /\ phase' = [phase EXCEPT ![state[r].shell] = "interrupted"]
    /\ Await(c, "cancelling", state[r].shell)
    /\ UNCHANGED result

\* Mutant: the Deferred of the queued run is forgotten.
CancelShellOnly(c, r) ==
    /\ state[r].tag = "ShellThenRun"
    /\ phase' = [phase EXCEPT ![state[r].shell] = "interrupted",
                              ![state[r].run] = "exited"]
    /\ Await(c, "cancelling", state[r].shell)
    /\ UNCHANGED result

\* The queued run never starts: its Deferred fails with Cancelled.
CancelShellThenRun(c, r) ==
    /\ state[r].tag = "ShellThenRun"
    /\ phase' = [phase EXCEPT ![state[r].shell] = "interrupted",
                              ![state[r].run] = "exited"]
    /\ result' = [result EXCEPT ![state[r].run] = "cancelled"]
    /\ Await(c, "cancelling", state[r].shell)

\* Idle at once, then interrupt and wait.
CancelBusy(c, r) ==
    /\ MayCall(c)
    /\ runners = r
    /\ \/ CancelRun(c, r)
       \/ CancelShell(c, r)
       \/ CancelShellThenRun(c, r)
    /\ state' = [state EXCEPT ![r] = Idle]
    /\ UNCHANGED <<runners, status, kind, owner>>

\* onIdle: drop the entry of the map, whichever Runner it holds, and reset
\* the status.
OnIdle == runners' = None /\ status' = "idle"

\* Mutant: no idleIfCurrent.
CancelFinishOnly(c) ==
    LET w == target[c] IN
    /\ pc[c] = "cancelling"
    /\ phase[w] = "exited"
    /\ kind[w] = "run" => result[w] # "none"
    /\ Release(c)
    /\ UNCHANGED <<runners, status, state, phase, kind, owner, result>>

\* The interrupted fiber has exited and its Deferred is done: idleIfCurrent.
CancelFinish(c) ==
    LET w == target[c] IN
    /\ pc[c] = "cancelling"
    /\ phase[w] = "exited"
    /\ kind[w] = "run" => result[w] # "none"
    /\ IF state[owner[w]].tag = "Idle" THEN OnIdle ELSE UNCHANGED <<runners, status>>
    /\ Release(c)
    /\ UNCHANGED <<state, phase, kind, owner, result>>

-----------------------------------------------------------------------------
(* The work: runLoop of session/prompt.ts and the shell command. *)

\* Each turn of runLoop shows busy; the processor's retry policy shows retry.
LoopIteration(w) ==
    /\ kind[w] = "run"
    /\ phase[w] \in {"forked", "looping"}
    /\ phase' = [phase EXCEPT ![w] = "looping"]
    /\ \/ status' = "busy"
       \/ phase[w] = "looping" /\ status' = "retry"
    /\ UNCHANGED <<runners, state, kind, owner, result, pc, target>>

\* processor.halt: an error, or the interruption, shows idle and ends the turn.
Halt(w) ==
    /\ kind[w] = "run"
    /\ phase[w] \in {"looping", "interrupted"}
    /\ phase' = [phase EXCEPT ![w] = IF @ = "looping" THEN "halted" ELSE @]
    /\ status' = "idle"
    /\ UNCHANGED <<runners, state, kind, owner, result, pc, target>>

\* How a fiber may end: by itself, or interrupted (or too late to be).
ExitOf(w) ==
    IF phase[w] = "interrupted" THEN {"ok", "fail", "cancelled"} ELSE {"ok", "fail"}

\* Mutant: the Deferred is completed only by the current run.
FinishRunIfCurrent(w, res) ==
    LET r == owner[w] IN
    /\ kind[w] = "run"
    /\ phase[w] \in {"looping", "halted", "interrupted"}
    /\ res \in ExitOf(w)
    /\ IF Current(r, w)
       THEN /\ state' = [state EXCEPT ![r] = Idle]
            /\ OnIdle
            /\ result' = [result EXCEPT ![w] = res]
       ELSE UNCHANGED <<state, runners, status, result>>
    /\ phase' = [phase EXCEPT ![w] = "exited"]
    /\ UNCHANGED <<kind, owner, pc, target>>

\* onExit of a run: idle if it is still the current one, then complete.
FinishRun(w, res) ==
    LET r == owner[w] IN
    /\ kind[w] = "run"
    /\ phase[w] \in {"looping", "halted", "interrupted"}
    /\ res \in ExitOf(w)
    /\ IF Current(r, w)
       THEN state' = [state EXCEPT ![r] = Idle] /\ OnIdle
       ELSE UNCHANGED <<state, runners, status>>
    /\ result' = [result EXCEPT ![w] = res]
    /\ phase' = [phase EXCEPT ![w] = "exited"]
    /\ UNCHANGED <<kind, owner, pc, target>>

\* Mutant: the run queued behind the shell is not started.
FinishShellAlone(s, res) ==
    LET r == owner[s] IN
    /\ kind[s] = "shell"
    /\ phase[s] \in {"looping", "interrupted"}
    /\ res \in ExitOf(s)
    /\ IF state[r].shell = s
       THEN state' = [state EXCEPT ![r] = Idle] /\ OnIdle
       ELSE UNCHANGED <<state, runners, status>>
    /\ phase' = [phase EXCEPT ![s] = "exited"]
    /\ result' = [result EXCEPT ![s] = res]
    /\ UNCHANGED <<kind, owner, pc, target>>

\* finishShell: idle, or start the run that waits, or (cancelled) nothing.
FinishShell(s, res) ==
    LET r == owner[s] IN
    /\ kind[s] = "shell"
    /\ phase[s] \in {"looping", "interrupted"}
    /\ res \in ExitOf(s)
    /\ \/ /\ state[r].tag = "Shell" /\ state[r].shell = s
          /\ state' = [state EXCEPT ![r] = Idle]
          /\ phase' = [phase EXCEPT ![s] = "exited"]
          /\ OnIdle
       \/ /\ state[r].tag = "ShellThenRun" /\ state[r].shell = s
          /\ state' = [state EXCEPT ![r] = Running(state[r].run)]
          /\ phase' = [phase EXCEPT ![s] = "exited", ![state[r].run] = "forked"]
          /\ UNCHANGED <<runners, status>>
       \/ /\ state[r].shell # s
          /\ phase' = [phase EXCEPT ![s] = "exited"]
          /\ UNCHANGED <<state, runners, status>>
    /\ result' = [result EXCEPT ![s] = res]
    /\ UNCHANGED <<kind, owner, pc, target>>

-----------------------------------------------------------------------------
CallerStep(c) ==
    \/ \E r \in Runners :
          \/ JoinRun(c, r)
          \/ CancelBusy(c, r)
          \/ \E w \in Work :
                \/ QueueBehindShell(c, r, w)
                \/ StartRun(c, r, w)
                \/ StartShell(c, r, w)
    \/ CancelIdle(c)
    \/ CancelFinish(c)
    \/ AwaitReturn(c)

WorkStep(w) ==
    \/ LoopIteration(w)
    \/ Halt(w)
    \/ \E res \in Results : FinishRun(w, res) \/ FinishShell(w, res)

Next == (\E c \in Callers : CallerStep(c)) \/ (\E w \in Work : WorkStep(w))

\* Wake-ups happen, and an interrupted fiber ends: its clean-up is bounded
\* (processor.cleanup waits at most 250 ms for each open tool call).
Exit(w) == \E res \in Results : FinishRun(w, res) \/ FinishShell(w, res)
Fairness ==
    /\ \A c \in Callers : WF_vars(CancelFinish(c)) /\ WF_vars(AwaitReturn(c))
    /\ \A w \in Work : WF_vars(phase[w] = "interrupted" /\ Exit(w))

Spec == Init /\ [][Next]_vars /\ Fairness

-----------------------------------------------------------------------------
(* Properties *)

TypeOK ==
    /\ runners \in Runners \cup {None}
    /\ state \in [Runners -> State]
    /\ status \in Statuses
    /\ phase \in [Work -> Phases]
    /\ kind \in [Work -> {"run", "shell"}]
    /\ owner \in [Work -> Runners \cup {None}]
    /\ result \in [Work -> Results]
    /\ pc \in [Callers -> {"free", "awaitRun", "awaitShell", "cancelling"}]
    /\ target \in [Callers -> Handle]

\* One Runner never drives two fibers: a fiber that works and was not
\* interrupted is the one its Runner's state names (ensureRunning shares a
\* run, startShell refuses, finishShell starts the queued run only after the
\* shell).
RunnerExclusive ==
    \A w, v \in Work :
        Live(w) /\ Live(v) /\ owner[w] = owner[v] => w = v

\* Nobody waits on a Deferred that no fiber will ever complete: the fiber of an
\* awaited run is still there, or the run is queued behind a shell that will
\* start it.
NoOrphanWaiter ==
    \A c \in Callers :
        LET w == target[c] IN
        pc[c] = "awaitRun" /\ result[w] = "none" =>
            \/ Live(w) \/ phase[w] = "interrupted"
            \/ /\ phase[w] = "queued"
               /\ state[owner[w]].tag = "ShellThenRun"
               /\ state[owner[w]].run = w
               /\ Live(state[owner[w]].shell)

\* A session runs one thing at a time: two fibers that were not interrupted
\* are the same one, whichever Runner started them.
OneRunPerSession == \A w, v \in Work : Live(w) /\ Live(v) => w = v

\* What runs can be found: cancel and assertNotBusy reach it through the map.
RunningIsRegistered ==
    \A r \in Runners : state[r].tag # "Idle" => runners = r

\* While a turn of the loop or a shell is at work the session shows it.
ShownBusy == \A w \in Work : phase[w] = "looping" => status # "idle"

\* What runs can be found and is shown to be running.
RunningIsVisible == RunningIsRegistered /\ ShownBusy

\* When the last fiber has exited and every caller has returned, the session
\* is back where it started: no Runner in the map, status idle.
QuiescentIsIdle ==
    (/\ \A w \in Work : phase[w] \in {"unused", "exited"}
     /\ \A c \in Callers : pc[c] = "free")
    => runners = None /\ status = "idle"

\* A Deferred is completed once: cancel fails only those of runs that never
\* start, finishRun those of the others, and a second call finds no result
\* to overwrite.
CompletedOnce == [][\A w \in Work : result[w] # "none" => result'[w] = result[w]]_vars

\* A cancel returns, whatever starts meanwhile on the same Runner.
CancelReturns == \A c \in Callers : (pc[c] = "cancelling") ~> (pc[c] = "free")

\* Whoever waits on a run that was interrupted gets an answer.
InterruptedCallerReturns ==
    \A c \in Callers, w \in Work :
        (pc[c] = "awaitRun" /\ target[c] = w /\ phase[w] = "interrupted")
            ~> (pc[c] = "free")

\* If every run and shell that is not interrupted ends by itself, everyone who
\* asked for one gets an answer, a run queued behind a shell included.
WorkEnds ==
    \A w \in Work :
        WF_vars(phase[w] = "forked" /\ LoopIteration(w)) /\ WF_vars(Exit(w))
CallersReturn ==
    WorkEnds =>
        \A c \in Callers : (pc[c] \in {"awaitRun", "awaitShell"}) ~> (pc[c] = "free")

\* Nobody is left waiting, by a cancel, by an interrupted run or by a queued one.
EveryoneReturns == CancelReturns /\ InterruptedCallerReturns /\ CallersReturn

\* The refinement: the slot holds what the Runner in the map holds.
Slot == INSTANCE SessionSlot WITH
    shell <- IF runners = None THEN None ELSE state[runners].shell,
    run <- IF runners = None THEN None ELSE state[runners].run,
    used <- {w \in Work : phase[w] # "unused"},
    asked <- [c \in Callers |-> IF pc[c] \in {"awaitRun", "awaitShell"} THEN target[c] ELSE None]

\* For a client that lets its cancels return, Runners, the map and the fibers
\* together do what one slot does: nothing is started beside it, whoever asks
\* shares what it holds, and everything that leaves it is answered once.
ImplementsSlot == Slot!Spec
=============================================================================
