----------------------- MODULE SessionRunState_proofs -----------------------
(***************************************************************************)
(* Safety of the run slot for any number of callers, Runners and work      *)
(* items.  IInv ties the state of every Runner to the fibers it started    *)
(* and is inductive whatever the clients do; Serial adds what holds for a  *)
(* client whose cancels return before it calls again.                      *)
(***************************************************************************)
EXTENDS SessionRunState, TLAPS

USE NoneAssumption
USE DEF Tags, Phases, Results, Statuses, Handle, State,
        Idle, Running, Shell, ShellThenRun, Live, Await, Release

\* The handles of a Runner's state are fibers it started and did not lose.
SlotOK(r) ==
    /\ state[r].tag = "Idle" => state[r] = Idle
    /\ state[r].tag = "Running" =>
          /\ state[r].shell = None
          /\ state[r].run \in Work
          /\ Live(state[r].run)
          /\ kind[state[r].run] = "run"
          /\ owner[state[r].run] = r
          /\ result[state[r].run] = "none"
    /\ state[r].tag \in {"Shell", "ShellThenRun"} =>
          /\ state[r].shell \in Work
          /\ phase[state[r].shell] = "looping"
          /\ kind[state[r].shell] = "shell"
          /\ owner[state[r].shell] = r
          /\ result[state[r].shell] = "none"
    /\ state[r].tag = "Shell" => state[r].run = None
    /\ state[r].tag = "ShellThenRun" =>
          /\ state[r].run \in Work
          /\ phase[state[r].run] = "queued"
          /\ kind[state[r].run] = "run"
          /\ owner[state[r].run] = r
          /\ result[state[r].run] = "none"

\* A fiber that works, and a run that waits, is in the state of its Runner.
FiberOK(w) ==
    /\ phase[w] = "unused" <=> owner[w] = None
    /\ phase[w] # "exited" => result[w] = "none"
    /\ Live(w) /\ kind[w] = "run" => Current(owner[w], w)
    /\ Live(w) /\ kind[w] = "shell" =>
          /\ state[owner[w]].tag \in {"Shell", "ShellThenRun"}
          /\ state[owner[w]].shell = w
    /\ phase[w] = "queued" =>
          /\ state[owner[w]].tag = "ShellThenRun"
          /\ state[owner[w]].run = w
    /\ phase[w] = "exited" => (LateStart /\ kind[w] = "run") \/ result[w] # "none"

\* What a caller awaits was started; a Deferred is always a run's.
WaitOK(c) ==
    /\ pc[c] # "free" => target[c] \in Work /\ phase[target[c]] # "unused"
    /\ pc[c] = "awaitRun" => kind[target[c]] = "run"
    /\ pc[c] = "awaitShell" => kind[target[c]] = "shell"

IInv ==
    /\ TypeOK
    /\ \A r \in Runners : SlotOK(r)
    /\ \A w \in Work : FiberOK(w)
    /\ \A c \in Callers : WaitOK(c)

Cancelling == \E c \in Callers : pc[c] = "cancelling"

\* A client whose cancels return before it calls again: every busy Runner is
\* the one in the map, and while a cancel waits none is busy.
Serial ==
    /\ RunningIsRegistered
    /\ Cancelling => \A r \in Runners : state[r].tag = "Idle"
    /\ \A w \in Work : phase[w] = "interrupted" =>
          \E c \in Callers : pc[c] = "cancelling" /\ target[c] = w
    /\ ShownBusy

\* An idle Runner stays in the map, and a busy status outlives its fiber, only
\* while a cancel is there to clear them.
Quiet ==
    /\ \A r \in Runners : runners = r /\ state[r].tag = "Idle" =>
          \E c \in Callers : pc[c] = "cancelling" /\ owner[target[c]] = r
    /\ status # "idle" => Cancelling \/ \E w \in Work : Live(w)

-----------------------------------------------------------------------------
(* IInv: one lemma per action, one step per conjunct. *)

LEMMA InitIInv == Init => IInv
BY DEF Init, IInv, TypeOK, SlotOK, FiberOK, WaitOK

LEMMA JoinRunIInv ==
  ASSUME IInv, NEW c \in Callers, NEW r \in Runners, JoinRun(c, r)
  PROVE  IInv'
<1> USE DEF IInv, TypeOK, JoinRun, Lookup
<1>1. TypeOK'
  OBVIOUS
<1>2. \A q \in Runners : SlotOK(q)'
  BY DEF SlotOK, FiberOK, Current
<1>3. \A v \in Work : FiberOK(v)'
  BY LateStartAssumption DEF SlotOK, FiberOK, Current
<1>4. \A d \in Callers : WaitOK(d)'
  BY DEF SlotOK, WaitOK
<1> QED BY <1>1, <1>2, <1>3, <1>4

LEMMA QueueBehindShellIInv ==
  ASSUME IInv, NEW c \in Callers, NEW r \in Runners, NEW w \in Work, QueueBehindShell(c, r, w)
  PROVE  IInv'
<1> USE DEF IInv, TypeOK, QueueBehindShell, Start
<1>1. TypeOK'
  OBVIOUS
<1>2. \A q \in Runners : SlotOK(q)'
  BY DEF SlotOK, FiberOK, Current
<1>3. \A v \in Work : FiberOK(v)'
  BY LateStartAssumption DEF SlotOK, FiberOK, Current
<1>4. \A d \in Callers : WaitOK(d)'
  BY DEF SlotOK, WaitOK
<1> QED BY <1>1, <1>2, <1>3, <1>4

LEMMA StartRunIInv ==
  ASSUME IInv, NEW c \in Callers, NEW r \in Runners, NEW w \in Work, StartRun(c, r, w)
  PROVE  IInv'
<1> USE DEF IInv, TypeOK, StartRun, Start
<1>1. TypeOK'
  OBVIOUS
<1>2. \A q \in Runners : SlotOK(q)'
  BY DEF SlotOK, FiberOK, Current
<1>3. \A v \in Work : FiberOK(v)'
  BY LateStartAssumption DEF SlotOK, FiberOK, Current
<1>4. \A d \in Callers : WaitOK(d)'
  BY DEF SlotOK, WaitOK
<1> QED BY <1>1, <1>2, <1>3, <1>4

LEMMA StartShellIInv ==
  ASSUME IInv, NEW c \in Callers, NEW r \in Runners, NEW w \in Work, StartShell(c, r, w)
  PROVE  IInv'
<1> USE DEF IInv, TypeOK, StartShell, Start
<1>1. TypeOK'
  OBVIOUS
<1>2. \A q \in Runners : SlotOK(q)'
  BY DEF SlotOK, FiberOK, Current
<1>3. \A v \in Work : FiberOK(v)'
  BY LateStartAssumption DEF SlotOK, FiberOK, Current
<1>4. \A d \in Callers : WaitOK(d)'
  BY DEF SlotOK, WaitOK
<1> QED BY <1>1, <1>2, <1>3, <1>4

LEMMA CancelBusyIInv ==
  ASSUME IInv, NEW c \in Callers, NEW r \in Runners, CancelBusy(c, r)
  PROVE  IInv'
<1> USE DEF IInv, TypeOK, CancelBusy, CancelRun, CancelShell, CancelShellThenRun, Interrupted
<1>1. TypeOK'
  <2>1. Idle \in State
    OBVIOUS
  <2>2. CASE CancelRun(c, r)
    BY <2>1, <2>2
  <2>3. CASE CancelShell(c, r)
    BY <2>1, <2>3
  <2>4. CASE CancelShellThenRun(c, r)
    BY <2>1, <2>4
  <2> QED BY <2>2, <2>3, <2>4
<1>2. \A q \in Runners : SlotOK(q)'
  BY DEF SlotOK, FiberOK, Current
<1>3. \A v \in Work : FiberOK(v)'
  BY LateStartAssumption DEF SlotOK, FiberOK, Current
<1>4. \A d \in Callers : WaitOK(d)'
  <2> USE DEF SlotOK, WaitOK
  <2>1. CASE CancelRun(c, r)
    BY <2>1
  <2>2. CASE CancelShell(c, r)
    BY <2>2
  <2>3. CASE CancelShellThenRun(c, r)
    BY <2>3
  <2> QED BY <2>1, <2>2, <2>3
<1> QED BY <1>1, <1>2, <1>3, <1>4

LEMMA CancelIdleIInv ==
  ASSUME IInv, NEW c \in Callers, CancelIdle(c)
  PROVE  IInv'
<1> USE DEF IInv, TypeOK, CancelIdle
<1>1. TypeOK'
  OBVIOUS
<1>2. \A q \in Runners : SlotOK(q)'
  BY DEF SlotOK, FiberOK, Current
<1>3. \A v \in Work : FiberOK(v)'
  BY LateStartAssumption DEF SlotOK, FiberOK, Current
<1>4. \A d \in Callers : WaitOK(d)'
  BY DEF SlotOK, WaitOK
<1> QED BY <1>1, <1>2, <1>3, <1>4

LEMMA CancelFinishIInv ==
  ASSUME IInv, NEW c \in Callers, CancelFinish(c)
  PROVE  IInv'
<1> USE DEF IInv, TypeOK, CancelFinish, OnIdle
<1>1. TypeOK'
  OBVIOUS
<1>2. \A q \in Runners : SlotOK(q)'
  BY DEF SlotOK, FiberOK, Current
<1>3. \A v \in Work : FiberOK(v)'
  BY LateStartAssumption DEF SlotOK, FiberOK, Current
<1>4. \A d \in Callers : WaitOK(d)'
  BY DEF SlotOK, WaitOK
<1> QED BY <1>1, <1>2, <1>3, <1>4

LEMMA AwaitReturnIInv ==
  ASSUME IInv, NEW c \in Callers, AwaitReturn(c)
  PROVE  IInv'
<1> USE DEF IInv, TypeOK, AwaitReturn
<1>1. TypeOK'
  OBVIOUS
<1>2. \A q \in Runners : SlotOK(q)'
  BY DEF SlotOK, FiberOK, Current
<1>3. \A v \in Work : FiberOK(v)'
  BY LateStartAssumption DEF SlotOK, FiberOK, Current
<1>4. \A d \in Callers : WaitOK(d)'
  BY DEF SlotOK, WaitOK
<1> QED BY <1>1, <1>2, <1>3, <1>4

LEMMA LoopIterationIInv ==
  ASSUME IInv, NEW w \in Work, LoopIteration(w)
  PROVE  IInv'
<1> USE DEF IInv, TypeOK, LoopIteration
<1>1. TypeOK'
  OBVIOUS
<1>2. \A q \in Runners : SlotOK(q)'
  BY DEF SlotOK, FiberOK, Current
<1>3. \A v \in Work : FiberOK(v)'
  BY LateStartAssumption DEF SlotOK, FiberOK, Current
<1>4. \A d \in Callers : WaitOK(d)'
  BY DEF SlotOK, WaitOK
<1> QED BY <1>1, <1>2, <1>3, <1>4

LEMMA HaltIInv ==
  ASSUME IInv, NEW w \in Work, Halt(w)
  PROVE  IInv'
<1> USE DEF IInv, TypeOK, Halt
<1>1. TypeOK'
  OBVIOUS
<1>2. \A q \in Runners : SlotOK(q)'
  BY DEF SlotOK, FiberOK, Current
<1>3. \A v \in Work : FiberOK(v)'
  BY LateStartAssumption DEF SlotOK, FiberOK, Current
<1>4. \A d \in Callers : WaitOK(d)'
  BY DEF SlotOK, WaitOK
<1> QED BY <1>1, <1>2, <1>3, <1>4

LEMMA FinishRunIInv ==
  ASSUME IInv, NEW w \in Work, NEW res \in Results, FinishRun(w, res)
  PROVE  IInv'
<1> USE DEF IInv, TypeOK, FinishRun, ExitOf, OnIdle
<1>1. TypeOK'
  OBVIOUS
<1>2. \A q \in Runners : SlotOK(q)'
  BY DEF SlotOK, FiberOK, Current
<1>3. \A v \in Work : FiberOK(v)'
  BY LateStartAssumption DEF SlotOK, FiberOK, Current
<1>4. \A d \in Callers : WaitOK(d)'
  BY DEF SlotOK, WaitOK
<1> QED BY <1>1, <1>2, <1>3, <1>4

LEMMA FinishShellIInv ==
  ASSUME IInv, NEW w \in Work, NEW res \in Results, FinishShell(w, res)
  PROVE  IInv'
<1> USE DEF IInv, TypeOK, FinishShell, ExitOf, OnIdle
<1>1. TypeOK'
  OBVIOUS
<1>2. \A q \in Runners : SlotOK(q)'
  BY DEF SlotOK, FiberOK, Current
<1>3. \A v \in Work : FiberOK(v)'
  BY LateStartAssumption DEF SlotOK, FiberOK, Current
<1>4. \A d \in Callers : WaitOK(d)'
  BY DEF SlotOK, WaitOK
<1> QED BY <1>1, <1>2, <1>3, <1>4

(***************************************************************************)
(* The steps of the system, split once for all the invariants below.       *)
(***************************************************************************)
LEMMA StepCases ==
  ASSUME [Next]_vars
  PROVE  \/ \E c \in Callers :
               \/ CancelIdle(c) \/ CancelFinish(c) \/ AwaitReturn(c)
               \/ \E r \in Runners : JoinRun(c, r) \/ CancelBusy(c, r)
               \/ \E r \in Runners, w \in Work :
                     \/ QueueBehindShell(c, r, w)
                     \/ StartRun(c, r, w)
                     \/ StartShell(c, r, w)
         \/ \E w \in Work :
               \/ LoopIteration(w) \/ Halt(w)
               \/ \E res \in Results : FinishRun(w, res) \/ FinishShell(w, res)
         \/ UNCHANGED vars
BY DEF Next, CallerStep, WorkStep

LEMMA NextIInv == ASSUME IInv, [Next]_vars PROVE IInv'
<1>1. CASE UNCHANGED vars
  BY <1>1 DEF vars, IInv, TypeOK, SlotOK, FiberOK, WaitOK, Current
<1> QED
  BY <1>1, StepCases, JoinRunIInv, QueueBehindShellIInv, StartRunIInv, StartShellIInv,
     CancelBusyIInv, CancelIdleIInv, CancelFinishIInv, AwaitReturnIInv,
     LoopIterationIInv, HaltIInv, FinishRunIInv, FinishShellIInv

\* The slot's bookkeeping is right in every reachable state.
THEOREM Bookkeeping == Spec => []IInv
<1>1. Init => IInv
  BY InitIInv
<1>2. IInv /\ [Next]_vars => IInv'
  BY NextIInv
<1> QED
  BY <1>1, <1>2, PTL DEF Spec

\* TypeOK for every Spec, whatever Callers, Runners and Work are.
THEOREM TypeCorrect == Spec => []TypeOK
<1>1. IInv => TypeOK
  BY DEF IInv
<1> QED
  BY <1>1, Bookkeeping, PTL

\* One Runner never drives two uninterrupted fibers (ensureRunning shares,
\* startShell refuses, finishShell hands over), even with overlapping cancels
\* and with fibers that never took a first step.
THEOREM RunnerExclusion == Spec => []RunnerExclusive
<1>1. IInv => RunnerExclusive
  BY DEF IInv, TypeOK, RunnerExclusive, FiberOK, Current
<1> QED
  BY <1>1, Bookkeeping, PTL

\* If a forked fiber takes its first step before it can be interrupted, nobody
\* waits on a Deferred that no fiber will complete.
THEOREM WaitersServed == ASSUME ~LateStart PROVE Spec => []NoOrphanWaiter
<1>1. ASSUME IInv PROVE NoOrphanWaiter
  <2> SUFFICES ASSUME NEW c \in Callers, pc[c] = "awaitRun", result[target[c]] = "none"
               PROVE  LET w == target[c] IN
                      \/ Live(w) \/ phase[w] = "interrupted"
                      \/ /\ phase[w] = "queued"
                         /\ state[owner[w]].tag = "ShellThenRun"
                         /\ state[owner[w]].run = w
                         /\ Live(state[owner[w]].shell)
    BY DEF NoOrphanWaiter
  <2> DEFINE w == target[c]
  <2>1. w \in Work /\ phase[w] \notin {"unused", "exited"}
    BY <1>1 DEF IInv, WaitOK, FiberOK
  <2>2. CASE phase[w] = "queued"
    <3>1. owner[w] \in Runners /\ state[owner[w]].tag = "ShellThenRun" /\ state[owner[w]].run = w
      BY <1>1, <2>1, <2>2 DEF IInv, TypeOK, FiberOK
    <3>2. phase[state[owner[w]].shell] = "looping"
      BY <1>1, <3>1 DEF IInv, SlotOK
    <3> QED BY <2>2, <3>1, <3>2
  <2> QED
    BY <1>1, <2>1, <2>2 DEF IInv, TypeOK
<1> QED
  BY <1>1, Bookkeeping, PTL

\* finishRun and cancel never complete a Deferred that is already done.
THEOREM SingleCompletion == Spec => CompletedOnce
<1>1. IInv /\ [Next]_vars => [\A w \in Work : result[w] # "none" => result'[w] = result[w]]_vars
  <2> SUFFICES ASSUME IInv, Next, NEW v \in Work, result[v] # "none"
               PROVE  result'[v] = result[v]
    OBVIOUS
  <2>1. ASSUME NEW c \in Callers, CallerStep(c)
        PROVE  result'[v] = result[v]
    BY <2>1 DEF CallerStep, JoinRun, QueueBehindShell, StartRun, StartShell, CancelIdle,
                CancelFinish, AwaitReturn, CancelBusy, CancelRun, CancelShell,
                CancelShellThenRun, IInv, TypeOK, SlotOK
  <2>2. ASSUME NEW w \in Work, WorkStep(w)
        PROVE  result'[v] = result[v]
    BY <2>2 DEF WorkStep, LoopIteration, Halt, FinishRun, FinishShell, IInv, TypeOK, FiberOK
  <2> QED
    BY <2>1, <2>2 DEF Next
<1> QED
  BY <1>1, Bookkeeping, PTL DEF Spec, CompletedOnce

-----------------------------------------------------------------------------
(***************************************************************************)
(* A client whose cancels return before it calls again.                    *)
(***************************************************************************)
LEMMA SerialStep ==
  ASSUME ~OverlapCancel, IInv, Serial, [Next]_vars
  PROVE  Serial'
<1> USE DEF IInv, TypeOK, SlotOK, FiberOK, WaitOK, Serial, RunningIsRegistered,
            ShownBusy, Cancelling, Current, MayCall
<1>1. ASSUME NEW c \in Callers, NEW r \in Runners, JoinRun(c, r)
      PROVE  Serial'
  BY <1>1 DEF JoinRun
<1>2. ASSUME NEW c \in Callers, NEW r \in Runners, CancelBusy(c, r)
      PROVE  Serial'
  BY <1>2 DEF CancelBusy, CancelRun, CancelShell, CancelShellThenRun, Interrupted
<1>3. ASSUME NEW c \in Callers, NEW r \in Runners, NEW w \in Work, QueueBehindShell(c, r, w)
      PROVE  Serial'
  BY <1>3 DEF QueueBehindShell, Start
<1>4. ASSUME NEW c \in Callers, NEW r \in Runners, NEW w \in Work, StartRun(c, r, w)
      PROVE  Serial'
  BY <1>4 DEF StartRun, Start, Lookup
<1>5. ASSUME NEW c \in Callers, NEW r \in Runners, NEW w \in Work, StartShell(c, r, w)
      PROVE  Serial'
  BY <1>5 DEF StartShell, Start, Lookup
<1>6. ASSUME NEW c \in Callers, CancelIdle(c)
      PROVE  Serial'
  BY <1>6 DEF CancelIdle
<1>7. ASSUME NEW c \in Callers, CancelFinish(c)
      PROVE  Serial'
  BY <1>7 DEF CancelFinish, OnIdle
<1>8. ASSUME NEW c \in Callers, AwaitReturn(c)
      PROVE  Serial'
  BY <1>8 DEF AwaitReturn
<1>9. ASSUME NEW w \in Work, LoopIteration(w)
      PROVE  Serial'
  BY <1>9 DEF LoopIteration
<1>10. ASSUME NEW w \in Work, Halt(w)
      PROVE  Serial'
  BY <1>10 DEF Halt
<1>11. ASSUME NEW w \in Work, NEW res \in Results, FinishRun(w, res)
      PROVE  Serial'
  BY <1>11 DEF FinishRun, ExitOf, OnIdle
<1>12. ASSUME NEW w \in Work, NEW res \in Results, FinishShell(w, res)
      PROVE  Serial'
  <2>1. RunningIsRegistered'
    BY <1>12 DEF FinishShell, OnIdle
  <2>2. Cancelling' => \A r \in Runners : state'[r].tag = "Idle"
    BY <1>12 DEF FinishShell
  <2>3. \A v \in Work : phase'[v] = "interrupted" =>
          \E c \in Callers : pc'[c] = "cancelling" /\ target'[c] = v
    BY <1>12 DEF FinishShell
  <2>4. ShownBusy'
    BY <1>12 DEF FinishShell, OnIdle
  <2> QED
    BY <2>1, <2>2, <2>3, <2>4
<1>13. CASE UNCHANGED vars
  BY <1>13 DEF vars
<1> QED
  BY <1>1, <1>2, <1>3, <1>4, <1>5, <1>6, <1>7, <1>8, <1>9, <1>10, <1>11, <1>12, <1>13, StepCases

LEMMA SerialHolds == ASSUME ~OverlapCancel PROVE Spec => [](IInv /\ Serial)
<1>1. Init => Serial
  BY DEF Init, Serial, RunningIsRegistered, ShownBusy, Cancelling
<1>2. IInv /\ Serial /\ [Next]_vars => Serial'
  BY SerialStep
<1> QED BY <1>1, <1>2, Bookkeeping, PTL DEF Spec

\* A session runs one thing at a time, for a client whose cancels return before it
\* calls again (ensureRunning, startShell and cancel of run-state.ts and runner.ts).
THEOREM OneRun ==
  ASSUME ~OverlapCancel
  PROVE  Spec => []OneRunPerSession
<1>1. IInv /\ Serial => OneRunPerSession
  BY DEF IInv, TypeOK, Serial, RunningIsRegistered, OneRunPerSession, FiberOK, Current
<1> QED BY <1>1, SerialHolds, PTL

\* For such a client what runs is in the map, and a turn of the loop or a shell
\* shows on the status.
THEOREM SerialClientSafety ==
  ASSUME ~OverlapCancel
  PROVE  Spec => []RunningIsVisible
<1>1. IInv /\ Serial => RunningIsVisible
  BY DEF Serial, RunningIsVisible
<1> QED BY <1>1, SerialHolds, PTL

-----------------------------------------------------------------------------
(* Nothing is left behind, whatever the clients do. *)

LEMMA QuietStep ==
  ASSUME IInv, Quiet, [Next]_vars
  PROVE  Quiet'
<1> USE DEF IInv, TypeOK, SlotOK, FiberOK, WaitOK, Quiet, Cancelling, Current, MayCall
<1>1. ASSUME NEW c \in Callers, NEW r \in Runners, JoinRun(c, r)
      PROVE  Quiet'
  BY <1>1 DEF JoinRun
<1>2. ASSUME NEW c \in Callers, NEW r \in Runners, CancelBusy(c, r)
      PROVE  Quiet'
  BY <1>2 DEF CancelBusy, CancelRun, CancelShell, CancelShellThenRun, Interrupted
<1>3. ASSUME NEW c \in Callers, NEW r \in Runners, NEW w \in Work, QueueBehindShell(c, r, w)
      PROVE  Quiet'
  BY <1>3 DEF QueueBehindShell, Start
<1>4. ASSUME NEW c \in Callers, NEW r \in Runners, NEW w \in Work, StartRun(c, r, w)
      PROVE  Quiet'
  BY <1>4 DEF StartRun, Start, Lookup
<1>5. ASSUME NEW c \in Callers, NEW r \in Runners, NEW w \in Work, StartShell(c, r, w)
      PROVE  Quiet'
  BY <1>5 DEF StartShell, Start, Lookup
<1>6. ASSUME NEW c \in Callers, CancelIdle(c)
      PROVE  Quiet'
  BY <1>6 DEF CancelIdle
<1>7. ASSUME NEW c \in Callers, CancelFinish(c)
      PROVE  Quiet'
  BY <1>7 DEF CancelFinish, OnIdle
<1>8. ASSUME NEW c \in Callers, AwaitReturn(c)
      PROVE  Quiet'
  BY <1>8 DEF AwaitReturn
<1>9. ASSUME NEW w \in Work, LoopIteration(w)
      PROVE  Quiet'
  BY <1>9 DEF LoopIteration
<1>10. ASSUME NEW w \in Work, Halt(w)
      PROVE  Quiet'
  BY <1>10 DEF Halt
<1>11. ASSUME NEW w \in Work, NEW res \in Results, FinishRun(w, res)
      PROVE  Quiet'
  BY <1>11 DEF FinishRun, ExitOf, OnIdle
<1>12. ASSUME NEW w \in Work, NEW res \in Results, FinishShell(w, res)
      PROVE  Quiet'
  BY <1>12 DEF FinishShell, ExitOf, OnIdle
<1>13. CASE UNCHANGED vars
  BY <1>13 DEF vars
<1> QED
  BY <1>1, <1>2, <1>3, <1>4, <1>5, <1>6, <1>7, <1>8, <1>9, <1>10, <1>11, <1>12, <1>13, StepCases

\* When the last fiber has exited and every caller has returned, the map holds
\* no Runner and the status is idle.
THEOREM NothingLeftBehind == Spec => []QuiescentIsIdle
<1>1. Init => Quiet
  BY DEF Init, Quiet
<1>2. IInv /\ Quiet /\ [Next]_vars => Quiet'
  BY QuietStep
<1>3. IInv /\ Quiet => QuiescentIsIdle
  BY DEF IInv, TypeOK, SlotOK, Quiet, Cancelling, QuiescentIsIdle
<1> QED
  BY <1>1, <1>2, <1>3, Bookkeeping, PTL DEF Spec

-----------------------------------------------------------------------------
(* The run slot implements SessionSlot, if the client lets its cancels return: *)
(* every step maps to a step of the slot or to a stutter.                      *)

\* What a step relies on.
SlotInv == IInv /\ Serial

\* A Runner that is in use is the one in the map; a fresh one is idle.
LEMMA LookedUp ==
  ASSUME SlotInv, NEW r \in Runners, Lookup(r)
  PROVE  /\ runners = None => state[r] = Idle
         /\ runners # None => runners = r
         /\ state[r] # Idle => runners = r
BY DEF SlotInv, IInv, TypeOK, SlotOK, Lookup, Fresh, Serial, RunningIsRegistered

\* What the callers wait for, as the slot sees it.
Asked(c) == IF pc[c] \in {"awaitRun", "awaitShell"} THEN target[c] ELSE None
AskedBy == [c \in Callers |-> Asked(c)]

LEMMA AwaitMaps ==
  ASSUME TypeOK, NEW c \in Callers, NEW w \in Handle, NEW how, Await(c, how, w)
  PROVE  AskedBy' = [AskedBy EXCEPT ![c] =
                       IF how \in {"awaitRun", "awaitShell"} THEN w ELSE None]
<1> DEFINE a == IF how \in {"awaitRun", "awaitShell"} THEN w ELSE None
<1>1. \A d \in Callers : Asked(d)' = IF d = c THEN a ELSE Asked(d)
  BY DEF TypeOK, Asked
<1> HIDE DEF a
<1>2. AskedBy' = [AskedBy EXCEPT ![c] = a]
  BY <1>1 DEF AskedBy
<1> QED
  BY <1>2 DEF a

\* A free caller that starts to wait.
LEMMA AskMaps ==
  ASSUME TypeOK, NEW c \in Callers, NEW w \in Work, NEW how \in {"awaitRun", "awaitShell"},
         pc[c] = "free", Await(c, how, w)
  PROVE  Slot!Ask(c, w)
<1>1. AskedBy' = [AskedBy EXCEPT ![c] = w]
  BY AwaitMaps
<1>2. AskedBy[c] = None
  BY DEF AskedBy, Asked
<1> QED
  BY <1>1, <1>2 DEF Slot!Ask, AskedBy, Asked

\* ensureRunning on a session that runs, or has a run waiting: ShareRun.
LEMMA JoinRunMaps ==
  ASSUME SlotInv, NEW c \in Callers, NEW r \in Runners, JoinRun(c, r)
  PROVE  Slot!ShareRun(c)
<1> USE DEF SlotInv, IInv, TypeOK, SlotOK, JoinRun, MayCall
<1>1. runners = r /\ state[r].run \in Work
  BY LookedUp
<1>2. PICK w \in Work : w = state[r].run
  BY <1>1
<1>3. Slot!Ask(c, w)
  BY <1>2, AskMaps
<1>4. w # None /\ UNCHANGED <<runners, state, phase, result>>
  OBVIOUS
<1> HIDE DEF JoinRun, SlotInv, IInv, TypeOK, SlotOK
<1> QED
  BY <1>1, <1>2, <1>3, <1>4 DEF Slot!ShareRun, Slot!Ask

\* ensureRunning behind a shell: AskRun.
LEMMA QueueBehindShellMaps ==
  ASSUME SlotInv, NEW c \in Callers, NEW r \in Runners, NEW w \in Work,
         QueueBehindShell(c, r, w)
  PROVE  Slot!AskRun(c, w)
<1> USE DEF SlotInv, IInv, TypeOK, SlotOK, QueueBehindShell, MayCall, Start
<1>1. runners = r /\ state[r].run = None /\ state'[r] = ShellThenRun(state[r].shell, w)
  BY LookedUp
<1>2. Slot!Ask(c, w)
  BY AskMaps
<1>3. Slot!New(w)
  BY DEF Slot!New
<1> QED
  BY <1>1, <1>2, <1>3 DEF Slot!AskRun

LEMMA StartRunMaps ==
  ASSUME SlotInv, NEW c \in Callers, NEW r \in Runners, NEW w \in Work,
         StartRun(c, r, w)
  PROVE  Slot!AskRun(c, w)
<1> USE DEF SlotInv, IInv, TypeOK, SlotOK, StartRun, MayCall, Start
<1>1. runners = None \/ (runners = r /\ state[r] = Idle)
  BY LookedUp
<1>2. Slot!Ask(c, w)
  BY AskMaps
<1>3. Slot!New(w)
  BY DEF Slot!New
<1> QED
  BY <1>1, <1>2, <1>3 DEF Slot!AskRun

LEMMA StartShellMaps ==
  ASSUME SlotInv, NEW c \in Callers, NEW r \in Runners, NEW w \in Work,
         StartShell(c, r, w)
  PROVE  Slot!AskShell(c, w)
<1> USE DEF SlotInv, IInv, TypeOK, SlotOK, StartShell, MayCall, Start
<1>1. runners = None \/ (runners = r /\ state[r] = Idle)
  BY LookedUp
<1>2. Slot!Ask(c, w)
  BY AskMaps
<1>3. Slot!New(w)
  BY DEF Slot!New
<1> QED
  BY <1>1, <1>2, <1>3 DEF Slot!AskShell

LEMMA AwaitReturnMaps ==
  ASSUME SlotInv, NEW c \in Callers, AwaitReturn(c)
  PROVE  Slot!Return(c)
<1> USE DEF SlotInv, IInv, TypeOK, WaitOK, FiberOK, AwaitReturn
<1>1. target[c] \in Work /\ result[target[c]] # "none"
  OBVIOUS
<1>2. AskedBy' = [AskedBy EXCEPT ![c] = None]
  BY AwaitMaps
<1>3. AskedBy[c] = target[c]
  BY DEF AskedBy, Asked
<1> QED
  BY <1>1, <1>2, <1>3 DEF Slot!Return, AskedBy, Asked

LEMMA CancelBusyMaps ==
  ASSUME SlotInv, NEW c \in Callers, NEW r \in Runners, CancelBusy(c, r)
  PROVE  Slot!Cancel
<1> USE DEF SlotInv, IInv, TypeOK, SlotOK, FiberOK, CancelBusy, MayCall
<1>1. runners = r /\ runners' = r /\ state'[r] = Idle
  OBVIOUS
<1>2. UNCHANGED {w \in Work : phase[w] # "unused"}
  BY DEF CancelRun, CancelShell, CancelShellThenRun, Interrupted
<1> QED
  BY <1>1, <1>2 DEF CancelRun, CancelShell, CancelShellThenRun, Slot!Cancel, Slot!Give

\* The other steps of a cancel change nothing the slot shows.
LEMMA CancelIdleMaps ==
  ASSUME SlotInv, NEW c \in Callers, CancelIdle(c)
  PROVE  UNCHANGED Slot!slotVars
BY DEF CancelIdle, Slot!slotVars

LEMMA CancelFinishMaps ==
  ASSUME SlotInv, NEW c \in Callers, CancelFinish(c)
  PROVE  UNCHANGED Slot!slotVars
<1> USE DEF SlotInv, IInv, TypeOK, SlotOK, WaitOK, CancelFinish, Serial, Cancelling, OnIdle
<1>1. \A d \in Callers : Asked(d)' = Asked(d)
  BY DEF Asked
<1>2. AskedBy' = AskedBy
  BY <1>1 DEF AskedBy
<1>3. \A r \in Runners : state[r].run = None /\ state[r].shell = None
  OBVIOUS
<1> QED
  BY <1>2, <1>3 DEF Slot!slotVars, AskedBy, Asked

LEMMA WorkStutters ==
  ASSUME SlotInv, NEW w \in Work, LoopIteration(w) \/ Halt(w)
  PROVE  UNCHANGED Slot!slotVars
<1> USE DEF SlotInv, IInv, TypeOK, LoopIteration, Halt
<1>1. UNCHANGED {v \in Work : phase[v] # "unused"}
  OBVIOUS
<1> QED
  BY <1>1 DEF Slot!slotVars

\* onExit: the run in the slot ends, or one that was interrupted unwinds.
LEMMA FinishRunMaps ==
  ASSUME SlotInv, NEW w \in Work, NEW res \in Results, FinishRun(w, res)
  PROVE  Slot!EndRun \/ Slot!Unwind(w)
<1> USE DEF SlotInv, IInv, TypeOK, SlotOK, FiberOK, FinishRun, ExitOf
<1> DEFINE r == owner[w]
<1>1. UNCHANGED {v \in Work : phase[v] # "unused"}
  OBVIOUS
<1>2. /\ r \in Runners
      /\ result[w] = "none"
      /\ result' = [result EXCEPT ![w] = res]
      /\ res \in {"ok", "fail", "cancelled"}
  OBVIOUS
<1>3. UNCHANGED <<pc, target>>
  OBVIOUS
<1>4. CASE Current(r, w)
  <2>1. runners = r /\ runners' = None /\ state[r].run = w /\ state[r].shell = None
    BY <1>2, <1>4 DEF Current, OnIdle, Serial, RunningIsRegistered
  <2>2. res \in {"ok", "fail"}
    BY <1>2, <1>4 DEF Current
  <2>3. Slot!Give(w, {"ok", "fail"})
    BY <1>2, <2>2 DEF Slot!Give
  <2> HIDE DEF SlotInv, IInv, TypeOK, SlotOK, FiberOK, FinishRun, ExitOf, r
  <2> QED
    BY <1>1, <1>2, <1>3, <2>1, <2>3 DEF Slot!EndRun, Slot!Give
<1>5. CASE ~(Current(r, w))
  <2>1. UNCHANGED <<runners, state>>
    BY <1>5
  <2>2. \A q \in Runners : state[q].run # w /\ state[q].shell # w
    BY <1>2, <1>5 DEF Current
  <2>3. w # None /\ phase[w] # "unused" /\ runners \in Runners \cup {None}
    OBVIOUS
  <2>4. Slot!Give(w, {"ok", "fail", "cancelled"})
    BY <1>2 DEF Slot!Give
  <2> HIDE DEF SlotInv, IInv, TypeOK, SlotOK, FiberOK, FinishRun, ExitOf, r
  <2> QED
    BY <1>1, <1>3, <2>1, <2>2, <2>3, <2>4 DEF Slot!Unwind
<1> QED
  BY <1>4, <1>5

\* finishShell: the shell in the slot ends, or one that was interrupted unwinds.
LEMMA FinishShellMaps ==
  ASSUME SlotInv, NEW w \in Work, NEW res \in Results, FinishShell(w, res)
  PROVE  Slot!EndShell \/ Slot!Unwind(w)
<1> USE DEF SlotInv, IInv, TypeOK, SlotOK, FiberOK, FinishShell, ExitOf
<1> DEFINE r == owner[w]
<1>1. UNCHANGED {v \in Work : phase[v] # "unused"}
  OBVIOUS
<1>2. /\ r \in Runners
      /\ result[w] = "none"
      /\ result' = [result EXCEPT ![w] = res]
      /\ res \in {"ok", "fail", "cancelled"}
  OBVIOUS
<1>3. UNCHANGED <<pc, target>>
  OBVIOUS
<1>4. CASE state[r].shell = w
  <2>1. runners = r /\ phase[w] = "looping"
    BY <1>2, <1>4 DEF Serial, RunningIsRegistered
  <2>2. res \in {"ok", "fail"}
    BY <2>1
  <2>3. CASE state[r].tag = "Shell"
    <3>1. runners' = None /\ state[r].run = None
      BY <1>2, <1>4, <2>3 DEF OnIdle
    <3> HIDE DEF SlotInv, IInv, TypeOK, SlotOK, FiberOK, FinishShell, ExitOf, r
    <3> QED
      BY <1>1, <1>2, <1>3, <1>4, <2>1, <2>2, <3>1 DEF Slot!EndShell, Slot!Give
  <2>4. CASE state[r].tag = "ShellThenRun"
    <3>1. runners' = r /\ state'[r].run = state[r].run /\ state'[r].shell = None
      BY <1>2, <1>4, <2>1, <2>4
    <3> HIDE DEF SlotInv, IInv, TypeOK, SlotOK, FiberOK, FinishShell, ExitOf, r
    <3> QED
      BY <1>1, <1>2, <1>3, <1>4, <2>1, <2>2, <3>1 DEF Slot!EndShell, Slot!Give
  <2> QED
    BY <1>2, <1>4, <2>3, <2>4
<1>5. CASE ~(state[r].shell = w)
  <2>1. UNCHANGED <<runners, state>>
    BY <1>5
  <2>2. \A q \in Runners : state[q].run # w /\ state[q].shell # w
    BY <1>2, <1>5 DEF Current
  <2>3. w # None /\ phase[w] # "unused" /\ runners \in Runners \cup {None}
    OBVIOUS
  <2>4. Slot!Give(w, {"ok", "fail", "cancelled"})
    BY <1>2 DEF Slot!Give
  <2> HIDE DEF SlotInv, IInv, TypeOK, SlotOK, FiberOK, FinishShell, ExitOf, r
  <2> QED
    BY <1>1, <1>3, <2>1, <2>2, <2>3, <2>4 DEF Slot!Unwind
<1> QED
  BY <1>4, <1>5

LEMMA StepMaps ==
  ASSUME SlotInv, [Next]_vars
  PROVE  [Slot!Next]_(Slot!slotVars)
<1>1. CASE UNCHANGED vars
  BY <1>1 DEF vars, Slot!slotVars
<1> QED
  BY <1>1, StepCases, JoinRunMaps, QueueBehindShellMaps, StartRunMaps, StartShellMaps,
     AwaitReturnMaps, CancelIdleMaps, CancelBusyMaps, CancelFinishMaps, WorkStutters,
     FinishRunMaps, FinishShellMaps DEF Slot!Next

\* The Runners, the map and the fibers of a session do what one slot does, if
\* the client lets its cancels return before it calls again.
THEOREM Refinement == ASSUME ~OverlapCancel PROVE Spec => ImplementsSlot
<1>1. Init => Serial
  BY DEF Init, Serial, RunningIsRegistered, ShownBusy, Cancelling
<1>2. IInv /\ Serial /\ [Next]_vars => Serial'
  BY SerialStep
<1>3. Init => Slot!Init
  BY DEF Init, Slot!Init
<1>4. IInv /\ Serial /\ [Next]_vars => [Slot!Next]_(Slot!slotVars)
  BY StepMaps DEF SlotInv
<1> QED
  BY <1>1, <1>2, <1>3, <1>4, Bookkeeping, PTL DEF Spec, ImplementsSlot, Slot!Spec
=============================================================================
