---------------------------- MODULE SessionSlot ----------------------------
(***************************************************************************)
(* What the run slot of a session promises its callers, without Runners,   *)
(* the map and the fibers: one thing at a time, a run shared by all who    *)
(* ask for one, a run that waits for the shell before it, and one answer   *)
(* for everything that was started.                                        *)
(***************************************************************************)
CONSTANTS Callers, Work, None

VARIABLES
    shell,   \* the shell at work
    run,     \* the run at work, or behind the shell
    used,    \* the runs and shells there have been
    asked,   \* what each caller waits for
    result   \* what became of each run and shell

slotVars == <<shell, run, used, asked, result>>

Init ==
    /\ shell = None
    /\ run = None
    /\ used = {}
    /\ asked = [c \in Callers |-> None]
    /\ result = [w \in Work |-> "none"]

Ask(c, w) ==
    /\ asked[c] = None
    /\ asked' = [asked EXCEPT ![c] = w]

New(w) ==
    /\ w \notin used
    /\ used' = used \cup {w}

Give(w, outcomes) ==
    /\ result[w] = "none"
    /\ \E res \in outcomes : result' = [result EXCEPT ![w] = res]

\* ensureRunning, when there is a run, and when there is none.
ShareRun(c) ==
    /\ run # None
    /\ Ask(c, run)
    /\ UNCHANGED <<shell, run, used, result>>

AskRun(c, w) ==
    /\ run = None
    /\ New(w)
    /\ run' = w
    /\ Ask(c, w)
    /\ UNCHANGED <<shell, result>>

\* startShell: only when there is nothing at all.
AskShell(c, w) ==
    /\ shell = None /\ run = None
    /\ New(w)
    /\ shell' = w
    /\ Ask(c, w)
    /\ UNCHANGED <<run, result>>

\* The shell ends, and the run behind it begins; the run ends.
EndShell ==
    /\ shell # None
    /\ Give(shell, {"ok", "fail"})
    /\ shell' = None
    /\ UNCHANGED <<run, used, asked>>

EndRun ==
    /\ run # None /\ shell = None
    /\ Give(run, {"ok", "fail"})
    /\ run' = None
    /\ UNCHANGED <<shell, used, asked>>

\* cancel: the slot is free at once, a run that had not begun is answered at once.
Cancel ==
    /\ shell # None \/ run # None
    /\ shell' = None
    /\ run' = None
    /\ IF shell # None /\ run # None THEN Give(run, {"cancelled"}) ELSE UNCHANGED result
    /\ UNCHANGED <<used, asked>>

\* What was interrupted ends later, whatever the slot does by then.
Unwind(w) ==
    /\ w \in used \ {shell, run}
    /\ Give(w, {"ok", "fail", "cancelled"})
    /\ UNCHANGED <<shell, run, used, asked>>

Return(c) ==
    /\ asked[c] # None
    /\ result[asked[c]] # "none"
    /\ asked' = [asked EXCEPT ![c] = None]
    /\ UNCHANGED <<shell, run, used, result>>

Next ==
    \/ \E c \in Callers : ShareRun(c) \/ Return(c)
    \/ \E c \in Callers, w \in Work : AskRun(c, w) \/ AskShell(c, w)
    \/ EndShell \/ EndRun \/ Cancel
    \/ \E w \in Work : Unwind(w)

Spec == Init /\ [][Next]_slotVars
=============================================================================
