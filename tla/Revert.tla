------------------------------- MODULE Revert -------------------------------
(***************************************************************************)
(* The messages of a session, what their turns did to the files, and the   *)
(* undoing of both: session/revert.ts with track, restore and revert of    *)
(* snapshot/index.ts, and the prompts of session/prompt.ts that make a     *)
(* revert final.                                                           *)
(*                                                                         *)
(* Left out: the parts of a message (partID), files that snapshots ignore, *)
(* two calls of revert or unrevert at once.                                *)
(***************************************************************************)
EXTENDS Naturals

CONSTANTS
    Files,
    Absent,     \* a file that is not there
    None,       \* no revert is set
    MaxMessages \* a bound

Contents == 0..MaxMessages \cup {Absent}
Snapshots == [Files -> Contents]

VARIABLES
    log,      \* the messages, in order of id; an assistant's has the patch of its step
    nextId,
    busy,     \* the loop runs
    files,    \* the working tree
    revert,   \* session.revert
    op,       \* the call of revert or unrevert that is under way
    original, \* the files before the first revert
    quiet     \* since then no prompt came between the steps of a call

rvars == <<log, nextId, busy, files, revert, op, original, quiet>>

NoOp == [at |-> "idle"]

Init ==
    /\ log = {} /\ nextId = 1 /\ busy = FALSE
    /\ files = [f \in Files |-> 0]
    /\ revert = None /\ op = NoOp
    /\ original = files /\ quiet = TRUE

Message(role, changed) == [id |-> nextId, role |-> role, before |-> files, changed |-> changed]

Before(l, id) == {m \in l : m.id < id}
From(l, id) == {m \in l : m.id >= id}
First(ms) == CHOOSE m \in ms : \A x \in ms : m.id <= x.id
Last(ms) == CHOOSE m \in ms : \A x \in ms : m.id >= x.id

-----------------------------------------------------------------------------
(* Prompts and the turns they start *)

\* Mutant: the message from which on was reverted is kept.
CleanupKeeps == IF revert = None THEN log ELSE Before(log, revert.messageID + 1)

\* cleanup: the messages that were reverted are removed.
Cleanup == IF revert = None THEN log ELSE Before(log, revert.messageID)

Prompt ==
    /\ nextId <= MaxMessages
    /\ log' = Cleanup \cup {Message("user", {})}
    /\ nextId' = nextId + 1
    /\ busy' = TRUE
    /\ revert' = None
    /\ quiet' = (quiet /\ op = NoOp)
    /\ UNCHANGED <<files, op, original>>

\* A step of the turn changes some files: they get a new content, or go.
Step ==
    /\ busy /\ nextId <= MaxMessages
    /\ \E changed \in (SUBSET Files) \ {{}} :
        /\ files' \in [Files -> {nextId, Absent} \cup {files[f] : f \in Files}]
        /\ \A f \in Files : IF f \in changed THEN files'[f] \in {nextId, Absent} \ {files[f]}
                                             ELSE files'[f] = files[f]
        /\ log' = log \cup {Message("assistant", changed)}
    /\ nextId' = nextId + 1
    /\ quiet' = (quiet /\ op = NoOp)
    /\ UNCHANGED <<busy, revert, op, original>>

LoopEnds ==
    /\ busy
    /\ busy' = FALSE
    /\ UNCHANGED <<log, nextId, files, revert, op, original, quiet>>

-----------------------------------------------------------------------------
(* revert *)

\* The user message that the message m answers.
LastUser(m) == Last({x \in Before(log, m.id + 1) : x.role = "user"}).id

\* The session must not be busy; its messages and its revert are read.
RevertRead ==
    /\ op = NoOp /\ ~busy
    /\ \E m \in log :
        op' = [at |-> "read", asked |-> m.id, messageID |-> LastUser(m),
               patches |-> From(log, m.id), snapshot |-> IF revert = None THEN None ELSE revert.snapshot]
    /\ quiet' = (quiet \/ revert = None)
    /\ UNCHANGED <<log, nextId, busy, files, revert, original>>

\* checkout-index writes the files of the snapshot, and leaves the others.
Restore(snapshot) == files' = [f \in Files |-> IF snapshot[f] = Absent THEN files[f] ELSE snapshot[f]]

\* Mutant: every revert takes a snapshot of its own.
RevertTrackAgain ==
    /\ op.at = "read"
    /\ op' = [op EXCEPT !.at = "tracked", !.snapshot = files]
    /\ IF op.snapshot = None THEN original' = files /\ UNCHANGED files
       ELSE Restore(op.snapshot) /\ UNCHANGED original
    /\ UNCHANGED <<log, nextId, busy, revert, quiet>>

\* The snapshot of the first revert is kept, and restored before another one.
RevertTrack ==
    /\ op.at = "read"
    /\ IF op.snapshot = None
       THEN op' = [op EXCEPT !.at = "tracked", !.snapshot = files] /\ original' = files /\ UNCHANGED files
       ELSE op' = [op EXCEPT !.at = "tracked"] /\ Restore(op.snapshot) /\ UNCHANGED original
    /\ UNCHANGED <<log, nextId, busy, revert, quiet>>

Naming(f, patches) == {m \in patches : f \in m.changed}

\* Mutant: the last patch that names a file counts.
UndoneLast(f, patches) ==
    IF Naming(f, patches) = {} THEN files[f] ELSE Last(Naming(f, patches)).before[f]

\* A file goes back to what it was before the first patch that names it.
Undone(f, patches) ==
    IF Naming(f, patches) = {} THEN files[f] ELSE First(Naming(f, patches)).before[f]

RevertFiles ==
    /\ op.at = "tracked"
    /\ files' = [f \in Files |-> Undone(f, op.patches)]
    /\ op' = [op EXCEPT !.at = "undone"]
    /\ UNCHANGED <<log, nextId, busy, revert, original, quiet>>

RevertSave ==
    /\ op.at = "undone"
    /\ revert' = [messageID |-> op.messageID, asked |-> op.asked, snapshot |-> op.snapshot]
    /\ op' = NoOp
    /\ UNCHANGED <<log, nextId, busy, files, original, quiet>>

\* unrevert
Unrevert ==
    /\ op = NoOp /\ ~busy /\ revert # None
    /\ Restore(revert.snapshot)
    /\ op' = [at |-> "restored"]
    /\ UNCHANGED <<log, nextId, busy, revert, original, quiet>>

ClearRevert ==
    /\ op.at = "restored"
    /\ revert' = None
    /\ op' = NoOp
    /\ UNCHANGED <<log, nextId, busy, files, original, quiet>>

Next ==
    \/ Prompt \/ Step \/ LoopEnds
    \/ RevertRead \/ RevertTrack \/ RevertFiles \/ RevertSave
    \/ Unrevert \/ ClearRevert

Spec == Init /\ [][Next]_rvars

-----------------------------------------------------------------------------
(* Properties *)

TypeOK ==
    /\ log \subseteq [id : 1..nextId - 1, role : {"user", "assistant"}, before : Snapshots, changed : SUBSET Files]
    /\ nextId \in 1..MaxMessages + 1 /\ busy \in BOOLEAN /\ quiet \in BOOLEAN
    /\ files \in Snapshots /\ original \in Snapshots
    /\ op.at \in {"idle", "read", "tracked", "undone", "restored"}

Reverted == revert # None /\ op = NoOp /\ quiet

\* What the reverted messages, from the one that was asked for on, did to a file is
\* undone, also when they were reverted to another message before.
EffectsUndone ==
    Reverted => \A f \in Files :
        LET naming == Naming(f, From(log, revert.asked))
        IN  naming # {} => files[f] = First(naming).before[f]

\* Unrevert brings back the content that every file had before the first of the
\* reverts.
ContentRestored ==
    op.at = "restored" /\ quiet => \A f \in Files : original[f] # Absent => files[f] = original[f]

\* A prompt after a revert goes on from before the message it went back to: no
\* message that is kept was made from what is undone.
KeptIsOlder ==
    [][log' # log /\ revert # None /\ revert' = None =>
         \A m \in log : m \in log' <=> m.id < revert.messageID]_rvars

\* Wanted, but does not hold:
\* Unrevert brings the files back as they were before the reverts.
FilesRestored == op.at = "restored" /\ quiet => files = original

\* Wanted, but does not hold:
\* Whatever a message did that the revert hides is undone.
HiddenIsUndone ==
    Reverted => \A f \in Files :
        LET naming == Naming(f, From(log, revert.messageID))
        IN  naming # {} => files[f] = First(naming).before[f]

\* Revert undoes what it should, and unrevert brings it back.
RevertIsExact == TypeOK /\ EffectsUndone /\ ContentRestored
=============================================================================
