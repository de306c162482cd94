------------------------------ MODULE FileTools ------------------------------
(***************************************************************************)
(* The tools edit, write and apply_patch at one file: they read it, ask    *)
(* for permission with the difference, write what they made of what they   *)
(* read, and have it formatted.  Only edit does so under a lock.           *)
(*                                                                         *)
(* A content is the call that wrote it whole and the edits made since; the *)
(* text that an edit replaces is in the first content only, each its own.  *)
(***************************************************************************)
CONSTANTS
    Edits,   \* calls of edit that replace a text
    Creates, \* calls of edit with an empty oldString
    Writes,  \* calls of write, and of apply_patch for one file
    NoCall

VARIABLES
    content, \* of the file
    call,    \* how far each call is, and the content it goes on with
    holder,  \* the call that has the permit of the file's lock
    mixed    \* has a call without the lock worked while another one did?

fvars == <<content, call, holder, mixed>>

Locking == Edits \cup Creates
FileCalls == Locking \cup Writes
Contents == [whole : Creates \cup Writes \cup {NoCall}, edits : SUBSET Edits]
Original == [whole |-> NoCall, edits |-> {}]
Working == {"asking", "written", "formatting"}

Init ==
    /\ content = Original
    /\ call = [c \in FileCalls |-> [at |-> "new", old |-> Original]]
    /\ holder = NoCall /\ mixed = FALSE

-----------------------------------------------------------------------------

At(c, at) == call[c].at = at

\* Mutant: every call has a lock of its own.
LockFreeAlways == TRUE

LockFree == holder = NoCall

\* edit waits for the lock, then reads; it fails if its text is not in the file.
Lock(c) ==
    /\ c \in Locking /\ At(c, "new")
    /\ call' = [call EXCEPT ![c].at = "locking"]
    /\ UNCHANGED <<content, holder, mixed>>

Found(c) == c \in Creates \/ content.whole = NoCall

Start(c) ==
    call' = [call EXCEPT ![c] = [at |-> "asking", old |-> content]]

Others(c) == {d \in FileCalls \ {c} : call[d].at \in Working}

EditStarts(c) ==
    /\ At(c, "locking") /\ LockFree
    /\ IF Found(c)
       THEN Start(c) /\ holder' = c
       ELSE call' = [call EXCEPT ![c].at = "failed"] /\ UNCHANGED holder
    /\ mixed' = (mixed \/ Others(c) \cap Writes # {})
    /\ UNCHANGED content

WriteStarts(c) ==
    /\ c \in Writes /\ At(c, "new")
    /\ Start(c)
    /\ mixed' = (mixed \/ Others(c) # {})
    /\ UNCHANGED <<content, holder>>

New(c) ==
    IF c \in Edits THEN [call[c].old EXCEPT !.edits = @ \cup {c}] ELSE [whole |-> c, edits |-> {}]

\* The permission is given: what was made of the old content is written.
Allowed(c) ==
    /\ At(c, "asking")
    /\ content' = New(c)
    /\ call' = [call EXCEPT ![c].at = "written"]
    /\ UNCHANGED <<holder, mixed>>

\* Mutant: a call that is rejected keeps the permit.
ReleaseWhenDone(c) == holder' = IF holder = c /\ call'[c].at = "done" THEN NoCall ELSE holder

\* withPermits gives the permit back, however the call ends.
Release(c) == holder' = IF holder = c THEN NoCall ELSE holder

Rejected(c) ==
    /\ At(c, "asking")
    /\ call' = [call EXCEPT ![c].at = "rejected"]
    /\ Release(c)
    /\ UNCHANGED <<content, mixed>>

\* A formatter reads the file and writes it, if there is one for it.
FormatReads(c) ==
    /\ At(c, "written")
    /\ call' = [call EXCEPT ![c] = [at |-> "formatting", old |-> content]]
    /\ UNCHANGED <<content, holder, mixed>>

FormatWrites(c) ==
    /\ At(c, "formatting")
    /\ content' = call[c].old
    /\ call' = [call EXCEPT ![c].at = "done"]
    /\ Release(c)
    /\ UNCHANGED mixed

NoFormatter(c) ==
    /\ At(c, "written")
    /\ call' = [call EXCEPT ![c].at = "done"]
    /\ Release(c)
    /\ UNCHANGED <<content, mixed>>

Answer(c) == Allowed(c) \/ Rejected(c)

Next ==
    \E c \in FileCalls :
        \/ Lock(c) \/ EditStarts(c) \/ WriteStarts(c)
        \/ Answer(c)
        \/ FormatReads(c) \/ FormatWrites(c) \/ NoFormatter(c)

GoesOn(c) == EditStarts(c) \/ Answer(c) \/ FormatWrites(c) \/ NoFormatter(c)

\* Requests are answered in the end, and formatters end.
Spec == Init /\ [][Next]_fvars /\ \A c \in FileCalls : WF_fvars(GoesOn(c))

-----------------------------------------------------------------------------
(* Properties *)

TypeOK ==
    /\ content \in Contents /\ holder \in Locking \cup {NoCall} /\ mixed \in BOOLEAN
    /\ call \in [FileCalls -> [at : Working \cup {"new", "locking", "failed", "rejected", "done"}, old : Contents]]
    /\ \A c \in Locking : call[c].at \in Working <=> holder = c

\* What an edit has done stays, until the file is written whole; calls of write beside
\* other calls left aside.
EditsKept ==
    ~mixed => \A c \in Edits : call[c].at \in {"written", "formatting", "done"} =>
        c \in content.edits \/ content.whole # NoCall

\* The file is still what the difference was made from when the user has agreed to it.
AgreedIsWritten == [][~mixed => \A c \in FileCalls : Allowed(c) => content = call[c].old]_fvars

\* Edits of one file do not undo each other, and do what the user has seen.
EditsAgree == [](TypeOK /\ EditsKept) /\ AgreedIsWritten

\* No edit waits for the file, also when the one before was rejected.  It comes to that
\* again and again: EverythingEnds of MCSession.
NobodyWaits == \A c \in Locking : ~At(c, "locking")
==============================================================================
