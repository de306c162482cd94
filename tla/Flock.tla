------------------------------- MODULE Flock -------------------------------
(***************************************************************************)
(* The lock directory of packages/shared/src/util/flock.ts: mkdir takes    *)
(* the lock, a heartbeat file keeps it fresh, a lock whose heartbeat is    *)
(* older than staleMs is broken under a second directory, the breaker.     *)
(*                                                                         *)
(* Each file system call is an action.  stale() makes up to three stat     *)
(* calls; only the last one that finds a file decides, and creating a file *)
(* refreshes the directory, so one instant stands for the three.  What a   *)
(* process read decides its next step, whatever has happened since.        *)
(***************************************************************************)
EXTENDS Integers

CONSTANTS
    Procs,        \* one acquire call at a time each: a process, or a task of one
    None,         \* "no owner", "no metadata"
    StaleAge      \* the age at which a file counts as stale: staleMs in ticks

ASSUME ProcsAssumption == None \notin Procs
ASSUME StaleAssumption == StaleAge \in Nat /\ StaleAge >= 2

VARIABLES
    lock,     \* the directory lockDir; by (who made it) is for the properties
    breaker,  \* the directory lockDir.breaker
    pc        \* the file system call each process makes next

vars == <<lock, breaker, pc>>

Age == 0..StaleAge
Owner == Procs \cup {None}
LockDir == [by : Owner, heartbeat : BOOLEAN, meta : Owner, age : Age]
BreakerDir == [by : Owner, age : Age]

\* The calls made while owning the breaker, and those made as the owner of lockDir.
Breaking == {"recheck", "rmStale", "remkdir", "unclaim", "unclaimWon"}
Owning == {"unclaimWon", "writeHeartbeat", "writeMeta", "held", "readMeta", "rmOwn"}
\* Where a process died: while it owned the breaker, or elsewhere.
Dead == {"deadBreaking", "dead"}
PCs == Breaking \cup Owning \cup
       {"idle", "mkdir", "check", "claim", "statBreaker", "rmBreaker",
        "compromised", "retry"} \cup Dead

NoLock == [by |-> None, heartbeat |-> FALSE, meta |-> None, age |-> 0]
NoBreaker == [by |-> None, age |-> 0]
Fresh(p) == [by |-> p, heartbeat |-> FALSE, meta |-> None, age |-> 0]

Exists(dir) == dir.by # None
Stale(dir) == Exists(dir) /\ dir.age = StaleAge

Init ==
    /\ lock = NoLock
    /\ breaker = NoBreaker
    /\ pc = [p \in Procs |-> "idle"]

Goto(p, label) == pc' = [pc EXCEPT ![p] = label]
At(p, label) == pc[p] = label

-----------------------------------------------------------------------------
(* acquire: try, sleep, try again *)

Acquire(p) == At(p, "idle") /\ Goto(p, "mkdir") /\ UNCHANGED <<lock, breaker>>

Retry(p) == At(p, "retry") /\ Goto(p, "mkdir") /\ UNCHANGED <<lock, breaker>>

\* The timeout, or the signal that aborts the sleep.
GiveUp(p) == At(p, "retry") /\ Goto(p, "idle") /\ UNCHANGED <<lock, breaker>>

(* tryAcquireLockDir *)

Mkdir(p) ==
    /\ At(p, "mkdir")
    /\ IF Exists(lock)
       THEN Goto(p, "check") /\ UNCHANGED lock
       ELSE Goto(p, "writeHeartbeat") /\ lock' = Fresh(p)
    /\ UNCHANGED breaker

Check(p) ==
    /\ At(p, "check")
    /\ Goto(p, IF Stale(lock) THEN "claim" ELSE "retry")
    /\ UNCHANGED <<lock, breaker>>

\* Mutant: the breaker's owner relies on the first check.
ClaimUnchecked(p) ==
    /\ At(p, "claim")
    /\ IF Exists(breaker)
       THEN Goto(p, "statBreaker") /\ UNCHANGED breaker
       ELSE Goto(p, "rmStale") /\ breaker' = [by |-> p, age |-> 0]
    /\ UNCHANGED lock

\* Mutant: a breaker that exists is as good as one just made.
ClaimAnyway(p) ==
    /\ At(p, "claim")
    /\ Goto(p, "recheck")
    /\ breaker' = [by |-> p, age |-> 0]
    /\ UNCHANGED lock

Claim(p) ==
    /\ At(p, "claim")
    /\ IF Exists(breaker)
       THEN Goto(p, "statBreaker") /\ UNCHANGED breaker
       ELSE Goto(p, "recheck") /\ breaker' = [by |-> p, age |-> 0]
    /\ UNCHANGED lock

\* Mutant: a breaker that was left behind stays.
StatBreakerOnly(p) ==
    /\ At(p, "statBreaker")
    /\ Goto(p, "retry")
    /\ UNCHANGED <<lock, breaker>>

StatBreaker(p) ==
    /\ At(p, "statBreaker")
    /\ Goto(p, IF Stale(breaker) THEN "rmBreaker" ELSE "retry")
    /\ UNCHANGED <<lock, breaker>>

\* By path: whichever breaker is there now.
RmBreaker(p) ==
    /\ At(p, "rmBreaker")
    /\ breaker' = NoBreaker
    /\ Goto(p, "retry")
    /\ UNCHANGED lock

Recheck(p) ==
    /\ At(p, "recheck")
    /\ Goto(p, IF Stale(lock) THEN "rmStale" ELSE "unclaim")
    /\ UNCHANGED <<lock, breaker>>

RmStale(p) ==
    /\ At(p, "rmStale")
    /\ lock' = NoLock
    /\ Goto(p, "remkdir")
    /\ UNCHANGED breaker

\* Mutant: the second mkdir is recursive, it accepts a directory that exists.
RemkdirAnyway(p) ==
    /\ At(p, "remkdir")
    /\ Goto(p, "unclaimWon")
    /\ IF Exists(lock) THEN UNCHANGED lock ELSE lock' = Fresh(p)
    /\ UNCHANGED breaker

Remkdir(p) ==
    /\ At(p, "remkdir")
    /\ IF Exists(lock)
       THEN Goto(p, "unclaim") /\ UNCHANGED lock
       ELSE Goto(p, "unclaimWon") /\ lock' = Fresh(p)
    /\ UNCHANGED breaker

\* finally: the breaker goes, by path, whether the lock was won or not.
Unclaim(p) ==
    /\ \/ At(p, "unclaim") /\ Goto(p, "retry")
       \/ At(p, "unclaimWon") /\ Goto(p, "writeHeartbeat")
    /\ breaker' = NoBreaker
    /\ UNCHANGED lock

\* Exclusive writes.  One that fails removes lockDir, whoever made it.
WriteHeartbeat(p) ==
    /\ At(p, "writeHeartbeat")
    /\ IF Exists(lock) /\ ~lock.heartbeat
       THEN /\ lock' = [lock EXCEPT !.heartbeat = TRUE, !.age = 0]
            /\ Goto(p, "writeMeta")
       ELSE UNCHANGED lock /\ Goto(p, "compromised")
    /\ UNCHANGED breaker

\* Without a heartbeat file the age of lockDir is that of its metadata.
WriteMeta(p) ==
    /\ At(p, "writeMeta")
    /\ IF Exists(lock) /\ lock.meta = None
       THEN /\ lock' = [lock EXCEPT !.meta = p, !.age = IF lock.heartbeat THEN @ ELSE 0]
            /\ Goto(p, "held")
       ELSE UNCHANGED lock /\ Goto(p, "compromised")
    /\ UNCHANGED breaker

RmCompromised(p) ==
    /\ At(p, "compromised")
    /\ lock' = NoLock
    /\ Goto(p, "idle")
    /\ UNCHANGED breaker

(* The lease: heartbeat and release *)

\* The interval's utimes, by path.  The last one may still be on its way when
\* release has started.
Touch(p) ==
    /\ pc[p] \in {"held", "readMeta", "rmOwn"}
    /\ lock' = IF lock.heartbeat THEN [lock EXCEPT !.age = 0] ELSE lock
    /\ UNCHANGED <<breaker, pc>>

Release(p) == At(p, "held") /\ Goto(p, "readMeta") /\ UNCHANGED <<lock, breaker>>

\* Metadata missing or with another token: refuse.
ReadMeta(p) ==
    /\ At(p, "readMeta")
    /\ Goto(p, IF Exists(lock) /\ lock.meta = p THEN "rmOwn" ELSE "idle")
    /\ UNCHANGED <<lock, breaker>>

RmOwn(p) ==
    /\ At(p, "rmOwn")
    /\ lock' = NoLock
    /\ Goto(p, "idle")
    /\ UNCHANGED breaker

-----------------------------------------------------------------------------
(* The environment: crashes and time *)

Crash(p) ==
    /\ pc[p] \notin Dead \cup {"idle"}
    /\ Goto(p, IF pc[p] \in Breaking THEN "deadBreaking" ELSE "dead")
    /\ UNCHANGED <<lock, breaker>>

\* The age matters up to staleMs only.
Older(age) == IF age < StaleAge THEN age + 1 ELSE age

\* No live process stalls for staleMs: it makes its next call, and its heartbeat,
\* before what it made turns stale.
Timely ==
    /\ (\E p \in Procs : pc[p] \in Owning) => lock.age < StaleAge - 1
    /\ (\E p \in Procs : pc[p] \in Breaking) => breaker.age < StaleAge - 1

Tick ==
    /\ Timely
    /\ lock' = IF Exists(lock) THEN [lock EXCEPT !.age = Older(@)] ELSE lock
    /\ breaker' = IF Exists(breaker) THEN [breaker EXCEPT !.age = Older(@)] ELSE breaker
    /\ UNCHANGED pc

-----------------------------------------------------------------------------
\* The calls a process makes once it tries to acquire or to release.
TryAcquire(p) ==
    \/ Mkdir(p) \/ Check(p) \/ Claim(p) \/ StatBreaker(p) \/ RmBreaker(p)
    \/ Recheck(p) \/ RmStale(p) \/ Remkdir(p) \/ Unclaim(p)
    \/ WriteHeartbeat(p) \/ WriteMeta(p) \/ RmCompromised(p)

Work(p) == TryAcquire(p) \/ Retry(p) \/ ReadMeta(p) \/ RmOwn(p)

Next ==
    \/ \E p \in Procs : Work(p) \/ Touch(p)
    \/ \E p \in Procs : Acquire(p) \/ GiveUp(p) \/ Release(p) \/ Crash(p)
    \/ Tick

\* Live processes run and time passes.  Nobody has to ask for the lock, to give
\* up or to finish with it.
Fairness ==
    /\ \A p \in Procs : WF_vars(Work(p)) /\ WF_vars(Touch(p))
    /\ WF_vars(Tick)

Spec == Init /\ [][Next]_vars /\ Fairness

-----------------------------------------------------------------------------
(* Properties *)

TypeOK ==
    /\ lock \in LockDir
    /\ breaker \in BreakerDir
    /\ pc \in [Procs -> PCs]

\* A contender that dies as the owner of the breaker leaves a breaker that others
\* remove by its path, after a stat that may be out of date: from then on two of
\* them may break the same lock, and nothing below is promised.
BreakerDied == \E p \in Procs : At(p, "deadBreaking")

\* Two callers of withLock are never both inside fn.
MutualExclusion ==
    BreakerDied \/ \A p, q \in Procs : At(p, "held") /\ At(q, "held") => p = q

\* The lock on disk is the holder's, with its heartbeat and its token, until it
\* is released: nobody breaks, compromises or releases a live holder's lock.
HolderOwnsLock ==
    BreakerDied \/ \A p \in Procs : pc[p] \in {"held", "readMeta", "rmOwn"} =>
                                  lock.by = p /\ lock.heartbeat /\ lock.meta = p

\* One contender at a time does the stale cleanup.
OneBreaker ==
    BreakerDied \/ \A p, q \in Procs : pc[p] \in Breaking /\ pc[q] \in Breaking => p = q

\* A lock whose owner died does not stay as long as somebody tries to get it: it is
\* broken, also when a contender died while breaking it.  It comes to that again and
\* again: EverythingEnds of MCSession.
Abandoned == Exists(lock) /\ pc[lock.by] \in Dead
Trying(p) == pc[p] \notin Dead \cup {"idle", "compromised", "held", "readMeta", "rmOwn"}
NobodyWaits == ~(Abandoned /\ \E p \in Procs : Trying(p))
=============================================================================
