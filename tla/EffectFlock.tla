---------------------------- MODULE EffectFlock ----------------------------
(***************************************************************************)
(* packages/shared/src/util/effect-flock.ts: the protocol of Flock, call   *)
(* for call, with another heartbeat.  acquire builds one utimes effect,    *)
(* whose date is the moment of the acquisition, and repeats that effect:   *)
(* every beat writes the same date.  A tick is the time between two beats. *)
(***************************************************************************)
EXTENDS Flock

CONSTANT LongBody  \* may the body of withLock take longer than STALE_MS?

VARIABLES
    since,  \* the age of the date that the beats of each holder write
    beaten  \* when a body may be long: whose heartbeat has run since the last tick

evars == <<vars, since, beaten>>

EInit == Init /\ since = [p \in Procs |-> 0] /\ beaten = {}

\* Mutant: the date is the one of the first acquisition.
ETryAcquireOldDate(p) == TryAcquire(p) /\ UNCHANGED <<since, beaten>>

\* tryAcquireLockDir, and the date of the heartbeat when it has succeeded.
ETryAcquire(p) ==
    /\ TryAcquire(p)
    /\ since' = IF pc'[p] = "held" THEN [since EXCEPT ![p] = 0] ELSE since
    /\ UNCHANGED beaten

\* retrySchedule: sleep and try again, or time out.
ERetry(p) == (Retry(p) \/ GiveUp(p)) /\ UNCHANGED <<since, beaten>>

ERelease(p) == (Release(p) \/ ReadMeta(p) \/ RmOwn(p)) /\ UNCHANGED <<since, beaten>>

\* The repeated effect, by path.  The fiber is interrupted before release runs.
Beat(p) ==
    /\ At(p, "held")
    /\ lock' = IF lock.heartbeat THEN [lock EXCEPT !.age = since[p]] ELSE lock
    /\ beaten' = IF LongBody THEN beaten \cup {p} ELSE beaten
    /\ UNCHANGED <<breaker, pc, since>>

\* Nobody stalls: each call follows the last one in time.  A long body is the client's and
\* takes as long as it takes, but its heartbeat goes on: it has run before each tick.
ETick ==
    /\ (\E p \in Procs : pc[p] \in Owning \ {"held"}) => lock.age < StaleAge - 1
    /\ (\E p \in Procs : pc[p] \in Breaking) => breaker.age < StaleAge - 1
    /\ IF LongBody THEN \A p \in Procs : At(p, "held") => p \in beaten ELSE Timely
    /\ beaten' = {}
    /\ lock' = IF Exists(lock) THEN [lock EXCEPT !.age = Older(@)] ELSE lock
    /\ breaker' = IF Exists(breaker) THEN [breaker EXCEPT !.age = Older(@)] ELSE breaker
    /\ since' = [p \in Procs |-> IF At(p, "held") THEN Older(since[p]) ELSE since[p]]
    /\ UNCHANGED pc

ENext ==
    \/ \E p \in Procs : ETryAcquire(p) \/ ERetry(p) \/ ERelease(p) \/ Beat(p)
    \/ \E p \in Procs : (Acquire(p) \/ Crash(p)) /\ UNCHANGED <<since, beaten>>
    \/ ETick

ESpec == EInit /\ [][ENext]_evars

-----------------------------------------------------------------------------
ETypeOK == TypeOK /\ since \in [Procs -> Age] /\ beaten \subseteq Procs

\* With critical sections shorter than STALE_MS the holder's lock is the one on
\* disk and does not look stale, whatever date the beats write.
HeldLockFresh ==
    BreakerDied \/ \A p \in Procs : At(p, "held") => lock.by = p /\ ~Stale(lock)

\* Two bodies that are shorter than STALE_MS never run at once.
EffectExcludes == ETypeOK /\ MutualExclusion /\ HeldLockFresh
=============================================================================
