---------------------------- MODULE Flock_proofs ----------------------------
(***************************************************************************)
(* Mutual exclusion of the lock directory for any number of processes and  *)
(* any stale age, under the two assumptions the protocol needs: no live    *)
(* process stalls for staleMs, none has died while it owned the breaker.   *)
(* The same for EffectFlock, whose beats write an old date, as long as the *)
(* body of withLock is shorter than STALE_MS.                              *)
(***************************************************************************)
EXTENDS EffectFlock, TLAPS

USE ProcsAssumption, StaleAssumption
USE DEF Age, Owner, LockDir, BreakerDir, Breaking, Owning, Dead, PCs,
        NoLock, NoBreaker, Fresh, Exists, Stale, Goto, At

\* The breaker belongs to the one process in the breaker section, and is young.
BreakerOwned ==
    /\ Exists(breaker) => pc[breaker.by] \in Breaking /\ ~Stale(breaker)
    /\ \A p \in Procs : pc[p] \in Breaking => breaker.by = p

\* Who owns the lock made the directory on disk, which is young and holds what
\* the owner has written so far.
LockOwned ==
    \A p \in Procs :
        /\ pc[p] \in Owning => lock.by = p /\ ~Stale(lock)
        /\ pc[p] \in {"unclaimWon", "writeHeartbeat"} => ~lock.heartbeat
        /\ pc[p] \in {"writeMeta", "held", "readMeta", "rmOwn"} => lock.heartbeat
        /\ pc[p] \in {"unclaimWon", "writeHeartbeat", "writeMeta"} => lock.meta = None
        /\ pc[p] \in {"held", "readMeta", "rmOwn"} => lock.meta = p

\* What the breaker's owner is about to remove is stale, so nobody's; nobody is
\* about to remove a breaker, or a directory it failed to write to.
NoWrongRemoval ==
    \A p \in Procs :
        /\ At(p, "rmStale") => Stale(lock)
        /\ pc[p] \notin {"rmBreaker", "compromised"}

Own == BreakerOwned /\ LockOwned /\ NoWrongRemoval
IInv == TypeOK /\ (BreakerDied \/ Own)

LEMMA InitIInv == Init => IInv
BY DEF Init, IInv, Own, TypeOK, BreakerOwned, LockOwned, NoWrongRemoval

\* The records the calls write.
LEMMA Records ==
  /\ \A p \in Procs : Fresh(p) \in LockDir
  /\ \A l \in LockDir, p \in Procs :
        /\ [l EXCEPT !.heartbeat = TRUE, !.age = 0] \in LockDir
        /\ [l EXCEPT !.age = 0] \in LockDir
        /\ [l EXCEPT !.meta = p, !.age = l.age] \in LockDir
        /\ [l EXCEPT !.meta = p, !.age = 0] \in LockDir
  /\ \A l \in LockDir, age \in Age : [l EXCEPT !.age = age] \in LockDir
<1>1. 0 \in Age
  OBVIOUS
<1>2. ASSUME NEW p \in Procs PROVE Fresh(p) \in LockDir
  BY <1>1, Zenon DEF Fresh, LockDir, Owner
<1>3. ASSUME NEW l \in LockDir
      PROVE  /\ [l EXCEPT !.heartbeat = TRUE, !.age = 0] \in LockDir
             /\ [l EXCEPT !.age = 0] \in LockDir
             /\ \A age \in Age : [l EXCEPT !.age = age] \in LockDir
  <2> HIDE DEF Age
  <2> QED BY <1>1, <1>3
<1>4. ASSUME NEW l \in LockDir, NEW p \in Procs
      PROVE  /\ [l EXCEPT !.meta = p, !.age = l.age] \in LockDir
             /\ [l EXCEPT !.meta = p, !.age = 0] \in LockDir
  BY <1>1, <1>4
<1> QED BY <1>2, <1>3, <1>4

\* A call of a process, the steps of Next other than Tick.
Call(p) ==
    \/ Acquire(p) \/ Retry(p) \/ GiveUp(p) \/ Mkdir(p) \/ Check(p) \/ Claim(p)
    \/ StatBreaker(p) \/ RmBreaker(p) \/ Recheck(p) \/ RmStale(p) \/ Remkdir(p)
    \/ Unclaim(p) \/ WriteHeartbeat(p) \/ WriteMeta(p) \/ RmCompromised(p)
    \/ Touch(p) \/ Release(p) \/ ReadMeta(p) \/ RmOwn(p) \/ Crash(p)

\* Whatever a call finds, it leaves records behind.
LEMMA CallTypeOK == ASSUME TypeOK, NEW p \in Procs, Call(p) PROVE TypeOK'
<1> USE DEF TypeOK
<1>1. pc' \in [Procs -> PCs]
  BY DEF Call, Acquire, Retry, GiveUp, Mkdir, Check, Claim, StatBreaker, RmBreaker,
         Recheck, RmStale, Remkdir, Unclaim, WriteHeartbeat, WriteMeta, RmCompromised,
         Touch, Release, ReadMeta, RmOwn, Crash
<1>2. breaker' \in BreakerDir
  BY DEF Call, Acquire, Retry, GiveUp, Mkdir, Check, Claim, StatBreaker, RmBreaker,
         Recheck, RmStale, Remkdir, Unclaim, WriteHeartbeat, WriteMeta, RmCompromised,
         Touch, Release, ReadMeta, RmOwn, Crash
<1>3. \/ lock' \in {lock, NoLock, Fresh(p)}
      \/ lock' = [lock EXCEPT !.heartbeat = TRUE, !.age = 0]
      \/ lock' = [lock EXCEPT !.age = 0]
      \/ lock' = [lock EXCEPT !.meta = p, !.age = lock.age]
      \/ lock' = [lock EXCEPT !.meta = p, !.age = 0]
  BY DEF Call, Acquire, Retry, GiveUp, Mkdir, Check, Claim, StatBreaker, RmBreaker,
         Recheck, RmStale, Remkdir, Unclaim, WriteHeartbeat, WriteMeta, RmCompromised,
         Touch, Release, ReadMeta, RmOwn, Crash
<1>4. NoLock \in LockDir
  OBVIOUS
<1>5. lock' \in LockDir
  <2>1. lock \in LockDir
    OBVIOUS
  <2> HIDE DEF LockDir, Fresh, NoLock, TypeOK
  <2>2. CASE lock' \in {lock, NoLock, Fresh(p)}
    BY <1>4, <2>1, <2>2, Records
  <2>3. CASE lock' = [lock EXCEPT !.heartbeat = TRUE, !.age = 0]
    BY <2>1, <2>3, Records
  <2>4. CASE lock' = [lock EXCEPT !.age = 0]
    BY <2>1, <2>4, Records
  <2>5. CASE lock' = [lock EXCEPT !.meta = p, !.age = lock.age]
    BY <2>1, <2>5, Records
  <2>6. CASE lock' = [lock EXCEPT !.meta = p, !.age = 0]
    BY <2>1, <2>6, Records
  <2> QED BY <1>3, <2>2, <2>3, <2>4, <2>5, <2>6
<1> QED BY <1>1, <1>2, <1>5

LEMMA TickTypeOK == ASSUME TypeOK, Tick PROVE TypeOK'
<1> DEFINE age == Older(lock.age)
<1>1. age \in Age
  BY DEF TypeOK, Older
<1>2. lock' \in LockDir
  <2>1. lock \in LockDir /\ (lock' = lock \/ lock' = [lock EXCEPT !.age = age])
    BY DEF TypeOK, Tick
  <2> HIDE DEF LockDir, Age, age
  <2> QED BY <1>1, <2>1, Records
<1>3. breaker' \in BreakerDir
  BY DEF TypeOK, Tick, Older
<1> QED BY <1>2, <1>3 DEF TypeOK, Tick

LEMMA TickOwn == ASSUME TypeOK, Own, Tick PROVE Own'
<1> USE DEF Own, TypeOK, Tick, Timely, Older
<1>1. BreakerOwned'
  BY DEF BreakerOwned
<1>2. LockOwned'
  BY DEF LockOwned
<1>3. NoWrongRemoval'
  BY DEF NoWrongRemoval
<1> QED BY <1>1, <1>2, <1>3

LEMMA CallOwn ==
  ASSUME TypeOK, Own, NEW p \in Procs, Call(p)
  PROVE  BreakerDied' \/ Own'
<1> USE DEF Own, TypeOK, BreakerOwned, LockOwned, NoWrongRemoval
<1>1. CASE Acquire(p)
  BY <1>1 DEF Acquire
<1>2. CASE Retry(p)
  BY <1>2 DEF Retry
<1>3. CASE GiveUp(p)
  BY <1>3 DEF GiveUp
<1>4. CASE Mkdir(p)
  BY <1>4 DEF Mkdir
<1>5. CASE Check(p)
  BY <1>5 DEF Check
<1>6. CASE Claim(p)
  BY <1>6 DEF Claim
<1>7. CASE StatBreaker(p)
  BY <1>7 DEF StatBreaker
<1>8. CASE RmBreaker(p)
  BY <1>8 DEF RmBreaker
<1>9. CASE Recheck(p)
  BY <1>9 DEF Recheck
<1>10. CASE RmStale(p)
  BY <1>10 DEF RmStale
<1>11. CASE Remkdir(p)
  BY <1>11 DEF Remkdir
<1>12. CASE Unclaim(p)
  BY <1>12 DEF Unclaim
<1>13. CASE WriteHeartbeat(p)
  <2>1. lock.by = p /\ ~Stale(lock)
    BY <1>13 DEF WriteHeartbeat
  <2>2. pc' = [pc EXCEPT ![p] = "writeMeta"] /\ lock' = [lock EXCEPT !.heartbeat = TRUE, !.age = 0]
    BY <1>13, <2>1 DEF WriteHeartbeat
  <2>3. BreakerOwned'
    BY <1>13, <2>2 DEF WriteHeartbeat
  <2>4. LockOwned'
    BY <1>13, <2>1, <2>2, CallTypeOK DEF WriteHeartbeat
  <2>5. NoWrongRemoval'
    BY <1>13, <2>1, <2>2 DEF WriteHeartbeat
  <2> QED BY <2>3, <2>4, <2>5
<1>14. CASE WriteMeta(p)
  <2>1. lock.by = p /\ ~Stale(lock)
    BY <1>14 DEF WriteMeta
  <2>2. pc' = [pc EXCEPT ![p] = "held"] /\ lock' = [lock EXCEPT !.meta = p, !.age = lock.age]
    BY <1>14, <2>1 DEF WriteMeta
  <2>3. BreakerOwned'
    BY <1>14, <2>2 DEF WriteMeta
  <2>4. LockOwned'
    BY <1>14, <2>1, <2>2, CallTypeOK DEF WriteMeta
  <2>5. NoWrongRemoval'
    BY <1>14, <2>1, <2>2 DEF WriteMeta
  <2> QED BY <2>3, <2>4, <2>5
<1>15. CASE RmCompromised(p)
  BY <1>15 DEF RmCompromised
<1>16. CASE Touch(p)
  BY <1>16 DEF Touch
<1>17. CASE Release(p)
  BY <1>17 DEF Release
<1>18. CASE ReadMeta(p)
  BY <1>18 DEF ReadMeta
<1>19. CASE RmOwn(p)
  BY <1>19 DEF RmOwn
<1>20. CASE Crash(p)
  <2>1. CASE pc[p] \in Breaking
    BY <1>20, <2>1 DEF Crash, BreakerDied
  <2>2. CASE pc[p] \notin Breaking
    BY <1>20, <2>2 DEF Crash
  <2> QED BY <2>1, <2>2
<1> QED
  BY <1>1, <1>2, <1>3, <1>4, <1>5, <1>6, <1>7, <1>8, <1>9, <1>10, <1>11, <1>12, <1>13, <1>14, <1>15, <1>16, <1>17, <1>18, <1>19, <1>20 DEF Call

\* Who died as the owner of the breaker stays dead.
LEMMA DiedStays == ASSUME TypeOK, BreakerDied, [Next]_vars PROVE BreakerDied'
<1>1. PICK q \in Procs : pc[q] = "deadBreaking"
  BY DEF BreakerDied
<1>2. pc'[q] = "deadBreaking"
  BY <1>1 DEF TypeOK, vars, Next, Work, TryAcquire, Acquire, Retry, GiveUp, Mkdir,
         Check, Claim, StatBreaker, RmBreaker, Recheck, RmStale, Remkdir, Unclaim,
         WriteHeartbeat, WriteMeta, RmCompromised, Touch, Release, ReadMeta, RmOwn,
         Crash, Tick
<1> QED BY <1>2 DEF BreakerDied

LEMMA NextIInv == ASSUME IInv, [Next]_vars PROVE IInv'
<1>1. CASE UNCHANGED vars
  BY <1>1 DEF vars, IInv, Own, TypeOK, BreakerOwned, LockOwned, NoWrongRemoval, BreakerDied
<1>2. CASE Tick
  <2>1. TypeOK'
    BY <1>2, TickTypeOK DEF IInv
  <2>2. BreakerDied' \/ Own'
    BY <1>2, DiedStays, TickOwn DEF IInv
  <2> QED BY <2>1, <2>2 DEF IInv
<1>3. ASSUME NEW p \in Procs, Call(p) PROVE IInv'
  <2>1. TypeOK'
    BY <1>3, CallTypeOK DEF IInv
  <2>2. BreakerDied' \/ Own'
    BY <1>3, DiedStays, CallOwn DEF IInv
  <2> QED BY <2>1, <2>2 DEF IInv
<1> QED
  BY <1>1, <1>2, <1>3 DEF Next, Work, TryAcquire, Call

THEOREM Ownership == Spec => []IInv
<1>1. Init => IInv
  BY InitIInv
<1>2. IInv /\ [Next]_vars => IInv'
  BY NextIInv
<1> QED
  BY <1>1, <1>2, PTL DEF Spec

\* The directories and the calls keep their types, crashes included.
THEOREM TypeCorrect == Spec => []TypeOK
<1>1. IInv => TypeOK
  BY DEF IInv
<1> QED
  BY <1>1, Ownership, PTL

\* withLock: two callers are never both inside fn.
THEOREM Exclusion == Spec => []MutualExclusion
<1>1. IInv => MutualExclusion
  BY DEF IInv, Own, TypeOK, LockOwned, MutualExclusion
<1> QED
  BY <1>1, Ownership, PTL

\* The directory, its heartbeat and its token stay the holder's until release.
THEOREM HolderKeepsLock == Spec => []HolderOwnsLock
<1>1. IInv => HolderOwnsLock
  BY DEF IInv, Own, LockOwned, HolderOwnsLock
<1> QED
  BY <1>1, Ownership, PTL

\* "Breaker ownership ensures only one contender performs stale cleanup."
THEOREM SingleBreaker == Spec => []OneBreaker
<1>1. IInv => OneBreaker
  BY DEF IInv, Own, BreakerOwned, OneBreaker
<1> QED
  BY <1>1, Ownership, PTL

-----------------------------------------------------------------------------
(* EffectFlock *)

\* The date that a beat writes is not older than the lock looks.
BeatsAreYoung == BreakerDied \/ \A p \in Procs : At(p, "held") => since[p] <= lock.age

EInv == IInv /\ since \in [Procs -> Age] /\ beaten \subseteq Procs /\ BeatsAreYoung

\* While bodies are short, every step is one of Flock, or a beat.
LEMMA FlockStep ==
  ASSUME ~LongBody, [ENext]_evars
  PROVE  [Next]_vars \/ \E p \in Procs : Beat(p)
<1>1. ASSUME ETick PROVE Tick
  BY <1>1 DEF ETick, Tick
<1> QED
  BY <1>1 DEF ENext, evars, ETryAcquire, ERetry, ERelease, Next, Work

LEMMA BeatIInv == ASSUME EInv, NEW p \in Procs, Beat(p) PROVE IInv'
<1>1. lock \in LockDir /\ since[p] \in Age
  BY DEF EInv, IInv, TypeOK
<1>2. lock' \in LockDir
  <2> HIDE DEF LockDir, Age
  <2> QED BY <1>1, Records DEF Beat
<1>3. TypeOK'
  BY <1>2 DEF EInv, IInv, TypeOK, Beat
<1>4. CASE BreakerDied
  BY <1>3, <1>4 DEF IInv, BreakerDied, Beat
<1>5. CASE ~BreakerDied
  <2>1. Own /\ since[p] <= lock.age /\ TypeOK
    BY <1>5 DEF EInv, IInv, BeatsAreYoung, Beat
  <2>2. lock.by = p /\ ~Stale(lock) /\ pc[p] = "held"
    BY <2>1 DEF Own, LockOwned, TypeOK, Beat
  <2>3. lock.age < StaleAge
    BY <1>1, <2>2
  <2>4. ~Stale(lock') /\ lock'.by = p /\ lock'.heartbeat = lock.heartbeat /\ lock'.meta = lock.meta
    BY <1>1, <2>1, <2>2, <2>3 DEF Beat
  <2>5. pc' = pc /\ breaker' = breaker
    BY DEF Beat
  <2>6. BreakerOwned'
    BY <2>1, <2>5 DEF Own, BreakerOwned, TypeOK
  <2>7. LockOwned'
    BY <2>1, <2>2, <2>4, <2>5 DEF Own, LockOwned, TypeOK
  <2>8. NoWrongRemoval'
    BY <2>1, <2>2, <2>5 DEF Own, NoWrongRemoval, TypeOK
  <2> QED BY <1>3, <2>6, <2>7, <2>8 DEF IInv, Own
<1> QED BY <1>4, <1>5

LEMMA TypedDates == ASSUME EInv, [ENext]_evars PROVE since' \in [Procs -> Age] /\ beaten' \subseteq Procs
BY DEF EInv, ENext, evars, ETryAcquire, ERetry, ERelease, Beat, ETick, Older

\* A step of a process that does not hold the lock leaves the holder's alone.
LEMMA HolderUntouched ==
  ASSUME TypeOK, Own, NEW p \in Procs, TryAcquire(p), NEW q \in Procs, pc[q] = "held"
  PROVE  lock' = lock /\ pc'[q] = "held" /\ p # q
<1> USE DEF TypeOK, Own, LockOwned, NoWrongRemoval
<1>1. lock.by = q /\ ~Stale(lock) /\ lock.heartbeat
  OBVIOUS
<1> QED
  BY <1>1 DEF TryAcquire, Mkdir, Check, Claim, StatBreaker, RmBreaker, Recheck, RmStale, Remkdir,
     Unclaim, WriteHeartbeat, WriteMeta, RmCompromised

LEMMA YoungStep == ASSUME ~LongBody, EInv, [ENext]_evars PROVE BeatsAreYoung'
<1>1. CASE BreakerDied
  <2>1. CASE [Next]_vars
    BY <1>1, <2>1, DiedStays DEF EInv, IInv, BeatsAreYoung
  <2>2. CASE \E p \in Procs : Beat(p)
    BY <1>1, <2>2 DEF BeatsAreYoung, BreakerDied, Beat
  <2> QED BY <2>1, <2>2, FlockStep
<1>2. CASE ~BreakerDied
  <2> USE DEF EInv, IInv, TypeOK, BeatsAreYoung
  <2>1. Own /\ TypeOK /\ \A q \in Procs : pc[q] = "held" => since[q] <= lock.age
    BY <1>2
  <2>2. ASSUME NEW p \in Procs, ETryAcquire(p) PROVE BeatsAreYoung'
    <3>1. \A q \in Procs : pc[q] = "held" => lock' = lock /\ pc'[q] = "held" /\ p # q
      BY <2>1, <2>2, HolderUntouched DEF ETryAcquire
    <3>2. lock'.age \in Nat
      <4>1. TypeOK /\ Call(p)
        BY <2>2 DEF ETryAcquire, TryAcquire, Call
      <4>2. TypeOK'
        BY <4>1, CallTypeOK
      <4> QED BY <4>2
    <3>3. \A q \in Procs \ {p} : pc'[q] = pc[q]
      BY <2>2 DEF ETryAcquire, TryAcquire, Mkdir, Check, Claim, StatBreaker, RmBreaker, Recheck,
         RmStale, Remkdir, Unclaim, WriteHeartbeat, WriteMeta, RmCompromised
    <3>4. ASSUME NEW q \in Procs, pc'[q] = "held" PROVE since'[q] <= lock'.age
      BY <2>1, <2>2, <3>1, <3>2, <3>3, <3>4 DEF ETryAcquire
    <3> QED BY <3>4
  <2>3. ASSUME NEW p \in Procs, ERetry(p) \/ (Acquire(p) /\ UNCHANGED <<since, beaten>>)
        PROVE  BeatsAreYoung'
    BY <2>1, <2>3 DEF ERetry, Retry, GiveUp, Acquire
  <2>4. ASSUME NEW p \in Procs, ERelease(p) PROVE BeatsAreYoung'
    BY <2>1, <2>4 DEF ERelease, Release, ReadMeta, RmOwn, Own, LockOwned
  <2>5. ASSUME NEW p \in Procs, Beat(p) PROVE BeatsAreYoung'
    <3>1. \A q \in Procs : pc[q] = "held" => q = p
      BY <2>1, <2>5 DEF Beat, Own, LockOwned
    <3> QED BY <2>1, <2>5, <3>1 DEF Beat
  <2>6. ASSUME NEW p \in Procs, Crash(p), UNCHANGED <<since, beaten>> PROVE BeatsAreYoung'
    BY <2>1, <2>6 DEF Crash
  <2>7. CASE ETick
    BY <2>1, <2>7 DEF ETick, Older, Own, LockOwned
  <2>8. CASE UNCHANGED evars
    BY <2>1, <2>8 DEF evars, vars
  <2> QED BY <2>2, <2>3, <2>4, <2>5, <2>6, <2>7, <2>8 DEF ENext
<1> QED BY <1>1, <1>2

LEMMA InitEInv == ASSUME EInit PROVE EInv
BY InitIInv DEF EInit, EInv, BeatsAreYoung, Init

LEMMA NextEInv == ASSUME ~LongBody, EInv, [ENext]_evars PROVE EInv'
<1>1. IInv'
  BY FlockStep, NextIInv, BeatIInv DEF EInv
<1>2. since' \in [Procs -> Age] /\ beaten' \subseteq Procs /\ BeatsAreYoung'
  BY TypedDates, YoungStep
<1> QED BY <1>1, <1>2 DEF EInv

LEMMA EInvExcludes == ASSUME EInv PROVE EffectExcludes
BY DEF EInv, IInv, TypeOK, Own, LockOwned, EffectExcludes, ETypeOK, MutualExclusion, HeldLockFresh

\* withLock of effect-flock.ts: two bodies that are shorter than STALE_MS are never
\* both inside, though every beat writes the date of the acquisition.
THEOREM EffectExclusion == ASSUME ~LongBody PROVE ESpec => []EffectExcludes
<1> QED BY InitEInv, NextEInv, EInvExcludes, PTL DEF ESpec
=============================================================================
