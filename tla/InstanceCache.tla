--------------------------- MODULE InstanceCache ---------------------------
(***************************************************************************)
(* The instances of one directory: Instance of project/instance.ts with    *)
(* disposeInstance of effect/instance-registry.ts, and the state that a    *)
(* service keeps for the directory (effect/instance-state.ts).             *)
(*                                                                         *)
(* The cache maps the directory to the promise of an instance; a service's *)
(* state is kept under the name of the directory and is made in the        *)
(* context of whoever asks for it first.                                   *)
(***************************************************************************)
EXTENDS Naturals, FiniteSets

CONSTANTS
    Requests, \* calls of provide
    Ops,      \* calls of reload, dispose and disposeAll
    MaxBoots  \* a bound: instances booted

VARIABLES
    cache,   \* the instance the directory has, 0 for none
    boot,    \* how far each instance is
    state,   \* the instance in whose context the service's state was made, 0 for none
    request, \* where each call of provide is
    op,      \* where each of the other calls is, and the instance it is about
    all      \* disposal.all: a disposeAll is under way

ivars == <<cache, boot, state, request, op, all>>

Instances == 1..MaxBoots

Init ==
    /\ cache = 0
    /\ boot = [n \in Instances |-> "none"]
    /\ state = 0
    /\ request = [r \in Requests |-> [at |-> "new", ctx |-> 0]]
    /\ op = [o \in Ops |-> [at |-> "new", ctx |-> 0]]
    /\ all = FALSE

\* track(boot(...)) puts a new instance in the cache.
Boot(n) ==
    /\ boot[n] = "none" /\ \A k \in 1..n - 1 : boot[k] # "none"
    /\ boot' = [boot EXCEPT ![n] = "booting"]
    /\ cache' = n

-----------------------------------------------------------------------------
(* provide *)

ProvideCached(r) ==
    /\ request[r].at = "new" /\ cache # 0
    /\ request' = [request EXCEPT ![r] = [at |-> "waiting", ctx |-> cache]]
    /\ UNCHANGED <<cache, boot, state, op, all>>

ProvideBoot(r) ==
    /\ request[r].at = "new" /\ cache = 0
    /\ \E n \in Instances : Boot(n) /\ request' = [request EXCEPT ![r] = [at |-> "waiting", ctx |-> n]]
    /\ UNCHANGED <<state, op, all>>

\* The bootstrap asks for the services' states.
Booted(n) ==
    /\ boot[n] = "booting"
    /\ boot' = [boot EXCEPT ![n] = "ready"]
    /\ state' = IF state = 0 THEN n ELSE state
    /\ UNCHANGED <<cache, request, op, all>>

\* Mutant: a boot that fails stays in the cache.
BootFailsCached(n) ==
    /\ boot[n] = "booting"
    /\ boot' = [boot EXCEPT ![n] = "failed"]
    /\ UNCHANGED <<cache, state, request, op, all>>

BootFails(n) ==
    /\ boot[n] = "booting"
    /\ boot' = [boot EXCEPT ![n] = "failed"]
    /\ cache' = IF cache = n THEN 0 ELSE cache
    /\ UNCHANGED <<state, request, op, all>>

\* fn runs in the context, and may go on for long.
Enter(r) ==
    /\ request[r].at = "waiting"
    /\ boot[request[r].ctx] \in {"ready", "failed"}
    /\ request' = [request EXCEPT ![r].at = IF boot[request[r].ctx] = "ready" THEN "running" ELSE "failed"]
    /\ UNCHANGED <<cache, boot, state, op, all>>

\* InstanceState.get
Use(r) ==
    /\ request[r].at = "running" /\ state = 0
    /\ state' = request[r].ctx
    /\ UNCHANGED <<cache, boot, request, op, all>>

-----------------------------------------------------------------------------
(* reload, dispose, disposeAll *)

\* disposeInstance: the disposers drop the states at once and then close them.
DisposeInstance(o, at, n) ==
    /\ state' = 0
    /\ op' = [op EXCEPT ![o] = [at |-> at, ctx |-> n]]

\* From a request, of the directory it is about.
Reload(o) ==
    /\ op[o].at = "new"
    /\ \E r \in Requests : request[r].at = "running" /\ DisposeInstance(o, "reloading", request[r].ctx)
    /\ UNCHANGED <<cache, boot, request, all>>

ReloadBoot(o) ==
    /\ op[o].at = "reloading"
    /\ \E n \in Instances : Boot(n) /\ op' = [op EXCEPT ![o] = [at |-> "booting", ctx |-> n]]
    /\ UNCHANGED <<state, request, all>>

Reloaded(o) ==
    /\ op[o].at = "booting" /\ boot[op[o].ctx] \in {"ready", "failed"}
    /\ op' = [op EXCEPT ![o].at = "done"]
    /\ UNCHANGED <<cache, boot, state, request, all>>

Dispose(o) ==
    /\ op[o].at = "new"
    /\ \E r \in Requests : request[r].at = "running" /\ DisposeInstance(o, "disposing", request[r].ctx)
    /\ UNCHANGED <<cache, boot, request, all>>

\* Whatever the cache holds by now is dropped.
Disposed(o) ==
    /\ op[o].at = "disposing"
    /\ cache' = 0
    /\ op' = [op EXCEPT ![o].at = "done"]
    /\ UNCHANGED <<boot, state, request, all>>

\* Joins the disposeAll that is under way, or makes the list of what to dispose.
DisposeAll(o) ==
    /\ op[o].at = "new"
    /\ op' = [op EXCEPT ![o] = CASE all -> [at |-> "joined", ctx |-> 0]
                                 [] ~all /\ cache = 0 -> [at |-> "allDone", ctx |-> 0]
                                 [] OTHER -> [at |-> "awaiting", ctx |-> cache]]
    /\ all' = TRUE
    /\ UNCHANGED <<cache, boot, state, request>>

\* Mutant: an instance that is not ready is skipped.
AllAwaitedReady(o) ==
    /\ op[o].at = "awaiting"
    /\ LET n == op[o].ctx
       IN  IF boot[n] = "ready" /\ cache = n
           THEN DisposeInstance(o, "allDisposing", n) /\ UNCHANGED cache
           ELSE op' = [op EXCEPT ![o].at = "allDone"] /\ UNCHANGED <<state, cache>>
    /\ UNCHANGED <<boot, request, all>>

\* The instance is awaited; one that another call has replaced is left alone.
AllAwaited(o) ==
    /\ op[o].at = "awaiting" /\ boot[op[o].ctx] \in {"ready", "failed"}
    /\ LET n == op[o].ctx
       IN  IF boot[n] = "ready" /\ cache = n
           THEN DisposeInstance(o, "allDisposing", n) /\ UNCHANGED cache
           ELSE /\ op' = [op EXCEPT ![o].at = "allDone"]
                /\ cache' = IF cache = n THEN 0 ELSE cache
                /\ UNCHANGED state
    /\ UNCHANGED <<boot, request, all>>

AllDisposed(o) ==
    /\ op[o].at = "allDisposing"
    /\ cache' = 0
    /\ op' = [op EXCEPT ![o].at = "allDone"]
    /\ UNCHANGED <<boot, state, request, all>>

\* Mutant: those who joined are forgotten.
AllEndsAlone(o) ==
    /\ op[o].at = "allDone"
    /\ all' = FALSE
    /\ op' = [op EXCEPT ![o].at = "done"]
    /\ UNCHANGED <<cache, boot, state, request>>

AllEnds(o) ==
    /\ op[o].at = "allDone"
    /\ all' = FALSE
    /\ op' = [x \in Ops |-> IF x = o \/ op[x].at = "joined" THEN [op[x] EXCEPT !.at = "done"] ELSE op[x]]
    /\ UNCHANGED <<cache, boot, state, request>>

-----------------------------------------------------------------------------
GoesOn ==
    \/ \E n \in Instances : Booted(n) \/ BootFails(n)
    \/ \E r \in Requests : Enter(r)
    \/ \E o \in Ops : Reloaded(o) \/ Disposed(o) \/ AllAwaited(o) \/ AllDisposed(o) \/ AllEnds(o)

Next ==
    \/ \E r \in Requests : ProvideCached(r) \/ ProvideBoot(r) \/ Use(r)
    \/ \E o \in Ops : Reload(o) \/ ReloadBoot(o) \/ Dispose(o) \/ DisposeAll(o)
    \/ GoesOn

\* Boots end, and what awaits them goes on.
Spec == Init /\ [][Next]_ivars /\ WF_ivars(GoesOn)

-----------------------------------------------------------------------------
(* Properties *)

TypeOK ==
    /\ cache \in 0..MaxBoots /\ state \in 0..MaxBoots
    /\ boot \in [Instances -> {"none", "booting", "ready", "failed"}]
    /\ request \in [Requests -> [at : {"new", "waiting", "running", "failed"}, ctx : 0..MaxBoots]]
    /\ op \in [Ops -> [at : {"new", "reloading", "booting", "disposing", "joined", "awaiting",
                            "allDisposing", "allDone", "done"}, ctx : 0..MaxBoots]]
    /\ all \in BOOLEAN

\* A directory whose instance failed to boot can be tried again.
FailedIsForgotten == cache # 0 => boot[cache] # "failed"

\* disposeAll disposes what it found, also an instance that was still booting.
AllCovers == \A o \in Ops : op[o].at = "allDone" /\ op[o].ctx # 0 => cache # op[o].ctx

\* Nobody waits for an instance or for its disposal.  It comes to that again and again:
\* EverythingEnds of MCServices.
NobodyWaits ==
    /\ \A r \in Requests : request[r].at # "waiting"
    /\ \A o \in Ops : op[o].at \notin {"joined", "awaiting", "booting"}

\* Wanted, but does not hold:
\* A directory without an instance has no state of a service left.
NoStateLeft == cache = 0 => state = 0

\* The cache holds neither what failed nor what disposeAll has found.
CacheIsCurrent == TypeOK /\ FailedIsForgotten /\ AllCovers
=============================================================================
