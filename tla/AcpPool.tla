------------------------------ MODULE AcpPool ------------------------------
(***************************************************************************)
(* The pool of agent processes of acp-client/session-pool.ts, with the     *)
(* shutdown of acp-client/subprocess.ts: one process per session, shared   *)
(* by its turns, which may ask for it while it is still being spawned.     *)
(***************************************************************************)
EXTENDS Naturals, Sequences, SequencesExt, FiniteSets

CONSTANTS
    Sessions,
    Turns,    \* the calls of acquire, each made once
    MaxSpawns \* a bound: processes spawned

VARIABLES
    entries, \* #entries: the spawn whose entry a session has, 0 for none
    pending, \* #pending: the spawn under way
    spawns,  \* what each spawn is for and how far it is
    process, \* the process of each spawn
    turns,   \* each turn: its session and where it is
    handler, \* updateHandler of each entry: a turn
    latest   \* the last turn of each session that was given its entry

pvars == <<entries, pending, spawns, process, turns, handler, latest>>

Spawns == 1..MaxSpawns
Nobody == "nobody"

Init ==
    /\ entries = [s \in Sessions |-> 0]
    /\ pending = [s \in Sessions |-> 0]
    /\ spawns = [n \in Spawns |-> [session |-> Nobody, stage |-> "none", joined |-> <<>>]]
    /\ process = [n \in Spawns |-> "none"]
    /\ turns = [t \in Turns |-> "new"]
    /\ handler = [n \in Spawns |-> Nobody]
    /\ latest = [s \in Sessions |-> Nobody]

Unused == {n \in Spawns : spawns[n].stage = "none" /\ \A k \in 1..n - 1 : spawns[k].stage # "none"}

-----------------------------------------------------------------------------
(* acquire *)

\* An entry whose process has died looks alive until its exit is noticed.
Reuse(t, s) ==
    /\ turns[t] = "new" /\ entries[s] # 0
    /\ turns' = [turns EXCEPT ![t] = "acquired"]
    /\ handler' = [handler EXCEPT ![entries[s]] = t]
    /\ latest' = [latest EXCEPT ![s] = t]
    /\ UNCHANGED <<entries, pending, spawns, process>>

Join(t, s) ==
    /\ turns[t] = "new" /\ entries[s] = 0 /\ pending[s] # 0
    /\ turns' = [turns EXCEPT ![t] = "waiting"]
    /\ spawns' = [spawns EXCEPT ![pending[s]].joined = Append(@, t)]
    /\ UNCHANGED <<entries, pending, process, handler, latest>>

\* Mutant: a spawn that is under way is not looked for.
SpawnAnyway(t, s) ==
    /\ turns[t] = "new" /\ entries[s] = 0
    /\ \E n \in Unused :
        /\ turns' = [turns EXCEPT ![t] = "waiting"]
        /\ pending' = [pending EXCEPT ![s] = n]
        /\ spawns' = [spawns EXCEPT ![n] = [session |-> s, stage |-> "auth", joined |-> <<t>>]]
    /\ UNCHANGED <<entries, process, handler, latest>>

Spawn(t, s) ==
    /\ turns[t] = "new" /\ entries[s] = 0 /\ pending[s] = 0
    /\ \E n \in Unused :
        /\ turns' = [turns EXCEPT ![t] = "waiting"]
        /\ pending' = [pending EXCEPT ![s] = n]
        /\ spawns' = [spawns EXCEPT ![n] = [session |-> s, stage |-> "auth", joined |-> <<t>>]]
    /\ UNCHANGED <<entries, process, handler, latest>>

Joined(n) == Range(spawns[n].joined)

\* The promise of the spawn settles for all who wait for it.
Settle(n, how) ==
    /\ turns' = [t \in Turns |-> IF t \in Joined(n) THEN how ELSE turns[t]]
    /\ pending' = [s \in Sessions |-> IF pending[s] = n THEN 0 ELSE pending[s]]

\* checkAgentAuth, then the process is started.
Authorized(n) ==
    /\ spawns[n].stage = "auth"
    /\ spawns' = [spawns EXCEPT ![n].stage = "handshake"]
    /\ process' = [process EXCEPT ![n] = "running"]
    /\ UNCHANGED <<entries, pending, turns, handler, latest>>

Refused(n) ==
    /\ spawns[n].stage = "auth"
    /\ spawns' = [spawns EXCEPT ![n].stage = "failed"]
    /\ Settle(n, "failed")
    /\ UNCHANGED <<entries, process, handler, latest>>

\* Mutant: the entry keeps the handler of the turn that began the spawn.
CreatedFirst(n) ==
    /\ spawns[n].stage = "handshake" /\ process[n] = "running"
    /\ spawns' = [spawns EXCEPT ![n].stage = "entry"]
    /\ entries' = [entries EXCEPT ![spawns[n].session] = n]
    /\ Settle(n, "acquired")
    /\ handler' = [handler EXCEPT ![n] = Head(spawns[n].joined)]
    /\ latest' = [latest EXCEPT ![spawns[n].session] = Last(spawns[n].joined)]
    /\ UNCHANGED process

\* initialize and newSession are answered while the process lives; the turns go on in the order in which
\* they came, each binds its handler.
Created(n) ==
    /\ spawns[n].stage = "handshake" /\ process[n] = "running"
    /\ spawns' = [spawns EXCEPT ![n].stage = "entry"]
    /\ entries' = [entries EXCEPT ![spawns[n].session] = n]
    /\ Settle(n, "acquired")
    /\ handler' = [handler EXCEPT ![n] = Last(spawns[n].joined)]
    /\ latest' = [latest EXCEPT ![spawns[n].session] = Last(spawns[n].joined)]
    /\ UNCHANGED process

\* Mutant: the end of the agent does not fail what it was asked.
HandshakeFailsRunning(n) ==
    /\ spawns[n].stage = "handshake" /\ process[n] = "running"
    /\ spawns' = [spawns EXCEPT ![n].stage = "closing"]
    /\ process' = [process EXCEPT ![n] = "terminated"]
    /\ UNCHANGED <<entries, pending, turns, handler, latest>>

\* The connection is closed before the failure is passed on.
HandshakeFails(n) ==
    /\ spawns[n].stage = "handshake"
    /\ spawns' = [spawns EXCEPT ![n].stage = "closing"]
    /\ process' = [process EXCEPT ![n] = IF @ = "running" THEN "terminated" ELSE @]
    /\ UNCHANGED <<entries, pending, turns, handler, latest>>

FailureClosed(n) ==
    /\ spawns[n].stage = "closing" /\ process[n] = "exited"
    /\ spawns' = [spawns EXCEPT ![n].stage = "failed"]
    /\ Settle(n, "failed")
    /\ UNCHANGED <<entries, process, handler, latest>>

-----------------------------------------------------------------------------
(* release, closeAll, the end of a process *)

Shutdown(ns) == process' = [n \in Spawns |-> IF n \in ns /\ process[n] = "running" THEN "terminated" ELSE process[n]]

Release(s) ==
    /\ entries[s] # 0
    /\ entries' = [entries EXCEPT ![s] = 0]
    /\ Shutdown({entries[s]})
    /\ UNCHANGED <<pending, spawns, turns, handler, latest>>

CloseAll ==
    /\ \E s \in Sessions : entries[s] # 0
    /\ entries' = [s \in Sessions |-> 0]
    /\ Shutdown({entries[s] : s \in Sessions})
    /\ UNCHANGED <<pending, spawns, turns, handler, latest>>

\* By itself, on SIGTERM, or on the SIGKILL that follows when it does not listen.
Exit(n) ==
    /\ process[n] \in {"running", "terminated"}
    /\ process' = [process EXCEPT ![n] = "exited"]
    /\ UNCHANGED <<entries, pending, spawns, turns, handler, latest>>

\* Mutant: the identity of the entry is compared the wrong way round.
EvictOther(n) ==
    /\ spawns[n].stage = "entry" /\ process[n] = "exited"
    /\ spawns' = [spawns EXCEPT ![n].stage = "evicted"]
    /\ entries' = [s \in Sessions |-> IF entries[s] # n THEN 0 ELSE entries[s]]
    /\ UNCHANGED <<pending, process, turns, handler, latest>>

\* The exit is noticed.
Evict(n) ==
    /\ spawns[n].stage = "entry" /\ process[n] = "exited"
    /\ spawns' = [spawns EXCEPT ![n].stage = "evicted"]
    /\ entries' = [s \in Sessions |-> IF entries[s] = n THEN 0 ELSE entries[s]]
    /\ UNCHANGED <<pending, process, turns, handler, latest>>

SpawnStep(n) == Authorized(n) \/ Refused(n) \/ Created(n) \/ HandshakeFails(n) \/ FailureClosed(n)
Stops(n) == process[n] = "terminated" /\ Exit(n)
GoesOn == \E n \in Spawns : SpawnStep(n) \/ Stops(n) \/ Evict(n)

Next ==
    \/ \E t \in Turns, s \in Sessions : Reuse(t, s) \/ Join(t, s) \/ Spawn(t, s)
    \/ \E n \in Spawns : Exit(n)
    \/ \E s \in Sessions : Release(s)
    \/ CloseAll
    \/ GoesOn

\* An agent that is asked answers, or fails; one that is terminated stops; and
\* the exit of a process is noticed.
Spec == Init /\ [][Next]_pvars /\ WF_pvars(GoesOn)

-----------------------------------------------------------------------------
(* Properties *)

TypeOK ==
    /\ entries \in [Sessions -> 0..MaxSpawns] /\ pending \in [Sessions -> 0..MaxSpawns]
    /\ spawns \in [Spawns -> [session : Sessions \cup {Nobody}, joined : Seq(Turns),
                              stage : {"none", "auth", "handshake", "entry", "closing", "failed", "evicted"}]]
    /\ process \in [Spawns -> {"none", "running", "terminated", "exited"}]
    /\ turns \in [Turns -> {"new", "waiting", "acquired", "failed"}]
    /\ handler \in [Spawns -> Turns \cup {Nobody}] /\ latest \in [Sessions -> Turns \cup {Nobody}]

\* No ghosts: a process that runs is the one of its session's entry, or of the spawn
\* that the turns wait for.
NoGhosts ==
    \A n \in Spawns : process[n] = "running" =>
        LET s == spawns[n].session IN n = entries[s] \/ n = pending[s]

\* What the agent says goes to the last turn that was given the entry, also when
\* several waited for its spawn.
LatestHears == \A s \in Sessions : entries[s] # 0 => handler[entries[s]] = latest[s]

\* A session has one agent, which the last turn hears.
OneAgent == TypeOK /\ NoGhosts /\ LatestHears

\* No turn waits for an entry, and no entry has outlived its process.  It comes to that
\* again and again: EverythingEnds of MCServices.
NobodyWaits ==
    /\ \A t \in Turns : turns[t] # "waiting"
    /\ \A s \in Sessions, n \in Spawns : entries[s] = n => process[n] # "exited"
=============================================================================
