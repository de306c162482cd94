------------------------------ MODULE McpAuth ------------------------------
(***************************************************************************)
(* Logging in to one MCP server: authenticate, startAuth, finishAuth and   *)
(* removeAuth of mcp/index.ts, the pending callbacks of                    *)
(* mcp/oauth-callback.ts and the oauthState in the file of mcp/auth.ts.    *)
(*                                                                         *)
(* A flow is a call of authenticate; its name stands for the random state  *)
(* that it makes.  The user may start another one at any time.  The file   *)
(* holds the credentials of all servers: an update of any of them reads it,*)
(* waits and writes all of it, and nothing keeps two updates apart.        *)
(***************************************************************************)
EXTENDS Naturals

CONSTANT MaxFlows \* a bound

VARIABLES
    flow,       \* where each flow is
    oauthState, \* the state in the file, 0 for none
    update,     \* the state that each update under way is going to write
    stale,      \* updates that have read what another one has overwritten since
    mixed,      \* has one of these been written?
    transport,  \* pendingOAuthTransports: the flow that set it
    pendingAuths, \* flows whose callback is waited for
    nameToState,  \* mcpNameToState
    exchanged   \* the transport each flow gave its code to

ovars == <<flow, oauthState, update, stale, mixed, transport, pendingAuths, nameToState, exchanged>>

Flows == 1..MaxFlows

\* Who updates the file: removeAuth, the flows, and the providers of all connections, one
\* at a time, which also stand for a state of their own.
Removal == 0
Provider == MaxFlows + 1
Writers == 0..Provider
States == 0..Provider
Idle == Provider + 1

\* Flows that change the file, and how they go on.
Clearing == {"passed", "refused", "letIn"}
After(at) ==
    CASE at = "saving" -> "starting" [] at = "passed" -> "checked" [] at = "refused" -> "failed" [] OTHER -> "done"

Init ==
    /\ flow = [f \in Flows |-> "new"]
    /\ oauthState = 0 /\ transport = 0
    /\ update = [w \in Writers |-> Idle] /\ stale = {} /\ mixed = FALSE
    /\ pendingAuths = {} /\ nameToState = 0
    /\ exchanged = [f \in Flows |-> 0]

-----------------------------------------------------------------------------
(* mcp/auth.ts *)

InFlight == {w \in Writers : update[w] # Idle}

\* What a read finds: nothing, when it falls into a write.
Seen == {oauthState} \cup (IF InFlight = {} THEN {} ELSE {0})

Begin(w, state) ==
    /\ update[w] = Idle
    /\ update' = [update EXCEPT ![w] = state]
    /\ UNCHANGED <<oauthState, stale, mixed>>

Write(w) ==
    /\ update[w] # Idle
    /\ oauthState' = update[w]
    /\ update' = [update EXCEPT ![w] = Idle]
    /\ stale' = InFlight \ {w}
    /\ mixed' = (mixed \/ w \in stale)

fileVars == <<oauthState, update, stale, mixed>>

\* saveTokens, saveClientInformation and saveCodeVerifier write the state as they have read
\* it; state() makes one if there is none, invalidateCredentials may remove it.
ProviderUpdates ==
    /\ \/ \E read \in Seen \cup {0} : Begin(Provider, read)
       \/ 0 \in Seen /\ Begin(Provider, Provider)
    /\ UNCHANGED <<flow, transport, pendingAuths, nameToState, exchanged>>

ProviderWrites ==
    /\ Write(Provider)
    /\ UNCHANGED <<flow, transport, pendingAuths, nameToState, exchanged>>

\* clearOAuthState; without an entry nothing is written.
Clear(f) ==
    /\ flow[f] \in Clearing /\ update[f] = Idle
    /\ \/ Begin(f, 0) /\ UNCHANGED flow
       \/ 0 \in Seen /\ flow' = [flow EXCEPT ![f] = After(@)] /\ UNCHANGED fileVars
    /\ UNCHANGED <<transport, pendingAuths, nameToState, exchanged>>

\* updateOAuthState and clearOAuthState end.
Written(f) ==
    /\ Write(f)
    /\ flow' = [flow EXCEPT ![f] = After(@)]
    /\ UNCHANGED <<transport, pendingAuths, nameToState, exchanged>>

-----------------------------------------------------------------------------
(* startAuth *)

StartAuth(f) ==
    /\ flow[f] = "new" /\ \A g \in 1..f - 1 : flow[g] # "new"
    /\ flow' = [flow EXCEPT ![f] = "saving"]
    /\ Begin(f, f)
    /\ UNCHANGED <<transport, pendingAuths, nameToState, exchanged>>

\* The server asks for a login: the browser is opened, the callback waited for.
WaitForCallback(f) ==
    /\ flow[f] = "starting"
    /\ flow' = [flow EXCEPT ![f] = "waiting"]
    /\ transport' = f
    /\ nameToState' = f
    /\ pendingAuths' = pendingAuths \cup {f}
    /\ UNCHANGED <<fileVars, exchanged>>

\* The server lets the client in; its client is stored if its tools can be listed.
NoLoginNeeded(f) ==
    /\ flow[f] = "starting"
    /\ \E how \in {"letIn", "failed"} : flow' = [flow EXCEPT ![f] = how]
    /\ UNCHANGED <<fileVars, transport, pendingAuths, nameToState, exchanged>>

-----------------------------------------------------------------------------
(* The callback server *)

Forget(fs) == nameToState' = IF nameToState \in fs THEN 0 ELSE nameToState
Settle(fs, how) ==
    /\ pendingAuths' = pendingAuths \ fs
    /\ flow' = [f \in Flows |-> IF f \in fs THEN how ELSE flow[f]]

\* The browser comes back, with a code or with an error.
HandleRequest(f) ==
    /\ f \in pendingAuths
    /\ Settle({f}, "code") \/ Settle({f}, "failed")
    /\ Forget({f})
    /\ UNCHANGED <<fileVars, transport, exchanged>>

\* Mutant: only the flow in the index has a time limit.
TimeoutIndexed(f) ==
    /\ f \in pendingAuths /\ nameToState = f
    /\ Settle({f}, "failed")
    /\ nameToState' = 0
    /\ UNCHANGED <<fileVars, transport, exchanged>>

\* After five minutes: whatever the index holds by then is deleted.
Timeout(f) ==
    /\ f \in pendingAuths
    /\ Settle({f}, "failed")
    /\ nameToState' = 0
    /\ UNCHANGED <<fileVars, transport, exchanged>>

\* Another server asks for another port: the callback server stops.
Stop ==
    /\ pendingAuths # {}
    /\ Settle(pendingAuths, "failed")
    /\ nameToState' = 0
    /\ UNCHANGED <<fileVars, transport, exchanged>>

-----------------------------------------------------------------------------
(* removeAuth *)

RemoveAuth ==
    /\ Begin(Removal, 0)
    /\ UNCHANGED <<flow, transport, pendingAuths, nameToState, exchanged>>

\* Mutant: the login that waits is forgotten, not rejected.
RemoveAuthSilent ==
    /\ Write(Removal)
    /\ transport' = 0
    /\ pendingAuths' = pendingAuths \ {nameToState}
    /\ Forget(pendingAuths)
    /\ UNCHANGED <<flow, exchanged>>

\* The entry is gone; cancelPending finds the flow by the index.
Removed ==
    /\ Write(Removal)
    /\ transport' = 0
    /\ Settle({nameToState} \cap pendingAuths, "failed")
    /\ Forget(pendingAuths)
    /\ UNCHANGED exchanged

-----------------------------------------------------------------------------
(* authenticate goes on with the code, finishAuth *)

\* Mutant: the state is not compared.
CheckNothing(f) ==
    /\ flow[f] = "code"
    /\ flow' = [flow EXCEPT ![f] = "passed"]
    /\ UNCHANGED <<fileVars, transport, pendingAuths, nameToState, exchanged>>

\* The state is compared, and cleared, also when it is another flow's.
CheckState(f) ==
    /\ flow[f] = "code"
    /\ \E read \in Seen : flow' = [flow EXCEPT ![f] = IF read = f THEN "passed" ELSE "refused"]
    /\ UNCHANGED <<fileVars, transport, pendingAuths, nameToState, exchanged>>

FinishAuth(f) ==
    /\ flow[f] = "checked"
    /\ exchanged' = [exchanged EXCEPT ![f] = transport]
    /\ flow' = [flow EXCEPT ![f] = IF transport = 0 THEN "failed" ELSE "exchanging"]
    /\ UNCHANGED <<fileVars, transport, pendingAuths, nameToState>>

\* The code is exchanged for tokens; the next connection uses them.
Exchanged(f) ==
    /\ flow[f] = "exchanging"
    /\ \/ flow' = [flow EXCEPT ![f] = "done"] /\ transport' = 0
       \/ flow' = [flow EXCEPT ![f] = "failed"] /\ UNCHANGED transport
    /\ UNCHANGED <<fileVars, pendingAuths, nameToState, exchanged>>

GoesOn(f) ==
    Written(f) \/ Clear(f) \/ Timeout(f) \/ CheckState(f) \/ FinishAuth(f) \/ Exchanged(f)

Next ==
    \/ \E f \in Flows : StartAuth(f) \/ WaitForCallback(f) \/ NoLoginNeeded(f) \/ HandleRequest(f) \/ GoesOn(f)
    \/ RemoveAuth \/ Removed \/ Stop
    \/ ProviderUpdates \/ ProviderWrites

\* Timers fire, a file is read and written, and what has its code goes on.
Spec == Init /\ [][Next]_ovars /\ \A f \in Flows : WF_ovars(GoesOn(f))

-----------------------------------------------------------------------------
(* Properties *)

TypeOK ==
    /\ flow \in [Flows -> {"new", "saving", "starting", "waiting", "code", "checked", "exchanging", "done", "failed"}
                              \cup Clearing]
    /\ oauthState \in States /\ transport \in 0..MaxFlows /\ nameToState \in 0..MaxFlows
    /\ update \in [Writers -> States \cup {Idle}] /\ stale \subseteq InFlight
    /\ pendingAuths = {f \in Flows : flow[f] = "waiting"}
    /\ exchanged \in [Flows -> 0..MaxFlows]

\* Flows whose state has been in the file.
Saved == {f \in Flows : flow[f] \notin {"new", "saving"}}

\* A flow that the user has overtaken by another one does not log in, as long as no update
\* of the file was written over another one that it had not read.
OvertakenFails ==
    [][\A f \in Flows : flow[f] = "code" /\ flow'[f] = "passed" => mixed \/ \A g \in Saved : g <= f]_ovars

\* No login is under way, also none that the user has given up.  It comes to that again
\* and again: EverythingEnds of MCServices.
NobodyWaits == \A f \in Flows : flow[f] \in {"new", "starting", "done", "failed"}

\* Wanted, but does not hold:
\* Nor after such an update, which may put the state of an overtaken flow back.
OvertakenNeverPasses ==
    [][\A f \in Flows : flow[f] = "code" /\ flow'[f] = "passed" => \A g \in Saved : g <= f]_ovars

\* Wanted, but does not hold:
\* cancelPending finds the login that waits.
CancelFindsFlow == pendingAuths # {} => nameToState \in pendingAuths

\* Wanted, but does not hold:
\* The code of a flow is exchanged by its own transport.
OwnTransport == \A f \in Flows : exchanged[f] \in {0, f}
=============================================================================
