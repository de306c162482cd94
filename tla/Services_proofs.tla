--------------------------- MODULE Services_proofs ---------------------------
(***************************************************************************)
(* What is proved of the services around a session (MCServices), for any   *)
(* number of calls, clients and processes.  Each part is a section: its    *)
(* invariant, the lemma that its steps keep it, with one step for each     *)
(* action, and the theorem about the specification that the run checks.    *)
(***************************************************************************)
EXTENDS MCServices, Integers, Sequences, SequenceTheorems, TLAPS

-----------------------------------------------------------------------------
(* The parts move by themselves: a behaviour of all is one of each.        *)

PartsStart ==
    /\ Instances!Init /\ Mcp!Init /\ Auth!Init /\ Tokens!Init /\ Pool!Init /\ Lsp!Init /\ Rows!Init
    /\ Files!Init /\ Plugins!Init /\ Document!Init /\ Adapter!Init /\ Turn!Init

PartsStep ==
    /\ [Instances!Next]_instancesVars /\ [Mcp!Next]_mcpVars /\ [Auth!Next]_authVars
    /\ [Tokens!Next]_tokenVars /\ [Pool!Next]_poolVars /\ [Lsp!Next]_lspVars
    /\ [Rows!Next]_rowsVars /\ [Files!Next]_fileVars /\ [Plugins!Next]_pluginVars
    /\ [Document!Next]_documentVars /\ [Adapter!Next]_adapterVars /\ [Turn!Next]_turnVars

LEMMA Starts == ASSUME Init PROVE PartsStart
BY DEF Init, PartsStart

LEMMA Steps == ASSUME [Next]_vars PROVE PartsStep
<1>1. CASE Next
  BY <1>1 DEF Next, PartsStep
<1>2. CASE UNCHANGED vars
  BY <1>2 DEF vars, PartsStep
<1> QED BY <1>1, <1>2

-----------------------------------------------------------------------------
(* The instances of a directory *)

\* Who awaits an instance or disposes of it, awaits one that was booted.
FoundIsBooted ==
    /\ cache # 0 => boot[cache] \in {"booting", "ready"}
    /\ \A o \in Ops : op[o].at \in {"awaiting", "allDisposing", "allDone"} /\ op[o].ctx # 0 =>
          boot[op[o].ctx] # "none"

CacheInv == Instances!TypeOK /\ FoundIsBooted /\ Instances!AllCovers

LEMMA InitCacheInv == ASSUME MaxBoots \in Nat, Instances!Init PROVE CacheInv
<1>1. 0 \in 0..MaxBoots
  OBVIOUS
<1>2. Instances!TypeOK
  BY <1>1 DEF Instances!Init, Instances!TypeOK
<1>3. FoundIsBooted /\ Instances!AllCovers
  BY DEF Instances!Init, FoundIsBooted, Instances!AllCovers
<1> QED BY <1>2, <1>3 DEF CacheInv

LEMMA NextCacheInv ==
  ASSUME MaxBoots \in Nat, CacheInv, [Instances!Next]_instancesVars
  PROVE  CacheInv'
<1> USE DEF CacheInv, Instances!TypeOK, FoundIsBooted, Instances!AllCovers, Instances!Instances
<1>1. ASSUME NEW r \in Requests, Instances!ProvideCached(r) PROVE CacheInv'
  BY <1>1 DEF Instances!ProvideCached
<1>2. ASSUME NEW r \in Requests, Instances!ProvideBoot(r) PROVE CacheInv'
  BY <1>2 DEF Instances!ProvideBoot, Instances!Boot
<1>3. ASSUME NEW r \in Requests, Instances!Use(r) PROVE CacheInv'
  BY <1>3 DEF Instances!Use
<1>4. ASSUME NEW o \in Ops, Instances!Reload(o) PROVE CacheInv'
  BY <1>4 DEF Instances!Reload, Instances!DisposeInstance
<1>5. ASSUME NEW o \in Ops, Instances!ReloadBoot(o) PROVE CacheInv'
  BY <1>5 DEF Instances!ReloadBoot, Instances!Boot
<1>6. ASSUME NEW o \in Ops, Instances!Dispose(o) PROVE CacheInv'
  BY <1>6 DEF Instances!Dispose, Instances!DisposeInstance
<1>7. ASSUME NEW o \in Ops, Instances!DisposeAll(o) PROVE CacheInv'
  BY <1>7 DEF Instances!DisposeAll
<1>8. ASSUME NEW n \in Instances!Instances, Instances!Booted(n) PROVE CacheInv'
  BY <1>8 DEF Instances!Booted
<1>9. ASSUME NEW n \in Instances!Instances, Instances!BootFails(n) PROVE CacheInv'
  BY <1>9 DEF Instances!BootFails
<1>10. ASSUME NEW r \in Requests, Instances!Enter(r) PROVE CacheInv'
  BY <1>10 DEF Instances!Enter
<1>11. ASSUME NEW o \in Ops, Instances!Reloaded(o) PROVE CacheInv'
  BY <1>11 DEF Instances!Reloaded
<1>12. ASSUME NEW o \in Ops, Instances!Disposed(o) PROVE CacheInv'
  BY <1>12 DEF Instances!Disposed
<1>13. ASSUME NEW o \in Ops, Instances!AllAwaited(o) PROVE CacheInv'
  <2> DEFINE n == op[o].ctx
  <2>1. op[o] \in [at : {"awaiting"}, ctx : 0..MaxBoots] /\ boot[n] \in {"ready", "failed"}
    BY <1>13 DEF Instances!AllAwaited
  <2>2. CASE boot[n] = "ready" /\ cache = n
    <3>1. /\ op' = [op EXCEPT ![o] = [at |-> "allDisposing", ctx |-> n]]
          /\ state' = 0
          /\ UNCHANGED <<cache, boot, request, all>>
      BY <1>13, <2>2 DEF Instances!AllAwaited, Instances!DisposeInstance
    <3>2. n \in 0..MaxBoots
      BY <2>1
    <3> HIDE DEF n
    <3>3. Instances!TypeOK'
      BY <3>1, <3>2
    <3>4. FoundIsBooted' /\ Instances!AllCovers'
      BY <2>2, <3>1
    <3> QED BY <3>3, <3>4
  <2>3. CASE ~(boot[n] = "ready" /\ cache = n)
    <3>1. /\ op' = [op EXCEPT ![o].at = "allDone"]
          /\ cache' = IF cache = n THEN 0 ELSE cache
          /\ UNCHANGED <<state, boot, request, all>>
      BY <1>13, <2>1, <2>3 DEF Instances!AllAwaited
    <3>2. Instances!TypeOK'
      BY <3>1
    <3>3. FoundIsBooted'
      BY <2>1, <3>1
    <3>4. Instances!AllCovers'
      BY <2>1, <3>1
    <3> QED BY <3>2, <3>3, <3>4
  <2> QED BY <2>2, <2>3
<1>14. ASSUME NEW o \in Ops, Instances!AllDisposed(o) PROVE CacheInv'
  BY <1>14 DEF Instances!AllDisposed
<1>15. ASSUME NEW o \in Ops, Instances!AllEnds(o) PROVE CacheInv'
  BY <1>15 DEF Instances!AllEnds
<1>16. CASE UNCHANGED instancesVars
  BY <1>16 DEF instancesVars
<1> QED BY <1>1, <1>2, <1>3, <1>4, <1>5, <1>6, <1>7, <1>8, <1>9, <1>10, <1>11, <1>12, <1>13,
           <1>14, <1>15, <1>16 DEF Instances!Next, Instances!GoesOn

\* The cache holds neither an instance that failed to boot nor one that a disposeAll has
\* found (provide, reload, dispose and disposeAll of project/instance.ts).
THEOREM InstancesAreCurrent == ASSUME MaxBoots \in Nat PROVE Spec => []CacheIsCurrent
<1>1. Init => CacheInv
  BY InitCacheInv, Starts DEF PartsStart
<1>2. CacheInv /\ [Next]_vars => CacheInv'
  BY NextCacheInv, Steps DEF PartsStep
<1>3. CacheInv => CacheIsCurrent
  BY DEF CacheInv, FoundIsBooted, CacheIsCurrent, Instances!CacheIsCurrent, Instances!FailedIsForgotten
<1> QED BY <1>1, <1>2, <1>3, PTL DEF Spec

-----------------------------------------------------------------------------
(* The client of an MCP server *)

\* One call at a time closes the client before, and nothing else is stored meanwhile;
\* the clients that are open are the stored one and those of calls that have yet to
\* store theirs.
ClosesAlone ==
    /\ \A c, d \in Mcp!Closing : c = d
    /\ Mcp!Closing # {} => stored # NoClient
    /\ \A c \in Connects : client[c] = "open" <=>
          call[c] \in {"created", "closing"} \/ (c = stored /\ Mcp!Closing = {})
    /\ \A c \in Mcp!McpCalls : call[c] = "closingFailed" => status = "failed"
    /\ Mcp!Closing = {} => (status = "connected" <=> stored # NoClient)

ClientInv ==
    /\ Mcp!TypeOK
    /\ call \in [Mcp!McpCalls -> {"new", "created", "failed", "closing", "closingFailed", "disconnecting", "done"}]
    /\ \A c \in Disconnects : call[c] \notin {"created", "failed", "closing", "closingFailed"}
    /\ stored # NoClient => call[stored] = "done"
    /\ stored # NoClient /\ defs # NoClient => defs = stored
    /\ overlapped \/ ClosesAlone

\* A connection is not a disconnection, and neither is no client.
CallsAreNamed == Connects \cap Disconnects = {} /\ NoClient \notin Connects \cup Disconnects

LEMMA InitClientInv == ASSUME CallsAreNamed, Mcp!Init PROVE ClientInv
BY DEF CallsAreNamed, Mcp!Init, ClientInv, Mcp!TypeOK, Mcp!McpCalls, ClosesAlone, Mcp!Closing

LEMMA NextClientInv == ASSUME CallsAreNamed, ClientInv, [Mcp!Next]_mcpVars PROVE ClientInv'
<1> USE DEF CallsAreNamed, ClientInv, Mcp!TypeOK, Mcp!McpCalls, ClosesAlone, Mcp!Closing
<1>1. ASSUME NEW c \in Mcp!McpCalls, Mcp!Create(c) PROVE ClientInv'
  BY <1>1 DEF Mcp!Create
<1>2. ASSUME NEW c \in Mcp!McpCalls, Mcp!Store(c) PROVE ClientInv'
  <2>0. /\ call[c] \in {"created", "failed"} /\ c \in Connects /\ UNCHANGED listing
        /\ status' = IF call[c] = "created" THEN "connected" ELSE "failed"
    BY <1>2 DEF Mcp!Store
  <2>1. CASE stored = NoClient
    <3>1. /\ stored' = IF call[c] = "created" THEN c ELSE NoClient
          /\ defs' = stored'
          /\ call' = [call EXCEPT ![c] = "done"]
          /\ UNCHANGED <<client, overlapped>>
      BY <1>2, <2>1 DEF Mcp!Store
    <3>2. overlapped' \/ ClosesAlone'
      <4>1. CASE call[c] = "created"
        BY <2>0, <2>1, <3>1, <4>1
      <4>2. CASE call[c] = "failed"
        BY <2>0, <2>1, <3>1, <4>2
      <4> QED BY <2>0, <4>1, <4>2
    <3> QED BY <2>0, <2>1, <3>1, <3>2
  <2>2. CASE stored # NoClient
    <3>1. /\ defs' = NoClient
          /\ client' = [client EXCEPT ![stored] = "closed"]
          /\ call' = [call EXCEPT ![c] = IF call[c] = "created" THEN "closing" ELSE "closingFailed"]
          /\ overlapped' = (overlapped \/ Mcp!Closing # {})
          /\ UNCHANGED stored
      BY <1>2, <2>2 DEF Mcp!Store, Mcp!CloseStored
    <3>2. overlapped' \/ ClosesAlone'
      <4>1. CASE overlapped \/ Mcp!Closing # {}
        BY <3>1, <4>1
      <4>2. CASE ~overlapped /\ Mcp!Closing = {}
        <5>1. ClosesAlone /\ Mcp!Closing' = {c}
          BY <2>0, <3>1, <4>2
        <5>2. \A d \in Connects : client'[d] = "open" <=> call'[d] \in {"created", "closing"}
          BY <2>0, <2>2, <3>1, <4>2, <5>1
        <5>3. \A d \in Mcp!McpCalls : call'[d] = "closingFailed" => status' = "failed"
          BY <2>0, <2>2, <3>1, <4>2, <5>1
        <5> QED BY <2>2, <3>1, <5>1, <5>2, <5>3
      <4> QED BY <4>1, <4>2
    <3> QED BY <2>0, <2>2, <3>1, <3>2
  <2> QED BY <2>1, <2>2
<1>3. ASSUME NEW c \in Mcp!McpCalls, Mcp!Closed(c) PROVE ClientInv'
  BY <1>3 DEF Mcp!Closed, Mcp!Finish
<1>4. ASSUME NEW c \in Mcp!McpCalls, Mcp!Disconnect(c) PROVE ClientInv'
  BY <1>4 DEF Mcp!Disconnect, Mcp!CloseStored
<1>5. ASSUME NEW c \in Connects, Mcp!ListChanged(c) PROVE ClientInv'
  BY <1>5 DEF Mcp!ListChanged, Mcp!Current
<1>6. ASSUME NEW c \in Connects, Mcp!Listed(c) PROVE ClientInv'
  BY <1>6 DEF Mcp!Listed, Mcp!Current
<1>7. CASE UNCHANGED mcpVars
  BY <1>7 DEF mcpVars
<1> QED BY <1>1, <1>2, <1>3, <1>4, <1>5, <1>6, <1>7 DEF Mcp!Next

-----------------------------------------------------------------------------
(* The logins to an MCP server *)

\* The stages before the state of a login is in the file.
Unsaved == {"new", "saving"}

\* Logins start one after the other, and each updates the file where its stage says so.
LoginsGoOn ==
    /\ \A f, g \in Auth!Flows : flow[f] = "new" /\ f <= g => flow[g] = "new"
    /\ \A f \in Auth!Flows :
          /\ flow[f] = "saving" => update[f] = f
          /\ update[f] # Auth!Idle => flow[f] = "saving" \/ (flow[f] \in Auth!Clearing /\ update[f] = 0)
    /\ update[Auth!Removal] \in {0, Auth!Idle}

\* As long as no update was written over one that it had not read, the state in the file,
\* the one that a provider writes back and the one that a login is about to write are those
\* of logins that nothing has overtaken.
StateIsNewest ==
    mixed \/
      /\ oauthState \in Auth!Flows => \A g \in Auth!Flows : oauthState < g => flow[g] \in Unsaved
      /\ update[Auth!Provider] \in Auth!Flows /\ Auth!Provider \notin stale => update[Auth!Provider] = oauthState
      /\ \A f \in Auth!Flows : flow[f] = "saving" /\ f \notin stale =>
            \A g \in Auth!Flows : f < g => flow[g] \in Unsaved

LoginInv == Auth!TypeOK /\ LoginsGoOn /\ StateIsNewest

LEMMA LoginNumbers ==
  ASSUME MaxFlows \in Nat
  PROVE  /\ Auth!Flows = 1..MaxFlows /\ Auth!Removal = 0 /\ Auth!Provider = MaxFlows + 1
         /\ Auth!Idle = MaxFlows + 2 /\ Auth!Writers = 0..MaxFlows + 1 /\ Auth!States = 0..MaxFlows + 1
BY DEF Auth!Flows, Auth!Removal, Auth!Provider, Auth!Idle, Auth!Writers, Auth!States

\* The logins that go on otherwise than by an update.
LEMMA FlowsKeep ==
  ASSUME MaxFlows \in Nat, LoginInv, UNCHANGED <<oauthState, update, stale, mixed>>,
         \A f \in Auth!Flows : \/ flow'[f] = flow[f]
                               \/ flow[f] \notin Unsaved /\ flow'[f] \notin Unsaved /\ update[f] = Auth!Idle,
         Auth!TypeOK'
  PROVE  LoginInv'
<1>1. LoginsGoOn'
  BY LoginNumbers DEF LoginInv, LoginsGoOn, Unsaved, Auth!Clearing, Auth!TypeOK
<1>2. StateIsNewest'
  BY LoginNumbers DEF LoginInv, StateIsNewest, Unsaved, Auth!TypeOK
<1> QED BY <1>1, <1>2 DEF LoginInv

\* The end of an update.
LEMMA WriteKeeps ==
  ASSUME MaxFlows \in Nat, LoginInv, NEW w \in Auth!Writers, Auth!Write(w),
         flow' = IF w \in Auth!Flows THEN [flow EXCEPT ![w] = Auth!After(@)] ELSE flow,
         transport' = transport, nameToState' = nameToState, pendingAuths' = pendingAuths, exchanged' = exchanged
  PROVE  LoginInv'
<1> USE LoginNumbers
<1>1. /\ update[w] # Auth!Idle /\ oauthState' = update[w] /\ update' = [update EXCEPT ![w] = Auth!Idle]
      /\ stale' = Auth!InFlight \ {w} /\ (mixed' <=> mixed \/ w \in stale)
  BY DEF Auth!Write
<1>2. w \in Auth!Flows => /\ flow[w] = "saving" \/ (flow[w] \in Auth!Clearing /\ update[w] = 0)
                          /\ flow'[w] \in {"starting", "checked", "failed", "done"}
  BY <1>1 DEF LoginInv, LoginsGoOn, Auth!TypeOK, Auth!After, Auth!Clearing
<1>3. \A f \in Auth!Flows : f # w => flow'[f] = flow[f]
  BY DEF LoginInv, Auth!TypeOK
<1>4. \A v \in Auth!Writers : update'[v] = IF v = w THEN Auth!Idle ELSE update[v]
  BY <1>1 DEF LoginInv, Auth!TypeOK
<1>5. Auth!TypeOK'
  <2>1. flow' \in [Auth!Flows -> {"new", "saving", "starting", "waiting", "code", "checked", "exchanging", "done", "failed"}
                              \cup Auth!Clearing]
    BY <1>2 DEF LoginInv, Auth!TypeOK
  <2>2. oauthState' \in Auth!States /\ update' \in [Auth!Writers -> Auth!States \cup {Auth!Idle}]
    BY <1>1 DEF LoginInv, Auth!TypeOK
  <2>3. stale' \subseteq Auth!InFlight'
    BY <1>1, <1>4 DEF Auth!InFlight
  <2>4. pendingAuths' = {f \in Auth!Flows : flow'[f] = "waiting"}
    BY <1>2, <1>3 DEF LoginInv, Auth!TypeOK, Auth!Clearing
  <2> QED BY <2>1, <2>2, <2>3, <2>4 DEF LoginInv, Auth!TypeOK
<1>6. LoginsGoOn'
  BY <1>1, <1>2, <1>3, <1>4 DEF LoginInv, LoginsGoOn, Auth!TypeOK, Auth!Clearing
<1>7. CASE mixed'
  BY <1>5, <1>6, <1>7 DEF LoginInv, StateIsNewest
<1>8. CASE ~mixed'
  <2>1. StateIsNewest /\ ~mixed /\ w \notin stale
    BY <1>1, <1>8 DEF LoginInv
  <2>2. \A g \in Auth!Flows : g # w /\ flow[g] \in Unsaved => flow'[g] \in Unsaved
    BY <1>3
  <2>3. oauthState' \in Auth!Flows => \A g \in Auth!Flows : oauthState' < g => flow'[g] \in Unsaved
    <3>1. CASE w \in Auth!Flows
      <4>1. oauthState' \in Auth!Flows => oauthState' = w /\ flow[w] = "saving"
        BY <1>1, <1>2, <3>1 DEF LoginInv, LoginsGoOn
      <4> QED BY <2>1, <2>2, <3>1, <4>1 DEF StateIsNewest
    <3>2. CASE w \notin Auth!Flows
      <4>1. w = Auth!Removal \/ w = Auth!Provider
        BY <3>2
      <4>2. oauthState' \in Auth!Flows => oauthState' = oauthState
        BY <1>1, <2>1, <4>1 DEF StateIsNewest, LoginInv, LoginsGoOn
      <4> QED BY <2>1, <3>2, <4>2 DEF StateIsNewest
    <3> QED BY <3>1, <3>2
  <2>4. \A v \in Auth!Writers : v # w /\ update[v] # Auth!Idle => v \in stale'
    BY <1>1 DEF Auth!InFlight
  <2>5. update'[Auth!Provider] \in Auth!Flows /\ Auth!Provider \notin stale' => update'[Auth!Provider] = oauthState'
    BY <1>4, <2>4
  <2>6. ASSUME NEW f \in Auth!Flows, flow'[f] = "saving" PROVE f \in stale'
    BY <1>2, <1>3, <2>4, <2>6 DEF LoginInv, LoginsGoOn
  <2>7. StateIsNewest'
    BY <2>3, <2>5, <2>6 DEF StateIsNewest
  <2> QED BY <1>5, <1>6, <2>7 DEF LoginInv
<1> QED BY <1>7, <1>8

\* The beginning of an update that a provider, removeAuth or clearOAuthState makes.
LEMMA BeginKeeps ==
  ASSUME MaxFlows \in Nat, LoginInv, NEW w \in Auth!Writers, NEW x \in Auth!States, Auth!Begin(w, x),
         w \in Auth!Flows => flow[w] \in Auth!Clearing, w # Auth!Provider => x = 0,
         x \in Auth!Flows => x = oauthState,
         UNCHANGED <<flow, transport, pendingAuths, nameToState, exchanged>>
  PROVE  LoginInv'
<1> USE LoginNumbers
<1>1. update[w] = Auth!Idle /\ update' = [update EXCEPT ![w] = x] /\ UNCHANGED <<oauthState, stale, mixed>>
  BY DEF Auth!Begin
<1>2. \A v \in Auth!Writers : update'[v] = IF v = w THEN x ELSE update[v]
  BY <1>1 DEF LoginInv, Auth!TypeOK
<1>3. stale \subseteq Auth!InFlight'
  BY <1>1, <1>2 DEF LoginInv, Auth!TypeOK, Auth!InFlight
<1>4. Auth!TypeOK'
  BY <1>1, <1>3 DEF LoginInv, Auth!TypeOK
<1>5. LoginsGoOn'
  BY <1>1, <1>2 DEF LoginInv, LoginsGoOn, Auth!Clearing
<1>6. StateIsNewest'
  BY <1>1, <1>2 DEF LoginInv, StateIsNewest
<1> QED BY <1>4, <1>5, <1>6 DEF LoginInv

LEMMA InitLogin == ASSUME MaxFlows \in Nat, Auth!Init PROVE LoginInv
<1> USE LoginNumbers
<1>1. Auth!TypeOK
  BY DEF Auth!Init, Auth!TypeOK
<1>2. LoginsGoOn /\ StateIsNewest
  BY DEF Auth!Init, LoginsGoOn, StateIsNewest, Unsaved
<1> QED BY <1>1, <1>2 DEF LoginInv

\* The callbacks of some logins settle.
LEMMA SettleKeeps ==
  ASSUME MaxFlows \in Nat, LoginInv, NEW fs, fs \subseteq pendingAuths, NEW how \in {"code", "failed"}, Auth!Settle(fs, how),
         UNCHANGED <<oauthState, update, stale, mixed, exchanged>>, transport' \in 0..MaxFlows, nameToState' \in 0..MaxFlows
  PROVE  LoginInv'
<1>1. /\ flow' = [f \in Auth!Flows |-> IF f \in fs THEN how ELSE flow[f]] /\ pendingAuths' = pendingAuths \ fs
      /\ \A f \in fs : flow[f] = "waiting"
  BY DEF Auth!Settle, LoginInv, Auth!TypeOK
<1>2. \A f \in Auth!Flows : flow'[f] = IF f \in fs THEN how ELSE flow[f]
  BY <1>1
<1>3. Auth!TypeOK'
  BY <1>1, <1>2 DEF LoginInv, Auth!TypeOK, Auth!InFlight
<1>4. \A f \in fs : f \in Auth!Flows /\ update[f] = Auth!Idle
  BY <1>1 DEF LoginInv, LoginsGoOn, Auth!TypeOK, Auth!Clearing
<1> QED BY <1>1, <1>2, <1>3, <1>4, FlowsKeep DEF Unsaved

\* A login goes from one stage to another one, and the file is not touched.
LEMMA StageKeeps ==
  ASSUME MaxFlows \in Nat, LoginInv, NEW f \in Auth!Flows,
         flow[f] \in {"starting", "code", "checked", "exchanging"},
         NEW next \in {"waiting", "code", "checked", "exchanging", "done", "failed", "passed", "refused", "letIn"},
         flow' = [flow EXCEPT ![f] = next],
         pendingAuths' = IF next = "waiting" THEN pendingAuths \cup {f} ELSE pendingAuths,
         UNCHANGED <<oauthState, update, stale, mixed>>,
         transport' \in 0..MaxFlows, nameToState' \in 0..MaxFlows, exchanged' \in [Auth!Flows -> 0..MaxFlows]
  PROVE  LoginInv'
<1>1. \A g \in Auth!Flows : flow'[g] = IF g = f THEN next ELSE flow[g]
  BY DEF LoginInv, Auth!TypeOK
<1>2. pendingAuths' = {g \in Auth!Flows : flow'[g] = "waiting"}
  BY <1>1 DEF LoginInv, Auth!TypeOK
<1>3. Auth!TypeOK'
  BY <1>2 DEF LoginInv, Auth!TypeOK, Auth!Clearing, Auth!InFlight
<1>4. update[f] = Auth!Idle
  BY DEF LoginInv, LoginsGoOn, Auth!Clearing
<1> QED BY <1>1, <1>3, <1>4, FlowsKeep DEF Unsaved

\* removeAuth ends: the entry is written, and the login that waits in the index is rejected.
LEMMA RemovalKeeps ==
  ASSUME MaxFlows \in Nat, LoginInv, NEW fs, fs \subseteq pendingAuths, Auth!Write(Auth!Removal), Auth!Settle(fs, "failed"),
         UNCHANGED exchanged, transport' \in 0..MaxFlows, nameToState' \in 0..MaxFlows
  PROVE  LoginInv'
<1> USE LoginNumbers
<1> DEFINE w == Auth!Removal
<1>1. /\ update[w] = 0 /\ oauthState' = 0 /\ update' = [update EXCEPT ![w] = Auth!Idle]
      /\ stale' = Auth!InFlight \ {w} /\ (mixed' <=> mixed \/ w \in stale)
  BY DEF Auth!Write, LoginInv, LoginsGoOn
<1>2. /\ flow' = [f \in Auth!Flows |-> IF f \in fs THEN "failed" ELSE flow[f]] /\ pendingAuths' = pendingAuths \ fs
      /\ \A f \in fs : flow[f] = "waiting"
  BY DEF Auth!Settle, LoginInv, Auth!TypeOK
<1>3. \A f \in Auth!Flows : flow'[f] = IF f \in fs THEN "failed" ELSE flow[f]
  BY <1>2
<1>4. \A v \in Auth!Writers : update'[v] = IF v = w THEN Auth!Idle ELSE update[v]
  BY <1>1 DEF LoginInv, Auth!TypeOK
<1>5. stale' \subseteq Auth!InFlight' /\ \A v \in Auth!Writers : v # w /\ update[v] # Auth!Idle => v \in stale'
  BY <1>1, <1>4 DEF Auth!InFlight
<1>6. pendingAuths' = {f \in Auth!Flows : flow'[f] = "waiting"}
  BY <1>2, <1>3 DEF LoginInv, Auth!TypeOK
<1>7. Auth!TypeOK'
  BY <1>1, <1>2, <1>5, <1>6 DEF LoginInv, Auth!TypeOK
<1>8. LoginsGoOn'
  BY <1>1, <1>2, <1>3, <1>4 DEF LoginInv, LoginsGoOn, Auth!Clearing, Auth!TypeOK
<1>9. StateIsNewest'
  <2>1. oauthState' \notin Auth!Flows
    BY <1>1
  <2>2. update'[Auth!Provider] \in Auth!Flows => Auth!Provider \in stale'
    BY <1>4, <1>5
  <2>3. \A f \in Auth!Flows : flow'[f] = "saving" => f \in stale'
    BY <1>3, <1>5 DEF LoginInv, LoginsGoOn
  <2> QED BY <2>1, <2>2, <2>3 DEF StateIsNewest
<1> QED BY <1>7, <1>8, <1>9 DEF LoginInv

LEMMA NextLogin ==
  ASSUME MaxFlows \in Nat, LoginInv, [Auth!Next]_authVars
  PROVE  /\ LoginInv'
         /\ \A f \in Auth!Flows : flow[f] = "code" /\ flow'[f] = "passed" => mixed \/ \A g \in Auth!Saved : g <= f
<1> DEFINE Step == \A f \in Auth!Flows : flow[f] = "code" /\ flow'[f] = "passed" => mixed \/ \A g \in Auth!Saved : g <= f
<1>0. /\ transport \in 0..MaxFlows /\ nameToState \in 0..MaxFlows /\ exchanged \in [Auth!Flows -> 0..MaxFlows]
      /\ 0 \in 0..MaxFlows /\ Auth!Flows \subseteq 0..MaxFlows
      /\ flow \in [Auth!Flows -> {"new", "saving", "starting", "waiting", "code", "checked", "exchanging", "done", "failed"}
                              \cup Auth!Clearing]
  BY LoginNumbers DEF LoginInv, Auth!TypeOK
\* Whoever comes to the stage passed comes from there by CheckState.
<1>a. ASSUME NEW f \in Auth!Flows, NEW next, next # "passed", flow' = [flow EXCEPT ![f] = next] PROVE Step
  BY <1>0, <1>a
<1>b. ASSUME NEW fs, NEW how \in {"code", "failed"}, Auth!Settle(fs, how) PROVE Step
  BY <1>0, <1>b DEF Auth!Settle
<1>c. ASSUME UNCHANGED flow PROVE Step
  BY <1>c
<1>1. ASSUME NEW f \in Auth!Flows, Auth!StartAuth(f) PROVE LoginInv' /\ Step
  <2> USE LoginNumbers
  <2>1. /\ flow[f] = "new" /\ \A g \in 1..f - 1 : flow[g] # "new"
        /\ flow' = [flow EXCEPT ![f] = "saving"] /\ update[f] = Auth!Idle /\ update' = [update EXCEPT ![f] = f]
        /\ UNCHANGED <<oauthState, stale, mixed, transport, pendingAuths, nameToState, exchanged>>
    BY <1>1 DEF Auth!StartAuth, Auth!Begin
  <2>2. \A g \in Auth!Flows : flow'[g] = IF g = f THEN "saving" ELSE flow[g]
    BY <1>0, <2>1
  <2>3. \A w \in Auth!Writers : update'[w] = IF w = f THEN f ELSE update[w]
    BY <2>1 DEF LoginInv, Auth!TypeOK
  <2>4. pendingAuths' = {g \in Auth!Flows : flow'[g] = "waiting"} /\ stale \subseteq Auth!InFlight'
    BY <2>1, <2>2, <2>3 DEF LoginInv, Auth!TypeOK, Auth!InFlight
  <2>5. Auth!TypeOK'
    BY <2>1, <2>4 DEF LoginInv, Auth!TypeOK
  <2>6. LoginsGoOn'
    BY <2>1, <2>2, <2>3 DEF LoginInv, LoginsGoOn, Auth!Clearing
  <2>7. \A g \in Auth!Flows : f <= g => flow'[g] \in Unsaved
    BY <2>1, <2>2 DEF LoginInv, LoginsGoOn, Unsaved
  <2>8. StateIsNewest'
    BY <2>1, <2>2, <2>3, <2>7 DEF LoginInv, StateIsNewest, Unsaved
  <2> QED BY <1>a, <2>1, <2>5, <2>6, <2>8 DEF LoginInv
<1>2. ASSUME NEW f \in Auth!Flows, Auth!WaitForCallback(f) PROVE LoginInv' /\ Step
  BY <1>0, <1>2, <1>a, StageKeeps DEF Auth!WaitForCallback, Auth!fileVars
<1>3. ASSUME NEW f \in Auth!Flows, Auth!NoLoginNeeded(f) PROVE LoginInv' /\ Step
  <2>1. PICK how \in {"letIn", "failed"} : flow' = [flow EXCEPT ![f] = how]
    BY <1>3 DEF Auth!NoLoginNeeded
  <2> QED BY <1>0, <1>3, <1>a, <2>1, StageKeeps DEF Auth!NoLoginNeeded, Auth!fileVars
<1>4. ASSUME NEW f \in Auth!Flows, Auth!HandleRequest(f) PROVE LoginInv' /\ Step
  <2>1. PICK how \in {"code", "failed"} : Auth!Settle({f}, how)
    BY <1>4 DEF Auth!HandleRequest
  <2>2. nameToState' \in 0..MaxFlows
    BY <1>0, <1>4 DEF Auth!HandleRequest, Auth!Forget
  <2>3. {f} \subseteq pendingAuths /\ UNCHANGED <<oauthState, update, stale, mixed, exchanged, transport>>
    BY <1>4 DEF Auth!HandleRequest, Auth!fileVars
  <2> QED BY <1>0, <1>b, <2>1, <2>2, <2>3, SettleKeeps
<1>5. ASSUME NEW f \in Auth!Flows, Auth!Timeout(f) PROVE LoginInv' /\ Step
  BY <1>0, <1>5, <1>b, SettleKeeps DEF Auth!Timeout, Auth!fileVars
<1>6. CASE Auth!Stop
  BY <1>0, <1>6, <1>b, SettleKeeps DEF Auth!Stop, Auth!fileVars
<1>7. CASE Auth!RemoveAuth
  <2>1. Auth!Begin(Auth!Removal, 0) /\ UNCHANGED <<flow, transport, pendingAuths, nameToState, exchanged>>
    BY <1>7 DEF Auth!RemoveAuth
  <2>2. Auth!Removal \in Auth!Writers /\ 0 \in Auth!States /\ Auth!Removal \notin Auth!Flows /\ 0 \notin Auth!Flows
    BY LoginNumbers
  <2> QED BY <1>c, <2>1, <2>2, BeginKeeps
<1>8. CASE Auth!Removed
  <2> DEFINE fs == {nameToState} \cap pendingAuths
  <2>1. /\ Auth!Write(Auth!Removal) /\ Auth!Settle(fs, "failed") /\ transport' = 0 /\ UNCHANGED exchanged
        /\ nameToState' \in 0..MaxFlows
    BY <1>0, <1>8 DEF Auth!Removed, Auth!Forget
  <2>2. Auth!Removal \in Auth!Writers /\ Auth!Removal \notin Auth!Flows
    BY LoginNumbers
  <2> HIDE DEF fs
  <2>3. LoginInv' /\ Step
    BY <1>0, <1>b, <2>1, <2>2, RemovalKeeps DEF fs
  <2> QED BY <2>3
<1>9. CASE Auth!ProviderUpdates
  <2>1. PICK x \in Auth!Seen \cup {0, Auth!Provider} : Auth!Begin(Auth!Provider, x)
    BY <1>9 DEF Auth!ProviderUpdates
  <2>2. UNCHANGED <<flow, transport, pendingAuths, nameToState, exchanged>>
    BY <1>9 DEF Auth!ProviderUpdates
  <2>3. x \in Auth!States /\ (x \in Auth!Flows => x = oauthState) /\ Auth!Provider \in Auth!Writers /\ Auth!Provider \notin Auth!Flows
    BY <2>1, LoginNumbers DEF Auth!Seen, LoginInv, Auth!TypeOK
  <2> QED BY <1>c, <2>1, <2>2, <2>3, BeginKeeps
<1>10. CASE Auth!ProviderWrites
  <2>1. Auth!Provider \in Auth!Writers /\ Auth!Provider \notin Auth!Flows
    BY LoginNumbers
  <2> QED BY <1>10, <1>c, <2>1, WriteKeeps DEF Auth!ProviderWrites
<1>11. ASSUME NEW f \in Auth!Flows, Auth!Clear(f) PROVE LoginInv' /\ Step
  <2>1. /\ flow[f] \in Auth!Clearing /\ update[f] = Auth!Idle
        /\ UNCHANGED <<transport, pendingAuths, nameToState, exchanged>>
    BY <1>11 DEF Auth!Clear
  <2>2. CASE Auth!Begin(f, 0) /\ UNCHANGED flow
    <3>1. f \in Auth!Writers /\ 0 \in Auth!States /\ 0 \notin Auth!Flows
      BY LoginNumbers
    <3> QED BY <1>c, <2>1, <2>2, <3>1, BeginKeeps
  <2>3. CASE flow' = [flow EXCEPT ![f] = Auth!After(@)] /\ UNCHANGED <<oauthState, update, stale, mixed>>
    <3>1. Auth!After(flow[f]) \in {"checked", "failed", "done"}
      BY <2>1 DEF Auth!Clearing, Auth!After
    <3>2. \A g \in Auth!Flows : flow'[g] = IF g = f THEN Auth!After(flow[f]) ELSE flow[g]
      BY <1>0, <2>3
    <3>3. pendingAuths' = {g \in Auth!Flows : flow'[g] = "waiting"}
      BY <2>1, <3>1, <3>2 DEF LoginInv, Auth!TypeOK, Auth!Clearing
    <3>4. flow' \in [Auth!Flows -> {"new", "saving", "starting", "waiting", "code", "checked", "exchanging", "done", "failed"}
                              \cup Auth!Clearing]
      BY <1>0, <2>3, <3>1
    <3>5. Auth!TypeOK'
      BY <2>1, <2>3, <3>3, <3>4 DEF LoginInv, Auth!TypeOK, Auth!InFlight
    <3>6. LoginInv'
      BY <2>1, <2>3, <3>1, <3>2, <3>5, FlowsKeep DEF Unsaved, Auth!Clearing
    <3> QED BY <1>a, <2>3, <3>1, <3>6
  <2> QED BY <1>11, <2>2, <2>3 DEF Auth!Clear, Auth!fileVars
<1>12. ASSUME NEW f \in Auth!Flows, Auth!Written(f) PROVE LoginInv' /\ Step
  <2>1. /\ Auth!Write(f) /\ flow' = [flow EXCEPT ![f] = Auth!After(@)]
        /\ UNCHANGED <<transport, pendingAuths, nameToState, exchanged>>
    BY <1>12 DEF Auth!Written
  <2>2. f \in Auth!Writers
    BY LoginNumbers
  <2>3. flow[f] # "code"
    BY <2>1 DEF Auth!Write, LoginInv, LoginsGoOn, Auth!Clearing
  <2> QED BY <1>0, <2>1, <2>2, <2>3, WriteKeeps
<1>13. ASSUME NEW f \in Auth!Flows, Auth!CheckState(f) PROVE LoginInv' /\ Step
  <2>1. PICK x \in Auth!Seen : flow' = [flow EXCEPT ![f] = IF x = f THEN "passed" ELSE "refused"]
    BY <1>13 DEF Auth!CheckState
  <2>2. flow[f] = "code" /\ UNCHANGED <<oauthState, update, stale, mixed, transport, pendingAuths, nameToState, exchanged>>
    BY <1>13 DEF Auth!CheckState, Auth!fileVars
  <2>3. CASE x = f
    <3>1. oauthState = f
      BY <2>1, <2>3, LoginNumbers DEF Auth!Seen
    <3>2. mixed \/ \A g \in Auth!Saved : g <= f
      BY <3>1, LoginNumbers DEF LoginInv, StateIsNewest, Unsaved, Auth!Saved
    <3>3. \A g \in Auth!Flows : g # f => flow'[g] = flow[g]
      BY <1>0, <2>1
    <3>4. LoginInv'
      BY <1>0, <2>1, <2>2, <2>3, StageKeeps
    <3>5. Step
      <4> SUFFICES ASSUME NEW g \in Auth!Flows, flow[g] = "code" /\ flow'[g] = "passed"
                   PROVE mixed \/ \A h \in Auth!Saved : h <= g
        OBVIOUS
      <4>1. g = f
        BY <3>3
      <4> QED BY <3>2, <4>1
    <3> QED BY <3>4, <3>5
  <2>4. CASE x # f
    BY <1>0, <1>a, <2>1, <2>2, <2>4, StageKeeps
  <2> QED BY <2>3, <2>4
<1>14. ASSUME NEW f \in Auth!Flows, Auth!FinishAuth(f) PROVE LoginInv' /\ Step
  <2>1. /\ flow[f] = "checked" /\ exchanged' = [exchanged EXCEPT ![f] = transport]
        /\ UNCHANGED <<oauthState, update, stale, mixed, transport, pendingAuths, nameToState>>
    BY <1>14 DEF Auth!FinishAuth, Auth!fileVars
  <2>2. exchanged' \in [Auth!Flows -> 0..MaxFlows]
    BY <1>0, <2>1
  <2>3. PICK next \in {"failed", "exchanging"} : flow' = [flow EXCEPT ![f] = next]
    BY <1>14 DEF Auth!FinishAuth
  <2> QED BY <1>0, <1>a, <2>1, <2>2, <2>3, StageKeeps
<1>15. ASSUME NEW f \in Auth!Flows, Auth!Exchanged(f) PROVE LoginInv' /\ Step
  <2>1. flow[f] = "exchanging" /\ UNCHANGED <<oauthState, update, stale, mixed, pendingAuths, nameToState, exchanged>>
    BY <1>15 DEF Auth!Exchanged, Auth!fileVars
  <2>2. PICK next \in {"done", "failed"} : flow' = [flow EXCEPT ![f] = next] /\ transport' \in {0, transport}
    BY <1>15 DEF Auth!Exchanged
  <2> QED BY <1>0, <1>a, <2>1, <2>2, StageKeeps
<1>16. CASE UNCHANGED authVars
  <2>1. UNCHANGED <<flow, oauthState, update, stale, mixed, transport, pendingAuths, nameToState, exchanged>>
    BY <1>16 DEF authVars
  <2>2. Auth!TypeOK'
    BY <2>1 DEF LoginInv, Auth!TypeOK, Auth!InFlight
  <2> QED BY <1>c, <2>1, <2>2, FlowsKeep
<1> QED
  BY <1>1, <1>2, <1>3, <1>4, <1>5, <1>6, <1>7, <1>8, <1>9, <1>10, <1>11, <1>12, <1>13, <1>14, <1>15, <1>16
  DEF Auth!Next, Auth!GoesOn

\* A login that the user has overtaken by another one is not completed, as long as no update
\* of the file was written over one that it had not read: finishAuth gets its code only if
\* the state in the file is its own (authenticate, startAuth and removeAuth of
\* mcp/index.ts, the updates of mcp/auth.ts).
THEOREM LoginsAreOvertaken == ASSUME MaxFlows \in Nat PROVE Spec => []Auth!TypeOK /\ Auth!OvertakenFails
<1> DEFINE Step == \A f \in Auth!Flows : flow[f] = "code" /\ flow'[f] = "passed" =>
                     mixed \/ \A g \in Auth!Saved : g <= f
<1>1. Init => LoginInv
  BY InitLogin, Starts DEF PartsStart
<1>2. LoginInv /\ [Next]_vars => LoginInv' /\ Step
  BY NextLogin, Steps DEF PartsStep
<1>3. [][Step]_authVars => Auth!OvertakenFails
  BY PTL DEF Auth!OvertakenFails, Auth!ovars, authVars
<1>4. LoginInv => Auth!TypeOK
  BY DEF LoginInv
<1> HIDE DEF Step
<1> QED BY <1>1, <1>2, <1>3, <1>4, PTL DEF Spec

\* The tools the model is offered are those of the client they are called on; calls that
\* do not close at the same time leave one open client or none, and the status says
\* which (createAndStore, closeClient and watch of mcp/index.ts).
THEOREM McpClientsAgree == ASSUME CallsAreNamed, MaxFlows \in Nat PROVE Spec => []ClientsAgree
<1>1. Init => ClientInv
  BY InitClientInv, Starts DEF PartsStart
<1>2. ClientInv /\ [Next]_vars => ClientInv'
  BY NextClientInv, Steps DEF PartsStep
<1>3. ASSUME ClientInv PROVE Mcp!ClientsAgree
  <2>1. Mcp!ToolsOfClient
    BY <1>3 DEF ClientInv, Mcp!ToolsOfClient, Mcp!Offered
  <2>2. Mcp!OneClient
    BY <1>3 DEF ClientInv, Mcp!TypeOK, ClosesAlone, Mcp!Closing, Mcp!McpCalls, Mcp!OneClient, Mcp!Quiet
  <2> QED BY <1>3, <2>1, <2>2 DEF ClientInv, Mcp!ClientsAgree
<1>4. Spec => []Auth!TypeOK
  BY LoginsAreOvertaken
<1>5. Mcp!ClientsAgree /\ Auth!TypeOK => ClientsAgree
  BY DEF ClientsAgree
<1> QED BY <1>1, <1>2, <1>3, <1>4, <1>5, PTL DEF Spec

-----------------------------------------------------------------------------
(* The tokens of an account *)

\* A token that someone holds is of a login the server knows, and no later than the
\* server has refreshed it.
Known(token) ==
    token \in Tokens!Tokens /\ token.login \in Tokens!Logins /\ token.refreshed <= granted[token.login]

Waiting(c) == caller[c].stage \in {"stale", "waiting"}

HeldAreKnown ==
    /\ \E n \in 1..MaxLogins : Tokens!Logins = 1..n
    /\ row # NoRow => Known(row)
    /\ lookup.stage = "none" => lookup = Tokens!NoLookup
    /\ lookup.stage # "none" => Known(lookup.row)

\* Who has found the token expired has a row that was there: the present row is no
\* earlier one of the same login.
ReadIsEarlier ==
    \A c \in Callers : Waiting(c) =>
        /\ Known(caller[c].row)
        /\ row # NoRow /\ row.login = caller[c].row.login => caller[c].row.refreshed <= row.refreshed

\* The server takes the token that it is asked to refresh, or an answer was lost; the
\* answer that has come is the newest.
AskedIsTaken ==
    /\ lookup.stage = "asking" => \/ lookup.row.refreshed = granted[lookup.row.login]
                                  \/ lookup.row \in lost
    /\ lookup.stage = "answered" => granted[lookup.row.login] = lookup.row.refreshed + 1

TokenInv == Tokens!TokensKept /\ HeldAreKnown /\ ReadIsEarlier /\ AskedIsTaken

LEMMA InitTokenInv ==
  ASSUME MaxLogins \in Nat \ {0}, MaxRefreshes \in Nat, Tokens!Init PROVE TokenInv
BY DEF Tokens!Init, TokenInv, Tokens!TokensKept, Tokens!TypeOK, Tokens!SpentOnce, Tokens!StoredIsTaken,
       Tokens!ReturnsLater, Tokens!WaitsForLookup, HeldAreKnown, ReadIsEarlier, AskedIsTaken,
       Tokens!Tokens, Tokens!Logins, Tokens!NoLookup, Known, Waiting

CallerStages == {"new", "stale", "waiting", "done", "failed"}
RowsOrNone == Tokens!Tokens \cup {NoRow}
CallerRecords == [stage : CallerStages, row : RowsOrNone, token : RowsOrNone]

LEMMA Record ==
  ASSUME NEW r \in CallerRecords, NEW a \in CallerStages, NEW b \in RowsOrNone
  PROVE  /\ [r EXCEPT !.stage = a] = [stage |-> a, row |-> r.row, token |-> r.token]
         /\ [r EXCEPT !.stage = a, !.row = b] = [stage |-> a, row |-> b, token |-> r.token]
         /\ [r EXCEPT !.stage = a, !.token = b] = [stage |-> a, row |-> r.row, token |-> b]
<1>1. [r EXCEPT !.stage = a] = [stage |-> a, row |-> r.row, token |-> r.token]
  BY DEF CallerRecords
<1>2. [[stage |-> a, row |-> r.row, token |-> r.token] EXCEPT !.row = b] = [stage |-> a, row |-> b, token |-> r.token]
  OBVIOUS
<1>3. [[stage |-> a, row |-> r.row, token |-> r.token] EXCEPT !.token = b] = [stage |-> a, row |-> r.row, token |-> b]
  OBVIOUS
<1>4. /\ [r EXCEPT !.stage = a, !.row = b] = [[r EXCEPT !.stage = a] EXCEPT !.row = b]
      /\ [r EXCEPT !.stage = a, !.token = b] = [[r EXCEPT !.stage = a] EXCEPT !.token = b]
  OBVIOUS
<1> QED BY <1>1, <1>2, <1>3, <1>4

LEMMA CompleteGoesOn ==
  ASSUME caller \in [Callers -> CallerRecords], NEW how \in CallerStages, NEW new \in RowsOrNone, Tokens!Complete(how, new)
  PROVE  /\ caller' \in [Callers -> CallerRecords]
         /\ \A c \in Callers :
              /\ caller[c].stage = "waiting" => caller'[c] = [stage |-> how, row |-> caller[c].row, token |-> new]
              /\ caller[c].stage # "waiting" => caller'[c] = caller[c]
<1>1. \A r \in CallerRecords : [r EXCEPT !.stage = how, !.token = new] = [stage |-> how, row |-> r.row, token |-> new]
  BY Record
<1>2. \A r \in CallerRecords : [r EXCEPT !.stage = how, !.token = new] \in CallerRecords
  BY <1>1 DEF CallerRecords
<1> DEFINE next(d) == [caller[d] EXCEPT !.stage = how, !.token = new]
<1>3. caller' = [d \in Callers |-> IF caller[d].stage = "waiting" THEN next(d) ELSE caller[d]]
  BY DEF Tokens!Complete
<1>4. \A d \in Callers : next(d) \in CallerRecords /\ next(d) = [stage |-> how, row |-> caller[d].row, token |-> new]
  BY <1>1, <1>2
<1> HIDE DEF next
<1> QED BY <1>3, <1>4

\* The end of a lookup: whoever waited goes on, with a token no earlier than its row's.
\* The row is the same, or one that the server takes.
LEMMA Completed ==
  ASSUME TokenInv, NEW finish \in {"done", "failed"}, NEW token \in Tokens!Tokens \cup {NoRow},
         Tokens!Complete(finish, token),
         finish = "done" => /\ token \in Tokens!Tokens
                           /\ \A c \in Callers : caller[c].stage = "waiting" /\ token.login = caller[c].row.login =>
                                 caller[c].row.refreshed <= token.refreshed,
         UNCHANGED <<expired, granted, reused>>, lost \subseteq lost', lost' \subseteq Tokens!Tokens,
         row' = row \/ (Known(row') /\ row'.refreshed = granted[row'.login]),
         row' # NoRow => row'.refreshed = granted[row'.login] \/ row' \in lost'
  PROVE  TokenInv'
<1>1. lookup' = Tokens!NoLookup
  BY DEF Tokens!Complete
<1>2. /\ caller \in [Callers -> CallerRecords] /\ finish \in CallerStages /\ token \in RowsOrNone
  BY DEF TokenInv, Tokens!TokensKept, Tokens!TypeOK, CallerRecords, CallerStages, RowsOrNone
<1>3. ASSUME NEW c \in Callers, caller[c].stage = "waiting"
      PROVE  caller'[c] = [stage |-> finish, row |-> caller[c].row, token |-> token]
  BY <1>2, <1>3, CompleteGoesOn
<1>4. ASSUME NEW c \in Callers, caller[c].stage # "waiting" PROVE caller'[c] = caller[c]
  BY <1>2, <1>4, CompleteGoesOn
<1>5. caller' \in [Callers -> CallerRecords]
  BY <1>2, CompleteGoesOn
<1>6. Tokens!TypeOK'
  <2>1. caller' \in [Callers -> CallerRecords]
    BY <1>5
  <2>2. lookup' \in [stage : {"none", "begun", "asking", "answered", "refused"}, row : Tokens!Tokens \cup {NoRow}]
    BY <1>1 DEF Tokens!NoLookup
  <2> QED BY <2>1, <2>2 DEF TokenInv, Tokens!TokensKept, Tokens!TypeOK, CallerRecords, CallerStages, RowsOrNone, Known, Tokens!Logins, Tokens!Tokens
<1>7. ASSUME NEW c \in Callers, caller'[c].stage = "done", caller'[c].token # caller'[c].row
      PROVE  \/ caller'[c].token.login # caller'[c].row.login
             \/ caller'[c].token.refreshed > caller'[c].row.refreshed
  <2>1. CASE caller[c].stage = "waiting"
    <3>1. caller'[c] = [stage |-> finish, row |-> caller[c].row, token |-> token]
      BY <1>3, <2>1
    <3>2. finish = "done" /\ token # caller[c].row
      BY <1>7, <3>1
    <3>3. caller[c].row \in Tokens!Tokens
      BY <2>1 DEF TokenInv, ReadIsEarlier, Waiting, Known
    <3>4. token \in Tokens!Tokens /\ (token.login = caller[c].row.login => caller[c].row.refreshed <= token.refreshed)
      BY <2>1, <3>2
    <3>5. token.login # caller[c].row.login \/ token.refreshed > caller[c].row.refreshed
      BY <3>2, <3>3, <3>4 DEF Tokens!Tokens
    <3> QED BY <3>1, <3>5
  <2>2. CASE caller[c].stage # "waiting"
    BY <1>4, <1>7, <2>2 DEF TokenInv, Tokens!TokensKept, Tokens!ReturnsLater
  <2> QED BY <2>1, <2>2
<1>8. Tokens!WaitsForLookup'
  <2>1. ASSUME NEW c \in Callers PROVE caller'[c].stage # "waiting"
    <3>1. CASE caller[c].stage = "waiting"
      <4>1. caller'[c] = [stage |-> finish, row |-> caller[c].row, token |-> token]
        BY <1>3, <3>1
      <4> QED BY <4>1
    <3>2. CASE caller[c].stage # "waiting"
      BY <1>4, <3>2
    <3> QED BY <3>1, <3>2
  <2> QED BY <1>1, <2>1 DEF Tokens!WaitsForLookup
<1>9. Tokens!SpentOnce' /\ Tokens!StoredIsTaken'
  BY DEF TokenInv, Tokens!TokensKept, Tokens!SpentOnce, Tokens!StoredIsTaken
<1>10. HeldAreKnown'
  BY <1>1 DEF TokenInv, HeldAreKnown, Known, Tokens!NoLookup, Tokens!Logins
<1>11. ReadIsEarlier'
  <2>1. ASSUME NEW c \in Callers, caller'[c].stage \in {"stale", "waiting"}
        PROVE  caller'[c] = caller[c] /\ Waiting(c)
    <3>1. caller[c].stage # "waiting"
      <4>1. SUFFICES ASSUME caller[c].stage = "waiting" PROVE FALSE
        OBVIOUS
      <4>2. caller'[c] = [stage |-> finish, row |-> caller[c].row, token |-> token]
        BY <1>3, <4>1
      <4>3. caller'[c].stage = finish
        BY <4>2
      <4> QED BY <2>1, <4>3
    <3> QED BY <1>4, <2>1, <3>1 DEF Waiting
  <2> QED BY <2>1 DEF TokenInv, ReadIsEarlier, Waiting, Known, Tokens!Logins
<1>12. AskedIsTaken'
  BY <1>1 DEF AskedIsTaken, Tokens!NoLookup
<1> QED BY <1>6, <1>7, <1>8, <1>9, <1>10, <1>11, <1>12 DEF TokenInv, Tokens!TokensKept, Tokens!ReturnsLater

LEMMA NextTokenInv ==
  ASSUME MaxLogins \in Nat \ {0}, MaxRefreshes \in Nat, TokenInv, [Tokens!Next]_tokenVars
  PROVE  TokenInv' /\ (row = NoRow /\ row' # NoRow => granted' # granted)
<1>1. ASSUME NEW c \in Callers, Tokens!ResolveAccess(c) PROVE TokenInv' /\ row' = row
  <2>1. /\ caller[c].stage = "new" /\ UNCHANGED <<row, expired, lookup, granted, lost, reused>>
        /\ caller \in [Callers -> CallerRecords] /\ row \in RowsOrNone
    BY <1>1 DEF Tokens!ResolveAccess, TokenInv, Tokens!TokensKept, Tokens!TypeOK, CallerRecords, CallerStages, RowsOrNone
  <2>2. \/ row # NoRow /\ caller' = [caller EXCEPT ![c] = [stage |-> "stale", row |-> row, token |-> caller[c].token]]
        \/ caller' = [caller EXCEPT ![c] = [stage |-> "done", row |-> row, token |-> row]]
    <3>1. [caller[c] EXCEPT !.stage = "stale", !.row = row] = [stage |-> "stale", row |-> row, token |-> caller[c].token]
      BY <2>1, Record DEF CallerStages
    <3> QED BY <1>1, <3>1 DEF Tokens!ResolveAccess
  <2>3. CASE row # NoRow /\ caller' = [caller EXCEPT ![c] = [stage |-> "stale", row |-> row, token |-> caller[c].token]]
    BY <2>1, <2>3 DEF TokenInv, Tokens!TokensKept, Tokens!TypeOK, Tokens!SpentOnce, Tokens!StoredIsTaken,
       Tokens!ReturnsLater, Tokens!WaitsForLookup, HeldAreKnown, ReadIsEarlier, AskedIsTaken,
       Tokens!Tokens, Tokens!Logins, Tokens!NoLookup, Known, Waiting
  <2>4. CASE caller' = [caller EXCEPT ![c] = [stage |-> "done", row |-> row, token |-> row]]
    BY <2>1, <2>4 DEF TokenInv, Tokens!TokensKept, Tokens!TypeOK, Tokens!SpentOnce, Tokens!StoredIsTaken,
       Tokens!ReturnsLater, Tokens!WaitsForLookup, HeldAreKnown, ReadIsEarlier, AskedIsTaken,
       Tokens!Tokens, Tokens!Logins, Tokens!NoLookup, Known, Waiting
  <2> QED BY <2>2, <2>3, <2>4
<1>2. ASSUME NEW c \in Callers, Tokens!Get(c) PROVE TokenInv' /\ row' = row
  <2>1. /\ caller[c].stage = "stale" /\ UNCHANGED <<row, expired, granted, lost, reused>>
        /\ caller \in [Callers -> CallerRecords] /\ row \in RowsOrNone
    BY <1>2 DEF Tokens!Get, TokenInv, Tokens!TokensKept, Tokens!TypeOK, CallerRecords, CallerStages, RowsOrNone
  <2>2. caller' = [caller EXCEPT ![c] = [stage |-> "waiting", row |-> caller[c].row, token |-> caller[c].token]]
    <3>1. [caller[c] EXCEPT !.stage = "waiting"] = [stage |-> "waiting", row |-> caller[c].row, token |-> caller[c].token]
      BY <2>1, Record DEF CallerStages
    <3> QED BY <1>2, <3>1 DEF Tokens!Get
  <2>3. CASE lookup = Tokens!NoLookup /\ lookup' = [stage |-> "begun", row |-> caller[c].row]
    BY <2>1, <2>2, <2>3 DEF TokenInv, Tokens!TokensKept, Tokens!TypeOK, Tokens!SpentOnce, Tokens!StoredIsTaken,
       Tokens!ReturnsLater, Tokens!WaitsForLookup, HeldAreKnown, ReadIsEarlier, AskedIsTaken,
       Tokens!Tokens, Tokens!Logins, Tokens!NoLookup, Known, Waiting
  <2>4. CASE lookup # Tokens!NoLookup /\ lookup' = lookup
    BY <2>1, <2>2, <2>4 DEF TokenInv, Tokens!TokensKept, Tokens!TypeOK, Tokens!SpentOnce, Tokens!StoredIsTaken,
       Tokens!ReturnsLater, Tokens!WaitsForLookup, HeldAreKnown, ReadIsEarlier, AskedIsTaken,
       Tokens!Tokens, Tokens!Logins, Tokens!NoLookup, Known, Waiting
  <2> QED BY <1>2, <2>3, <2>4 DEF Tokens!Get
<1>3. CASE Tokens!Lookup
  <2>0. /\ lookup.stage = "begun" /\ UNCHANGED <<row, expired, granted, lost, reused>>
        /\ lost \subseteq Tokens!Tokens /\ row \in Tokens!Tokens \cup {NoRow}
        /\ row # NoRow => row.refreshed = granted[row.login] \/ row \in lost
    BY <1>3 DEF Tokens!Lookup, TokenInv, Tokens!TokensKept, Tokens!TypeOK, Tokens!StoredIsTaken
  <2>1. CASE row = NoRow
    <3>1. Tokens!Complete("failed", NoRow)
      BY <1>3, <2>1 DEF Tokens!Lookup
    <3> QED BY <2>0, <2>1, <3>1, Completed
  <2>2. CASE row # NoRow /\ Tokens!Complete("done", row)
    <3>1. \A c \in Callers : caller[c].stage = "waiting" /\ row.login = caller[c].row.login =>
             caller[c].row.refreshed <= row.refreshed
      BY <2>2 DEF TokenInv, ReadIsEarlier, Waiting
    <3> QED BY <2>0, <2>2, <3>1, Completed
  <2>3. CASE lookup' = [stage |-> "asking", row |-> row] /\ row # NoRow /\ UNCHANGED caller
    BY <2>0, <2>3 DEF TokenInv, Tokens!TokensKept, Tokens!TypeOK, Tokens!SpentOnce, Tokens!StoredIsTaken,
       Tokens!ReturnsLater, Tokens!WaitsForLookup, HeldAreKnown, ReadIsEarlier, AskedIsTaken,
       Tokens!Tokens, Tokens!Logins, Tokens!NoLookup, Known, Waiting
  <2> QED BY <1>3, <2>0, <2>1, <2>2, <2>3 DEF Tokens!Lookup
<1>4. CASE Tokens!Answer
  BY <1>4 DEF Tokens!Answer, TokenInv, Tokens!TokensKept, Tokens!TypeOK, Tokens!SpentOnce, Tokens!StoredIsTaken,
       Tokens!ReturnsLater, Tokens!WaitsForLookup, HeldAreKnown, ReadIsEarlier, AskedIsTaken,
       Tokens!Tokens, Tokens!Logins, Tokens!NoLookup, Known, Waiting
<1>5. CASE Tokens!Fail
  <2>1. /\ lookup.stage \in {"asking", "answered", "refused"} /\ UNCHANGED <<row, expired, granted, reused>>
        /\ Tokens!Complete("failed", NoRow)
        /\ lost' = IF lookup.stage = "answered" THEN lost \cup {lookup.row} ELSE lost
    BY <1>5 DEF Tokens!Fail
  <2>2. /\ lost \subseteq lost' /\ lost' \subseteq Tokens!Tokens
        /\ row # NoRow => row.refreshed = granted[row.login] \/ row \in lost'
    BY <2>1 DEF TokenInv, Tokens!TokensKept, Tokens!TypeOK, Tokens!StoredIsTaken, HeldAreKnown, Known
  <2> QED BY <2>1, <2>2, Completed
<1>6. CASE Tokens!PersistToken
  <2> DEFINE new == Tokens!Refreshed(lookup.row)
  <2>1. /\ lookup.stage = "answered" /\ UNCHANGED <<expired, granted, lost, reused>>
        /\ row' = IF row = NoRow THEN NoRow ELSE new
        /\ Tokens!Complete("done", new) /\ lost \subseteq Tokens!Tokens
    BY <1>6 DEF Tokens!PersistToken, TokenInv, Tokens!TokensKept, Tokens!TypeOK
  <2>2. Known(new) /\ new.login = lookup.row.login /\ new.refreshed = granted[new.login]
    BY <2>1 DEF Tokens!Refreshed, TokenInv, Tokens!TokensKept, Tokens!TypeOK, Tokens!SpentOnce, Tokens!StoredIsTaken,
       Tokens!ReturnsLater, Tokens!WaitsForLookup, HeldAreKnown, ReadIsEarlier, AskedIsTaken,
       Tokens!Tokens, Tokens!Logins, Tokens!NoLookup, Known, Waiting
  <2> HIDE DEF new
  <2>3. \A c \in Callers : caller[c].stage = "waiting" /\ new.login = caller[c].row.login =>
           caller[c].row.refreshed <= new.refreshed
    BY <2>2 DEF TokenInv, ReadIsEarlier, Waiting, Known
  <2>4. CASE row = NoRow
    BY <2>1, <2>2, <2>3, <2>4, Completed DEF Known
  <2>5. CASE row # NoRow
    <3>1. row' = new
      BY <2>1, <2>5
    <3> QED BY <2>1, <2>2, <2>3, <3>1, Completed DEF Known
  <2> QED BY <2>1, <2>4, <2>5
<1>7. CASE Tokens!Login
  <2>1. PICK n \in 1..MaxLogins : Tokens!Logins = 1..n
    BY DEF TokenInv, HeldAreKnown
  <2> DEFINE l == CHOOSE l \in 1..MaxLogins : l \notin Tokens!Logins /\ \A k \in 1..l - 1 : k \in Tokens!Logins
  <2>2. n + 1 \in 1..MaxLogins
    BY <1>7, <2>1 DEF Tokens!Login
  <2>3. l = n + 1
    BY <2>1, <2>2
  <2>4. /\ row' = [login |-> n + 1, refreshed |-> 0]
        /\ granted' = [k \in 1..n + 1 |-> IF k = n + 1 THEN 0 ELSE granted[k]]
        /\ UNCHANGED <<expired, caller, lookup, lost, reused>>
    <3> HIDE DEF l
    <3>1. Tokens!Logins \cup {l} = 1..n + 1
      BY <2>1, <2>2, <2>3
    <3> QED BY <1>7, <2>3, <3>1 DEF Tokens!Login, l
  <2>5. Tokens!Logins' = 1..n + 1 /\ granted'[n + 1] = 0 /\ \A k \in Tokens!Logins : k # n + 1 /\ granted'[k] = granted[k]
    BY <2>1, <2>4 DEF Tokens!Logins
  <2> HIDE DEF l
  <2>6. \A token : Known(token) => /\ Known(token)'
                                  /\ token.login # n + 1
                                  /\ granted'[token.login] = granted[token.login]
    BY <2>1, <2>2, <2>5 DEF Known, Tokens!Tokens
  <2>7. Known(row)' /\ row'.refreshed = granted'[row'.login] /\ row'.login = n + 1
    BY <2>2, <2>4, <2>5 DEF Known, Tokens!Tokens
  <2>8. Tokens!TypeOK'
    BY <2>1, <2>2, <2>4, <2>5, <2>7 DEF TokenInv, Tokens!TokensKept, Tokens!TypeOK, Tokens!Tokens, Known
  <2>9. Tokens!SpentOnce' /\ Tokens!StoredIsTaken' /\ Tokens!ReturnsLater' /\ Tokens!WaitsForLookup'
    BY <2>4, <2>7 DEF TokenInv, Tokens!TokensKept, Tokens!SpentOnce, Tokens!StoredIsTaken, Tokens!ReturnsLater,
                      Tokens!WaitsForLookup
  <2>10. HeldAreKnown'
    BY <2>2, <2>4, <2>5, <2>6, <2>7 DEF TokenInv, HeldAreKnown
  <2>11. ReadIsEarlier' /\ AskedIsTaken'
    BY <2>4, <2>6, <2>7 DEF TokenInv, HeldAreKnown, ReadIsEarlier, Waiting, AskedIsTaken, Known
  <2>12. granted' # granted
    BY <2>1, <2>5 DEF Tokens!Logins
  <2> QED BY <2>8, <2>9, <2>10, <2>11, <2>12 DEF TokenInv, Tokens!TokensKept
<1>8. CASE Tokens!Remove
  BY <1>8 DEF Tokens!Remove, TokenInv, Tokens!TokensKept, Tokens!TypeOK, Tokens!SpentOnce, Tokens!StoredIsTaken,
       Tokens!ReturnsLater, Tokens!WaitsForLookup, HeldAreKnown, ReadIsEarlier, AskedIsTaken,
       Tokens!Tokens, Tokens!Logins, Tokens!NoLookup, Known, Waiting
<1>9. CASE Tokens!Expire
  BY <1>9 DEF Tokens!Expire, Tokens!Fresh, Tokens!Refreshed, TokenInv, Tokens!TokensKept, Tokens!TypeOK, Tokens!SpentOnce, Tokens!StoredIsTaken,
       Tokens!ReturnsLater, Tokens!WaitsForLookup, HeldAreKnown, ReadIsEarlier, AskedIsTaken,
       Tokens!Tokens, Tokens!Logins, Tokens!NoLookup, Known, Waiting
<1>10. CASE UNCHANGED tokenVars
  BY <1>10 DEF tokenVars, TokenInv, Tokens!TokensKept, Tokens!TypeOK, Tokens!SpentOnce, Tokens!StoredIsTaken,
       Tokens!ReturnsLater, Tokens!WaitsForLookup, HeldAreKnown, ReadIsEarlier, AskedIsTaken,
       Tokens!Tokens, Tokens!Logins, Tokens!NoLookup, Known, Waiting
<1> QED BY <1>1, <1>2, <1>3, <1>4, <1>5, <1>6, <1>7, <1>8, <1>9, <1>10 DEF Tokens!Next, Tokens!GoesOn

\* A refresh token is spent once and the stored one is the one that the server takes,
\* unless an answer was lost; who has found it expired gets a later one (resolveAccess,
\* the cache of refreshes and persistToken of account/account.ts and account/repo.ts).  A
\* refresh that ends late does not bring a removed account back.
THEOREM TokensAreKept ==
  ASSUME MaxLogins \in Nat \ {0}, MaxRefreshes \in Nat
  PROVE  Spec => []TokensKept /\ Tokens!RemovedStays
<1> DEFINE Step == row = NoRow /\ row' # NoRow => granted' # granted
<1>1. Init => TokenInv
  BY InitTokenInv, Starts DEF PartsStart
<1>2. TokenInv /\ [Next]_vars => TokenInv' /\ Step
  BY NextTokenInv, Steps DEF PartsStep
<1>3. TokenInv => TokensKept
  BY DEF TokenInv, TokensKept
<1>4. [][Step]_tokenVars => Tokens!RemovedStays
  BY PTL DEF Tokens!RemovedStays, Tokens!tokenVars, tokenVars
<1> HIDE DEF Step
<1> QED BY <1>1, <1>2, <1>3, <1>4, PTL DEF Spec

-----------------------------------------------------------------------------
(* The agent of a session *)

Ongoing == {"auth", "handshake", "closing"}

\* An entry is its session's, and so is a spawn under way, of which a session has one and
\* then no entry.
OwnSpawns ==
    /\ \A s \in Sessions : entries[s] # 0 =>
          spawns[entries[s]].session = s /\ spawns[entries[s]].stage = "entry"
    /\ \A s \in Sessions : pending[s] # 0 =>
          spawns[pending[s]].session = s /\ spawns[pending[s]].stage \in Ongoing /\ entries[s] = 0
    /\ \A n \in Pool!Spawns : spawns[n].stage \in Ongoing =>
          spawns[n].session \in Sessions /\ pending[spawns[n].session] = n

\* A spawn is made for a turn.
TurnsJoin == \A n \in Pool!Spawns : spawns[n].stage \in Ongoing => spawns[n].joined # <<>>

\* What runs is an agent that shakes hands, or has its entry.
RunsForSession ==
    \A n \in Pool!Spawns : agent[n] = "running" =>
        \/ spawns[n].stage = "handshake"
        \/ spawns[n].stage = "entry" /\ spawns[n].session \in Sessions /\ entries[spawns[n].session] = n

PoolInv == Pool!TypeOK /\ OwnSpawns /\ TurnsJoin /\ RunsForSession /\ Pool!LatestHears

SpawnStages == {"none", "auth", "handshake", "entry", "closing", "failed", "evicted"}
SpawnRecords == [session : Sessions \cup {Pool!Nobody}, joined : Seq(Turns), stage : SpawnStages]

\* The steps of a spawn change its stage only.
LEMMA StageChanges ==
  ASSUME Pool!TypeOK, NEW n \in Pool!Spawns, NEW next \in SpawnStages, spawns' = [spawns EXCEPT ![n].stage = next]
  PROVE  /\ spawns' \in [Pool!Spawns -> SpawnRecords]
         /\ \A m \in Pool!Spawns :
              /\ spawns'[m].session = spawns[m].session /\ spawns'[m].joined = spawns[m].joined
              /\ spawns'[m].stage = IF m = n THEN next ELSE spawns[m].stage
BY DEF Pool!TypeOK, SpawnStages, SpawnRecords

LEMMA InitPoolInv == ASSUME MaxSpawns \in Nat, Pool!Init PROVE PoolInv
<1>1. 0 \in 0..MaxSpawns
  OBVIOUS
<1> QED BY <1>1 DEF Pool!Init, PoolInv, Pool!TypeOK, Pool!Spawns, OwnSpawns, TurnsJoin, Ongoing, RunsForSession,
                    Pool!LatestHears, Pool!Nobody

LEMMA NextPoolInv ==
  ASSUME MaxSpawns \in Nat, PoolInv, [Pool!Next]_poolVars PROVE PoolInv'
<1>0. /\ entries \in [Sessions -> 0..MaxSpawns] /\ pending \in [Sessions -> 0..MaxSpawns]
      /\ \A s \in Sessions : (entries[s] # 0 => entries[s] \in Pool!Spawns) /\ (pending[s] # 0 => pending[s] \in Pool!Spawns)
      /\ agent \in [Pool!Spawns -> {"none", "running", "terminated", "exited"}]
      /\ 0 \notin Pool!Spawns
  BY DEF PoolInv, Pool!TypeOK, Pool!Spawns
<1>1. ASSUME NEW t \in Turns, NEW s \in Sessions, Pool!Reuse(t, s) PROVE PoolInv'
  BY <1>1 DEF Pool!Reuse,
     PoolInv, Pool!TypeOK, Pool!Spawns, OwnSpawns, TurnsJoin, Ongoing, RunsForSession, Pool!LatestHears, Pool!Joined
<1>2. ASSUME NEW t \in Turns, NEW s \in Sessions, Pool!Join(t, s) PROVE PoolInv'
  <2> DEFINE n == pending[s]
             joined == Append(spawns[n].joined, t)
  <2>1. /\ n \in Pool!Spawns /\ turns' = [turns EXCEPT ![t] = "waiting"]
        /\ spawns' = [spawns EXCEPT ![n].joined = joined]
        /\ UNCHANGED <<entries, pending, agent, handler, latest>>
    BY <1>0, <1>2 DEF Pool!Join
  <2>2. joined \in Seq(Turns) /\ joined # <<>>
    <3>1. spawns[n].joined \in Seq(Turns)
      BY <2>1 DEF PoolInv, Pool!TypeOK
    <3> QED BY <3>1, AppendProperties
  <2> HIDE DEF n, joined
  <2>3. /\ spawns' \in [Pool!Spawns -> SpawnRecords]
        /\ \A m \in Pool!Spawns :
             /\ spawns'[m].session = spawns[m].session /\ spawns'[m].stage = spawns[m].stage
             /\ spawns'[m].joined = IF m = n THEN joined ELSE spawns[m].joined
    BY <2>1, <2>2 DEF PoolInv, Pool!TypeOK, SpawnRecords, SpawnStages
  <2>4. Pool!TypeOK'
    BY <2>1, <2>3 DEF PoolInv, Pool!TypeOK, SpawnRecords, SpawnStages
  <2>5. OwnSpawns'
    BY <1>0, <2>1, <2>3 DEF PoolInv, OwnSpawns, Ongoing
  <2>6. TurnsJoin'
    BY <2>1, <2>2, <2>3 DEF PoolInv, TurnsJoin, Ongoing
  <2>7. RunsForSession' /\ Pool!LatestHears'
    BY <1>0, <2>1, <2>3 DEF PoolInv, OwnSpawns, Ongoing, RunsForSession, Pool!LatestHears
  <2> QED BY <2>4, <2>5, <2>6, <2>7 DEF PoolInv
<1>3. ASSUME NEW t \in Turns, NEW s \in Sessions, Pool!Spawn(t, s) PROVE PoolInv'
  <2>1. PICK n \in Pool!Unused :
          /\ turns' = [turns EXCEPT ![t] = "waiting"]
          /\ pending' = [pending EXCEPT ![s] = n]
          /\ spawns' = [spawns EXCEPT ![n] = [session |-> s, stage |-> "auth", joined |-> <<t>>]]
    BY <1>3 DEF Pool!Spawn
  <2>2. /\ n \in Pool!Spawns /\ spawns[n].stage = "none" /\ entries[s] = 0 /\ pending[s] = 0
        /\ UNCHANGED <<entries, agent, handler, latest>>
    BY <1>3 DEF Pool!Spawn, Pool!Unused
  <2>3. <<t>> \in Seq(Turns) /\ <<t>> # <<>>
    OBVIOUS
  <2>4. /\ spawns' \in [Pool!Spawns -> SpawnRecords]
        /\ \A m \in Pool!Spawns :
             /\ spawns'[m].session = IF m = n THEN s ELSE spawns[m].session
             /\ spawns'[m].stage = IF m = n THEN "auth" ELSE spawns[m].stage
             /\ spawns'[m].joined = IF m = n THEN <<t>> ELSE spawns[m].joined
    BY <2>1, <2>2, <2>3 DEF PoolInv, Pool!TypeOK, SpawnRecords, SpawnStages
  <2>5. Pool!TypeOK'
    BY <2>1, <2>2, <2>4 DEF PoolInv, Pool!TypeOK, Pool!Spawns, SpawnRecords, SpawnStages
  <2>6. OwnSpawns'
    BY <1>0, <2>1, <2>2, <2>4 DEF PoolInv, OwnSpawns, Ongoing
  <2>7. TurnsJoin'
    BY <2>2, <2>3, <2>4 DEF PoolInv, TurnsJoin, Ongoing
  <2>8. RunsForSession' /\ Pool!LatestHears'
    BY <1>0, <2>1, <2>2, <2>4 DEF PoolInv, OwnSpawns, Ongoing, RunsForSession, Pool!LatestHears
  <2> QED BY <2>5, <2>6, <2>7, <2>8 DEF PoolInv
<1>4. ASSUME NEW n \in Pool!Spawns, Pool!Authorized(n) PROVE PoolInv'
  <2>1. /\ spawns[n].stage = "auth" /\ agent' = [agent EXCEPT ![n] = "running"]
        /\ UNCHANGED <<entries, pending, turns, handler, latest>>
    BY <1>4 DEF Pool!Authorized
  <2>2. /\ spawns' \in [Pool!Spawns -> SpawnRecords]
        /\ \A m \in Pool!Spawns :
             /\ spawns'[m].session = spawns[m].session /\ spawns'[m].joined = spawns[m].joined
             /\ spawns'[m].stage = IF m = n THEN "handshake" ELSE spawns[m].stage
    BY <1>4, StageChanges DEF PoolInv, Pool!Authorized, SpawnStages
  <2>3. Pool!TypeOK'
    BY <2>1, <2>2 DEF PoolInv, Pool!TypeOK, Pool!Spawns, OwnSpawns, Ongoing, SpawnRecords, SpawnStages
  <2>4. OwnSpawns'
    BY <1>0, <2>1, <2>2 DEF PoolInv, OwnSpawns, Ongoing
  <2>5. TurnsJoin'
    BY <2>1, <2>2 DEF PoolInv, TurnsJoin, Ongoing
  <2>6. RunsForSession' /\ Pool!LatestHears'
    BY <1>0, <2>1, <2>2 DEF PoolInv, OwnSpawns, Ongoing, RunsForSession, Pool!LatestHears
  <2> QED BY <2>3, <2>4, <2>5, <2>6 DEF PoolInv
<1>5. ASSUME NEW n \in Pool!Spawns, Pool!Refused(n) PROVE PoolInv'
  <2>1. /\ spawns[n].stage = "auth" /\ UNCHANGED <<entries, agent, handler, latest>>
        /\ turns' = [t \in Turns |-> IF t \in Pool!Joined(n) THEN "failed" ELSE turns[t]]
        /\ pending' = [s \in Sessions |-> IF pending[s] = n THEN 0 ELSE pending[s]]
    BY <1>5 DEF Pool!Refused, Pool!Settle
  <2>2. /\ spawns' \in [Pool!Spawns -> SpawnRecords]
        /\ \A m \in Pool!Spawns :
             /\ spawns'[m].session = spawns[m].session /\ spawns'[m].joined = spawns[m].joined
             /\ spawns'[m].stage = IF m = n THEN "failed" ELSE spawns[m].stage
    BY <1>5, StageChanges DEF PoolInv, Pool!Refused, SpawnStages
  <2>3. Pool!TypeOK'
    BY <2>1, <2>2 DEF PoolInv, Pool!TypeOK, Pool!Spawns, OwnSpawns, Ongoing, SpawnRecords, SpawnStages
  <2>4. OwnSpawns'
    BY <1>0, <2>1, <2>2 DEF PoolInv, OwnSpawns, Ongoing
  <2>5. TurnsJoin'
    BY <2>1, <2>2 DEF PoolInv, TurnsJoin, Ongoing
  <2>6. RunsForSession' /\ Pool!LatestHears'
    BY <1>0, <2>1, <2>2 DEF PoolInv, OwnSpawns, Ongoing, RunsForSession, Pool!LatestHears
  <2> QED BY <2>3, <2>4, <2>5, <2>6 DEF PoolInv
<1>6. ASSUME NEW n \in Pool!Spawns, Pool!Created(n) PROVE PoolInv'
  <2> DEFINE heard == Pool!Last(spawns[n].joined)
  <2>1. /\ spawns[n].stage = "handshake" /\ agent[n] = "running" /\ UNCHANGED agent
        /\ entries' = [entries EXCEPT ![spawns[n].session] = n]
        /\ handler' = [handler EXCEPT ![n] = heard]
        /\ latest' = [latest EXCEPT ![spawns[n].session] = heard]
        /\ turns' = [t \in Turns |-> IF t \in Pool!Joined(n) THEN "acquired" ELSE turns[t]]
        /\ pending' = [s \in Sessions |-> IF pending[s] = n THEN 0 ELSE pending[s]]
    BY <1>6 DEF Pool!Created, Pool!Settle
  <2>2. /\ spawns' \in [Pool!Spawns -> SpawnRecords]
        /\ \A m \in Pool!Spawns :
             /\ spawns'[m].session = spawns[m].session /\ spawns'[m].joined = spawns[m].joined
             /\ spawns'[m].stage = IF m = n THEN "entry" ELSE spawns[m].stage
    BY <1>6, StageChanges DEF PoolInv, Pool!Created, SpawnStages
  <2>0. heard \in Turns
    <3>1. spawns[n].joined \in Seq(Turns) /\ spawns[n].joined # <<>>
      BY <2>1 DEF PoolInv, Pool!TypeOK, TurnsJoin, Ongoing
    <3> QED BY <3>1 DEF Pool!Last
  <2> HIDE DEF heard
  <2>3. Pool!TypeOK'
    BY <2>0, <2>1, <2>2 DEF PoolInv, Pool!TypeOK, Pool!Spawns, OwnSpawns, Ongoing, SpawnRecords, SpawnStages
  <2>4. OwnSpawns'
    BY <1>0, <2>1, <2>2 DEF PoolInv, OwnSpawns, Ongoing
  <2>5. TurnsJoin'
    BY <2>1, <2>2 DEF PoolInv, TurnsJoin, Ongoing
  <2>6. RunsForSession' /\ Pool!LatestHears'
    BY <1>0, <2>0, <2>1, <2>2 DEF PoolInv, OwnSpawns, Ongoing, Pool!TypeOK, RunsForSession, Pool!LatestHears
  <2> QED BY <2>3, <2>4, <2>5, <2>6 DEF PoolInv
<1>7. ASSUME NEW n \in Pool!Spawns, Pool!HandshakeFails(n) PROVE PoolInv'
  <2>1. /\ spawns[n].stage = "handshake" /\ UNCHANGED <<entries, pending, turns, handler, latest>>
        /\ agent' = [agent EXCEPT ![n] = IF agent[n] = "running" THEN "terminated" ELSE agent[n]]
    BY <1>7 DEF Pool!HandshakeFails
  <2>2. /\ spawns' \in [Pool!Spawns -> SpawnRecords]
        /\ \A m \in Pool!Spawns :
             /\ spawns'[m].session = spawns[m].session /\ spawns'[m].joined = spawns[m].joined
             /\ spawns'[m].stage = IF m = n THEN "closing" ELSE spawns[m].stage
    BY <1>7, StageChanges DEF PoolInv, Pool!HandshakeFails, SpawnStages
  <2>3. Pool!TypeOK'
    BY <2>1, <2>2 DEF PoolInv, Pool!TypeOK, Pool!Spawns, OwnSpawns, Ongoing, SpawnRecords, SpawnStages
  <2>4. OwnSpawns'
    BY <1>0, <2>1, <2>2 DEF PoolInv, OwnSpawns, Ongoing
  <2>5. TurnsJoin'
    BY <2>1, <2>2 DEF PoolInv, TurnsJoin, Ongoing
  <2>6. RunsForSession' /\ Pool!LatestHears'
    BY <1>0, <2>1, <2>2 DEF PoolInv, OwnSpawns, Ongoing, RunsForSession, Pool!LatestHears
  <2> QED BY <2>3, <2>4, <2>5, <2>6 DEF PoolInv
<1>8. ASSUME NEW n \in Pool!Spawns, Pool!FailureClosed(n) PROVE PoolInv'
  <2>1. /\ spawns[n].stage = "closing" /\ agent[n] = "exited" /\ UNCHANGED <<entries, agent, handler, latest>>
        /\ turns' = [t \in Turns |-> IF t \in Pool!Joined(n) THEN "failed" ELSE turns[t]]
        /\ pending' = [s \in Sessions |-> IF pending[s] = n THEN 0 ELSE pending[s]]
    BY <1>8 DEF Pool!FailureClosed, Pool!Settle
  <2>2. /\ spawns' \in [Pool!Spawns -> SpawnRecords]
        /\ \A m \in Pool!Spawns :
             /\ spawns'[m].session = spawns[m].session /\ spawns'[m].joined = spawns[m].joined
             /\ spawns'[m].stage = IF m = n THEN "failed" ELSE spawns[m].stage
    BY <1>8, StageChanges DEF PoolInv, Pool!FailureClosed, SpawnStages
  <2>3. Pool!TypeOK'
    BY <2>1, <2>2 DEF PoolInv, Pool!TypeOK, Pool!Spawns, OwnSpawns, Ongoing, SpawnRecords, SpawnStages
  <2>4. OwnSpawns'
    BY <1>0, <2>1, <2>2 DEF PoolInv, OwnSpawns, Ongoing
  <2>5. TurnsJoin'
    BY <2>1, <2>2 DEF PoolInv, TurnsJoin, Ongoing
  <2>6. RunsForSession' /\ Pool!LatestHears'
    BY <1>0, <2>1, <2>2 DEF PoolInv, OwnSpawns, Ongoing, RunsForSession, Pool!LatestHears
  <2> QED BY <2>3, <2>4, <2>5, <2>6 DEF PoolInv
<1>9. ASSUME NEW s \in Sessions, Pool!Release(s) PROVE PoolInv'
  BY <1>9 DEF Pool!Release, Pool!Shutdown,
     PoolInv, Pool!TypeOK, Pool!Spawns, OwnSpawns, TurnsJoin, Ongoing, RunsForSession, Pool!LatestHears, Pool!Joined
<1>10. CASE Pool!CloseAll
  BY <1>10 DEF Pool!CloseAll, Pool!Shutdown,
     PoolInv, Pool!TypeOK, Pool!Spawns, OwnSpawns, TurnsJoin, Ongoing, RunsForSession, Pool!LatestHears, Pool!Joined
<1>11. ASSUME NEW n \in Pool!Spawns, Pool!Exit(n) PROVE PoolInv'
  BY <1>11 DEF Pool!Exit,
     PoolInv, Pool!TypeOK, Pool!Spawns, OwnSpawns, TurnsJoin, Ongoing, RunsForSession, Pool!LatestHears, Pool!Joined
<1>12. ASSUME NEW n \in Pool!Spawns, Pool!Evict(n) PROVE PoolInv'
  <2>1. /\ spawns[n].stage = "entry" /\ agent[n] = "exited" /\ UNCHANGED <<pending, agent, turns, handler, latest>>
        /\ entries' = [s \in Sessions |-> IF entries[s] = n THEN 0 ELSE entries[s]]
    BY <1>12 DEF Pool!Evict
  <2>2. /\ spawns' \in [Pool!Spawns -> SpawnRecords]
        /\ \A m \in Pool!Spawns :
             /\ spawns'[m].session = spawns[m].session /\ spawns'[m].joined = spawns[m].joined
             /\ spawns'[m].stage = IF m = n THEN "evicted" ELSE spawns[m].stage
    BY <1>12, StageChanges DEF PoolInv, Pool!Evict, SpawnStages
  <2>3. Pool!TypeOK'
    BY <2>1, <2>2 DEF PoolInv, Pool!TypeOK, Pool!Spawns, OwnSpawns, Ongoing, SpawnRecords, SpawnStages
  <2>4. OwnSpawns'
    BY <1>0, <2>1, <2>2 DEF PoolInv, OwnSpawns, Ongoing
  <2>5. TurnsJoin'
    BY <2>1, <2>2 DEF PoolInv, TurnsJoin, Ongoing
  <2>6. RunsForSession' /\ Pool!LatestHears'
    BY <1>0, <2>1, <2>2 DEF PoolInv, OwnSpawns, Ongoing, RunsForSession, Pool!LatestHears
  <2> QED BY <2>3, <2>4, <2>5, <2>6 DEF PoolInv
<1>13. CASE UNCHANGED poolVars
  BY <1>13 DEF poolVars,
     PoolInv, Pool!TypeOK, Pool!Spawns, OwnSpawns, TurnsJoin, Ongoing, RunsForSession, Pool!LatestHears, Pool!Joined
<1> QED BY <1>1, <1>2, <1>3, <1>4, <1>5, <1>6, <1>7, <1>8, <1>9, <1>10, <1>11, <1>12, <1>13
        DEF Pool!Next, Pool!GoesOn, Pool!SpawnStep, Pool!Stops

\* A session has one agent process, its entry or the one that its turns wait for, and the
\* turn that came last hears it (acquire, release and the eviction of
\* acp-client/session-pool.ts).
THEOREM SessionHasOneAgent ==
  ASSUME MaxSpawns \in Nat PROVE Spec => []Pool!OneAgent
<1>1. Init => PoolInv
  BY InitPoolInv, Starts DEF PartsStart
<1>2. PoolInv /\ [Next]_vars => PoolInv'
  BY NextPoolInv, Steps DEF PartsStep
<1>3. PoolInv => Pool!OneAgent
  BY DEF PoolInv, Pool!OneAgent, Pool!NoGhosts, OwnSpawns, Ongoing, RunsForSession
<1> QED BY <1>1, <1>2, <1>3, PTL DEF Spec

-----------------------------------------------------------------------------
(* What an agent says in a turn *)

\* A call is known when it has a part, which runs until the call has an outcome.
CallsHaveParts ==
    \A c \in AgentCalls :
        /\ c \in known <=> session.part[c] # "none"
        /\ c \in known /\ outcome[c] = "none" => session.part[c] = "running"

SessionRecords == [open : SUBSET Adapter!Passages, stored : [Adapter!Passages -> Nat],
                   part : [AgentCalls -> {"none", "running", "completed", "failed"}]]

AdapterInv ==
    /\ Adapter!TypeOK /\ Adapter!PassagesAgree /\ Adapter!OutcomeIsStored /\ CallsHaveParts
    /\ session \in SessionRecords

LEMMA InitAdapterInv == ASSUME Adapter!Init PROVE AdapterInv
BY DEF Adapter!Init, AdapterInv, Adapter!TypeOK, Adapter!PassagesAgree, Adapter!OutcomeIsStored, CallsHaveParts,
       Adapter!Open, Adapter!Passages, SessionRecords

LEMMA NextAdapterInv == ASSUME AdapterInv, [Adapter!Next]_adapterVars PROVE AdapterInv'
<1> USE DEF AdapterInv, Adapter!TypeOK, Adapter!PassagesAgree, Adapter!OutcomeIsStored, CallsHaveParts, Adapter!Open,
            Adapter!Close, Adapter!EndOpen, Adapter!End
<1>1. ASSUME NEW p \in Adapter!Passages, Adapter!Chunk(p) PROVE AdapterInv'
  <2> DEFINE other == Adapter!Passages \ {p}
  <2> DEFINE new == passage[p] = "none"
  <2> DEFINE ended == Adapter!EndOpen(session, other)
  <2>1. /\ said' = [said EXCEPT ![p] = @ + 1]
        /\ passage' = [Adapter!Close(other) EXCEPT ![p] = IF new THEN "open" ELSE @]
        /\ session' = Adapter!Delta(IF new THEN Adapter!Start(ended, p) ELSE ended, p)
        /\ UNCHANGED <<known, outcome, over>> /\ ~over
    BY <1>1 DEF Adapter!Chunk
  <2>2. /\ ended \in SessionRecords /\ ended.open = session.open \ other /\ ended.part = session.part
    BY DEF SessionRecords
  <2>3. /\ session' \in SessionRecords /\ session'.part = session.part
        /\ session'.open = (session.open \ other) \cup (IF new THEN {p} ELSE {})
    <3> HIDE DEF ended, other
    <3> QED BY <1>1, <2>1, <2>2 DEF Adapter!Start, Adapter!Delta, SessionRecords
  <2>4. passage' \in [Adapter!Passages -> {"none", "open", "closed"}] /\ session'.open = Adapter!Open'
    BY <1>1, <2>1, <2>3
  <2> QED BY <2>1, <2>3, <2>4
<1>2. ASSUME NEW c \in AgentCalls, NEW s \in Adapter!Statuses, Adapter!ToolStart(c, s) PROVE AdapterInv'
  <2> DEFINE ended == Adapter!EndOpen(session, Adapter!Passages)
  <2>1. /\ known' = known \cup {c} /\ passage' = Adapter!Close(Adapter!Passages) /\ ~over /\ UNCHANGED over
        /\ session' = Adapter!Answer(Adapter!Call(ended, c), c, s) /\ outcome' = Adapter!Final(c, s) /\ outcome[c] = "none"
    BY <1>2 DEF Adapter!ToolStart
  <2>2. /\ ended \in SessionRecords /\ ended.open = {} /\ ended.part = session.part
    BY DEF SessionRecords
  <2>3. /\ session' \in SessionRecords /\ session'.open = {}
        /\ session'.part = [session.part EXCEPT ![c] = IF s = "pending" THEN "running" ELSE s]
    <3> HIDE DEF ended
    <3> QED BY <1>2, <2>1, <2>2 DEF Adapter!Answer, Adapter!Call, Adapter!Result, SessionRecords, Adapter!Statuses
  <2>4. passage' \in [Adapter!Passages -> {"none", "open", "closed"}] /\ Adapter!Open' = {}
    BY <2>1
  <2>5. outcome' = IF s = "pending" THEN outcome ELSE [outcome EXCEPT ![c] = s]
    BY <2>1 DEF Adapter!Final
  <2>6. session.part \in [AgentCalls -> {"none", "running", "completed", "failed"}] /\ s \in {"pending", "completed", "failed"}
    BY <1>2 DEF SessionRecords, Adapter!Statuses
  <2>7. Adapter!OutcomeIsStored' /\ CallsHaveParts'
    <3>1. \A d \in AgentCalls \ {c} : session'.part[d] = session.part[d] /\ outcome'[d] = outcome[d] /\ (d \in known' <=> d \in known)
      BY <1>2, <2>1, <2>3, <2>5, <2>6
    <3>2. /\ c \in known' /\ session'.part[c] = (IF s = "pending" THEN "running" ELSE s)
          /\ outcome'[c] = (IF s = "pending" THEN "none" ELSE s)
      BY <1>2, <2>1, <2>3, <2>5, <2>6
    <3> QED BY <1>2, <2>6, <3>1, <3>2
  <2>8. outcome' \in [AgentCalls -> {"none", "completed", "failed"}] /\ known' \subseteq AgentCalls
    BY <1>2, <2>1, <2>5, <2>6
  <2>9. session'.open \subseteq Adapter!Passages /\ session'.part \in [AgentCalls -> {"none", "running", "completed", "failed"}]
    BY <2>3 DEF SessionRecords
  <2> QED BY <2>1, <2>3, <2>4, <2>7, <2>8, <2>9
<1>3. ASSUME NEW c \in AgentCalls, NEW s \in Adapter!Statuses, Adapter!ToolUpdate(c, s) PROVE AdapterInv'
  BY <1>3 DEF SessionRecords, Adapter!ToolUpdate, Adapter!Answer, Adapter!Result, Adapter!Final, Adapter!Statuses
<1>4. ASSUME Adapter!TurnOver PROVE AdapterInv'
  BY <1>4 DEF SessionRecords, Adapter!TurnOver
<1>5. ASSUME UNCHANGED adapterVars PROVE AdapterInv'
  BY <1>5 DEF adapterVars
<1> QED BY <1>1, <1>2, <1>3, <1>4, <1>5 DEF Adapter!Next

\* What an agent says and the outcomes of its calls are in the session as the agent gave
\* them, and nothing is open when the turn is over (acp-client/event-adapter.ts).
THEOREM SessionHasOutcomes == Spec => []Adapter!SessionFollowsAgent
<1>1. Init => AdapterInv
  BY InitAdapterInv, Starts DEF PartsStart
<1>2. AdapterInv /\ [Next]_vars => AdapterInv'
  BY NextAdapterInv, Steps DEF PartsStep
<1>3. AdapterInv => Adapter!SessionFollowsAgent
  BY DEF AdapterInv, Adapter!SessionFollowsAgent
<1> QED BY <1>1, <1>2, <1>3, PTL DEF Spec

-----------------------------------------------------------------------------
(* The turns on a pooled connection *)

\* What a turn has been given, in its order.
Got(t) == yielded[t] \o waiting[t]

Closed(t) == prompt[t].state \in {"answered", "failed"}
Clean(t) == \A s \in 1..t - 1 : ending[s] # "aborted"

Heard == Turn!TurnIds \X (Nat \ {0})
Queues == [buffer : Nat, done : BOOLEAN, failed : BOOLEAN]
PromptRecords == [sent : Nat, state : {"none", "open", "answered", "failed"}]

TurnTyped ==
    /\ turn \in 0..MaxTurns /\ bound = turn /\ routed \in 0..turn
    /\ at \in {"idle", "bound", "updates", "result"} /\ (turn = 0 => at = "idle")
    /\ waiting \in [Turn!TurnIds -> Seq(Heard)] /\ yielded \in [Turn!TurnIds -> Seq(Heard)]
    /\ queue \in [Turn!TurnIds -> Queues] /\ listens \in [Turn!TurnIds -> 0..MaxTurns]
    /\ prompt \in [Turn!TurnIds -> PromptRecords]
    /\ aborted \subseteq Turn!TurnIds
    /\ ending \in [Turn!TurnIds -> {"none", "finished", "aborted", "failed"}]

\* Nothing was asked of the agent in this turn.
Untouched(t) ==
    /\ listens[t] = 0 /\ queue[t] = Turn!NewQueue /\ prompt[t] = [sent |-> 0, state |-> "none"]
    /\ ending[t] = "none" /\ yielded[t] = <<>>

TurnsGoOn ==
    /\ \A t \in Turn!TurnIds : t > turn => Untouched(t) /\ waiting[t] = <<>>
    /\ at = "bound" => Untouched(turn) /\ routed < turn
    /\ \A t \in 1..turn : t < turn \/ at # "bound" =>
          prompt[t].state # "none" /\ listens[t] \in 1..t /\ routed # 0
    /\ \A t \in 1..turn : ending[t] = "none" <=> t = turn /\ at # "idle"

\* What a turn was given the agent has sent, and it was given to one turn once.
GotWasSent == \A t \in Turn!TurnIds : \A i \in DOMAIN Got(t) : Got(t)[i][2] <= prompt[Got(t)[i][1]].sent
GotOnce ==
    \A s, t \in Turn!TurnIds : \A i \in DOMAIN Got(s), j \in DOMAIN Got(t) : Got(s)[i] = Got(t)[j] => s = t /\ i = j

\* A turn without an aborted one before it has a queue of its own, which is done when
\* its prompt is, and has been given what the agent has sent for it.
CleanTurnIsAlone ==
    turn > 0 /\ Clean(turn) =>
        /\ \A s \in 1..turn - 1 : Closed(s) /\ queue[s].done
        /\ at = "bound" => Got(turn) = <<>>
        /\ at # "bound" => listens[turn] = turn /\ routed = turn /\ (queue[turn].done <=> Closed(turn))
        /\ at # "bound" => Got(turn) = Turn!Updates(turn)
        /\ at = "result" \/ ending[turn] \in {"finished", "failed"} => Closed(turn)
        /\ at = "result" \/ ending[turn] = "finished" => waiting[turn] = <<>>

\* What a turn that has finished yields stays, and the agent sends no more for it.
FinishedIsWhole == \A t \in Turn!TurnIds : ending[t] = "finished" /\ Clean(t) => Closed(t) /\ yielded[t] = Turn!Updates(t)

TurnInv == TurnTyped /\ TurnsGoOn /\ GotWasSent /\ GotOnce /\ CleanTurnIsAlone /\ FinishedIsWhole

LEMMA InitTurnInv == ASSUME MaxTurns \in Nat, Turn!Init PROVE TurnInv
<1>1. TurnTyped
  BY DEF Turn!Init, TurnTyped, Turn!NewQueue, Queues, PromptRecords, Turn!TurnIds
<1>2. TurnsGoOn
  BY DEF Turn!Init, TurnsGoOn, Untouched, Turn!TurnIds
<1>3. \A t \in Turn!TurnIds : Got(t) = <<>>
  BY DEF Turn!Init, Got
<1> QED BY <1>1, <1>2, <1>3 DEF Turn!Init, TurnInv, GotWasSent, GotOnce, CleanTurnIsAlone, FinishedIsWhole

\* What has been given has its turn and its number.
LEMMA GotTyped == ASSUME TurnTyped, NEW t \in Turn!TurnIds PROVE Got(t) \in Seq(Heard)
BY DEF TurnTyped, Got

\* A turn that is yielded to has what it had.
LEMMA FlushKeepsGot == ASSUME TurnTyped, turn \in Turn!TurnIds, Turn!Flush
  PROVE  /\ waiting' \in [Turn!TurnIds -> Seq(Heard)] /\ yielded' \in [Turn!TurnIds -> Seq(Heard)]
         /\ \A t \in Turn!TurnIds : Got(t)' = Got(t)
         /\ yielded'[turn] = Got(turn) /\ waiting'[turn] = <<>>
<1>1. waiting[turn] \in Seq(Heard) /\ yielded[turn] \in Seq(Heard)
  BY DEF TurnTyped
<1>2. <<>> \in Seq(Heard) /\ Got(turn) \in Seq(Heard)
  BY <1>1 DEF Got
<1>3. waiting' = [waiting EXCEPT ![turn] = <<>>] /\ yielded' = [yielded EXCEPT ![turn] = Got(turn)]
  BY DEF Turn!Flush, Got
<1>4. \A t \in Turn!TurnIds : Got(t)' = Got(t)
  <2>1. Got(turn) \o <<>> = Got(turn)
    BY <1>2
  <2> QED BY <1>3, <2>1 DEF TurnTyped, Got
<1> QED BY <1>1, <1>2, <1>3, <1>4 DEF TurnTyped

\* What finished turns and the current one have been given is not disturbed by steps that
\* give nothing.
LEMMA GotStays ==
  ASSUME TurnInv, \A t \in Turn!TurnIds : Got(t)' = Got(t), \A t \in Turn!TurnIds : prompt'[t].sent >= prompt[t].sent,
         TurnTyped'
  PROVE  GotWasSent' /\ GotOnce'
<1>1. GotOnce'
  BY DEF TurnInv, GotOnce
<1>2. ASSUME NEW t \in Turn!TurnIds, NEW i \in DOMAIN Got(t) PROVE Got(t)[i][2] <= prompt'[Got(t)[i][1]].sent
  <2>1. Got(t)[i] \in Heard
    BY <1>2, GotTyped DEF TurnInv
  <2>2. PICK u \in Turn!TurnIds, n \in Nat : Got(t)[i] = <<u, n>>
    BY <2>1 DEF Heard
  <2>3. prompt[u].sent \in Nat /\ prompt'[u].sent \in Nat
    BY <2>2 DEF TurnInv, TurnTyped, PromptRecords
  <2> QED BY <1>2, <2>2, <2>3 DEF TurnInv, GotWasSent
<1> QED BY <1>1, <1>2 DEF GotWasSent

\* Whom the agent serves has asked.
LEMMA ServedHasAsked ==
  ASSUME MaxTurns \in Nat, TurnInv, NEW t \in Turn!TurnIds, Turn!Serving(t)
  PROVE  /\ t \in 1..turn /\ (t < turn \/ at # "bound") /\ turn \in Turn!TurnIds /\ routed \in 1..turn
         /\ prompt[t].state = "open" /\ prompt[t].sent \in Nat /\ listens[t] \in 1..t
<1>1. prompt[t].state = "open" /\ prompt[t].sent \in Nat
  BY DEF Turn!Serving, TurnInv, TurnTyped, PromptRecords
<1>2. ~Untouched(t)
  BY <1>1 DEF Untouched
<1>3. turn \in 0..MaxTurns /\ t \in 1..MaxTurns /\ routed \in 0..turn
  BY DEF TurnInv, TurnTyped, Turn!TurnIds
<1>4. t \in 1..turn /\ (t < turn \/ at # "bound")
  BY <1>2, <1>3 DEF TurnInv, TurnsGoOn, Turn!TurnIds
<1>5. routed # 0 /\ listens[t] \in 1..t
  BY <1>4 DEF TurnInv, TurnsGoOn
<1> QED BY <1>1, <1>3, <1>4, <1>5 DEF Turn!TurnIds

\* The steps of the loop over updates() that yield what has come.
LEMMA Flushed ==
  ASSUME MaxTurns \in Nat, TurnInv, turn \in Turn!TurnIds, at = "updates", listens[turn] \in 1..turn, ending[turn] = "none",
         Turn!Flush, UNCHANGED <<turn, bound, routed, listens, prompt, aborted>>,
         queue' \in [Turn!TurnIds -> Queues], \A x \in Turn!TurnIds : queue'[x].done = queue[x].done,
         \A x \in Turn!TurnIds : x # listens[turn] => queue'[x] = queue[x],
         \/ at' = "updates" /\ ending' = ending
         \/ at' = "idle" /\ ending' = [ending EXCEPT ![turn] = "aborted"]
         \/ at' = "result" /\ ending' = ending /\ queue[listens[turn]].done
  PROVE  TurnInv'
<1> USE DEF Turn!TurnIds
<1>0. turn \in 1..MaxTurns /\ ending \in [Turn!TurnIds -> {"none", "finished", "aborted", "failed"}] /\ yielded \in [Turn!TurnIds -> Seq(Heard)]
  BY DEF TurnInv, TurnTyped
<1>1. /\ waiting' \in [Turn!TurnIds -> Seq(Heard)] /\ yielded' \in [Turn!TurnIds -> Seq(Heard)]
      /\ \A t \in Turn!TurnIds : Got(t)' = Got(t)
      /\ waiting'[turn] = <<>>
  BY FlushKeepsGot DEF TurnInv
<1>2. \A x \in Turn!TurnIds : x # turn => yielded'[x] = yielded[x] /\ waiting'[x] = waiting[x] /\ ending'[x] = ending[x]
  BY <1>0 DEF Turn!Flush, TurnInv, TurnTyped
<1>3. ending' \in [Turn!TurnIds -> {"none", "finished", "aborted", "failed"}] /\ ending'[turn] \in {"none", "aborted"}
      /\ (ending'[turn] = "none" <=> at' # "idle")
  BY <1>0
<1>4. TurnTyped'
  BY <1>0, <1>1, <1>3 DEF TurnInv, TurnTyped
<1>5. TurnsGoOn'
  <2>1. \A x \in Turn!TurnIds : x > turn => x # turn /\ x # listens[turn]
    BY <1>0
  <2>2. \A x \in Turn!TurnIds : x > turn => (Untouched(x)' <=> Untouched(x)) /\ waiting'[x] = waiting[x]
    BY <1>2, <2>1 DEF Untouched
  <2>3. \A x \in 1..turn : x \in Turn!TurnIds
    BY <1>0
  <2>4. \A x \in 1..turn : ending'[x] = "none" <=> x = turn /\ at' # "idle"
    BY <1>2, <1>3, <2>3 DEF TurnInv, TurnsGoOn
  <2> QED BY <2>2, <2>4 DEF TurnInv, TurnsGoOn
<1>6. GotWasSent' /\ GotOnce'
  <2>1. \A x \in Turn!TurnIds : prompt'[x].sent >= prompt[x].sent
    BY DEF TurnInv, TurnTyped, PromptRecords
  <2> QED BY <1>1, <1>4, <2>1, GotStays
<1>7. \A t \in 1..turn : Clean(t)' <=> Clean(t)
  <2>1. \A t \in 1..turn : \A x \in 1..t - 1 : x \in Turn!TurnIds /\ x # turn
    BY <1>0
  <2> QED BY <1>2, <2>1 DEF Clean
<1>8. CleanTurnIsAlone'
  <2>1. SUFFICES ASSUME Clean(turn) PROVE CleanTurnIsAlone'
    BY <1>0, <1>7 DEF CleanTurnIsAlone
  <2>2. /\ \A s \in 1..turn - 1 : Closed(s) /\ queue[s].done
        /\ listens[turn] = turn /\ routed = turn /\ (queue[turn].done <=> Closed(turn)) /\ Got(turn) = Turn!Updates(turn)
    BY <1>0, <2>1 DEF TurnInv, CleanTurnIsAlone
  <2>3. \A s \in 1..turn - 1 : s \in Turn!TurnIds
    BY <1>0
  <2>4. \A s \in 1..turn - 1 : Closed(s)' /\ queue'[s].done
    BY <2>2, <2>3 DEF Closed
  <2>5. Got(turn)' = Turn!Updates(turn)' /\ (Closed(turn)' <=> Closed(turn))
    BY <1>0, <1>1, <2>2 DEF Turn!Updates, Closed
  <2> QED BY <1>0, <1>1, <1>3, <2>2, <2>4, <2>5 DEF CleanTurnIsAlone
<1>9. FinishedIsWhole'
  <2>1. \A t \in Turn!TurnIds : ending'[t] = "finished" => t # turn /\ t \in 1..turn
    BY <1>0, <1>2, <1>3 DEF TurnInv, TurnsGoOn, Untouched
  <2> QED BY <1>2, <1>7, <2>1 DEF TurnInv, FinishedIsWhole, Closed, Turn!Updates
<1> QED BY <1>4, <1>5, <1>6, <1>8, <1>9 DEF TurnInv

\* The steps that end a turn and yield nothing.
LEMMA Ends ==
  ASSUME MaxTurns \in Nat, TurnInv, turn \in Turn!TurnIds, at \in {"updates", "result"}, ending[turn] = "none",
         Clean(turn) => Closed(turn), NEW how \in {"finished", "failed"}, how = "finished" => at = "result",
         at' = "idle", ending' = [ending EXCEPT ![turn] = how],
         UNCHANGED <<turn, bound, waiting, yielded, queue, routed, listens, prompt, aborted>>
  PROVE  TurnInv'
<1> USE DEF Turn!TurnIds
<1>0. turn \in 1..MaxTurns /\ ending \in [Turn!TurnIds -> {"none", "finished", "aborted", "failed"}] /\ yielded \in [Turn!TurnIds -> Seq(Heard)]
  BY DEF TurnInv, TurnTyped
<1>1. ending'[turn] = how /\ \A x \in Turn!TurnIds : x # turn => ending'[x] = ending[x]
  BY <1>0
<1>2. TurnTyped'
  BY <1>0 DEF TurnInv, TurnTyped
<1>3. TurnsGoOn'
  <2>1. \A x \in Turn!TurnIds : x > turn => x # turn
    BY <1>0
  <2>2. \A x \in Turn!TurnIds : x > turn => (Untouched(x)' <=> Untouched(x))
    BY <1>1, <2>1 DEF Untouched
  <2>3. \A x \in 1..turn : x \in Turn!TurnIds
    BY <1>0
  <2>4. \A x \in 1..turn : ending'[x] # "none"
    BY <1>1, <2>3 DEF TurnInv, TurnsGoOn
  <2> QED BY <2>2, <2>4 DEF TurnInv, TurnsGoOn
<1>4. GotWasSent' /\ GotOnce'
  <2>1. \A x \in Turn!TurnIds : Got(x)' = Got(x) /\ prompt'[x].sent >= prompt[x].sent
    BY DEF TurnInv, TurnTyped, Got, PromptRecords
  <2> QED BY <1>2, <2>1, GotStays
<1>5. \A t \in 1..turn : Clean(t)' <=> Clean(t)
  <2>1. \A t \in 1..turn : \A x \in 1..t - 1 : x \in Turn!TurnIds /\ x # turn
    BY <1>0
  <2> QED BY <1>1, <2>1 DEF Clean
<1>6. Clean(turn) => /\ \A s \in 1..turn - 1 : Closed(s) /\ queue[s].done
                     /\ listens[turn] = turn /\ routed = turn /\ (queue[turn].done <=> Closed(turn)) /\ Got(turn) = Turn!Updates(turn)
                     /\ Closed(turn) /\ (how = "finished" => waiting[turn] = <<>>)
  BY <1>0 DEF TurnInv, CleanTurnIsAlone
<1>7. CleanTurnIsAlone'
  BY <1>0, <1>1, <1>5, <1>6 DEF CleanTurnIsAlone, Closed, Got, Turn!Updates
<1>8. FinishedIsWhole'
  <2>1. Clean(turn) /\ how = "finished" => Closed(turn) /\ yielded[turn] = Turn!Updates(turn)
    <3>1. yielded[turn] \o <<>> = yielded[turn]
      BY <1>0
    <3> QED BY <1>6, <3>1 DEF Got
  <2>2. \A t \in Turn!TurnIds : ending'[t] = "finished" => t \in 1..turn
    BY <1>0, <1>1 DEF TurnInv, TurnsGoOn, Untouched
  <2> QED BY <1>0, <1>1, <1>5, <2>1, <2>2 DEF TurnInv, FinishedIsWhole, Closed, Turn!Updates
<1> QED BY <1>2, <1>3, <1>4, <1>7, <1>8 DEF TurnInv

LEMMA NextTurnInv == ASSUME MaxTurns \in Nat, TurnInv, [Turn!Next]_turnVars PROVE TurnInv'
<1> USE DEF Turn!TurnIds
<1>0. /\ turn \in 0..MaxTurns /\ bound = turn /\ routed \in 0..turn
      /\ waiting \in [Turn!TurnIds -> Seq(Heard)] /\ yielded \in [Turn!TurnIds -> Seq(Heard)]
      /\ queue \in [Turn!TurnIds -> Queues] /\ listens \in [Turn!TurnIds -> 0..MaxTurns]
      /\ prompt \in [Turn!TurnIds -> PromptRecords]
      /\ ending \in [Turn!TurnIds -> {"none", "finished", "aborted", "failed"}]
  BY DEF TurnInv, TurnTyped
<1>1. ASSUME Turn!Begin PROVE TurnInv'
  <2>1. TurnTyped'
    BY <1>1, <1>0 DEF Turn!Begin, TurnInv, TurnTyped
  <2>2. TurnsGoOn'
    <3>1. /\ at = "idle" /\ turn < MaxTurns /\ turn' = turn + 1 /\ at' = "bound"
          /\ UNCHANGED <<waiting, yielded, queue, routed, listens, prompt, aborted, ending>>
      BY <1>1 DEF Turn!Begin
    <3>2. \A t \in 1..turn : prompt[t].state # "none" /\ listens[t] \in 1..t /\ routed # 0 /\ ending[t] # "none"
      BY <1>0, <3>1 DEF TurnInv, TurnsGoOn
    <3>3. \A t \in Turn!TurnIds : t > turn => Untouched(t) /\ waiting[t] = <<>>
      BY DEF TurnInv, TurnsGoOn
    <3>4. \A t \in Turn!TurnIds : t > turn => Untouched(t)' /\ waiting'[t] = <<>>
      BY <3>1, <3>3 DEF Untouched
    <3>5. \A t \in 1..turn' : t = turn' \/ t \in 1..turn
      BY <1>0, <3>1
    <3>6. turn' \in Turn!TurnIds /\ ending'[turn'] = "none"
      BY <1>0, <3>1, <3>4 DEF Untouched
    <3>7. Untouched(turn)' /\ routed' < turn'
      BY <1>0, <3>1, <3>3 DEF Untouched
    <3>8. \A t \in 1..turn : t # turn' /\ t < turn' /\ 1..turn \subseteq 1..turn'
      BY <1>0, <3>1
    <3>9. \A t \in Turn!TurnIds : t > turn' => t > turn
      BY <1>0, <3>1
    <3>10. \A t \in 1..turn' : t < turn' => prompt'[t].state # "none" /\ listens'[t] \in 1..t /\ routed' # 0
      BY <3>1, <3>2, <3>5, <3>8
    <3>11. \A t \in 1..turn' : ending'[t] = "none" <=> t = turn'
      BY <3>1, <3>2, <3>5, <3>6, <3>8
    <3> QED BY <3>1, <3>4, <3>7, <3>9, <3>10, <3>11 DEF TurnsGoOn
  <2>3. GotWasSent' /\ GotOnce'
    BY <1>1, <1>0, <2>1, GotStays DEF Turn!Begin, Got, PromptRecords
  <2>4. turn' \in Turn!TurnIds /\ turn' > turn /\ Got(turn)' = <<>> /\ ending'[turn'] = "none"
    BY <1>1, <1>0 DEF Turn!Begin, TurnInv, TurnsGoOn, Untouched, Got
  <2>5. CleanTurnIsAlone'
    <3>0. at' = "bound"
      BY <1>1, <1>0 DEF Turn!Begin
    <3>1. SUFFICES ASSUME Clean(turn)' PROVE \A s \in 1..turn' - 1 : Closed(s)' /\ queue'[s].done
      BY <2>4, <3>0 DEF CleanTurnIsAlone
    <3>2. CASE turn = 0
      BY <1>1, <1>0, <3>2 DEF Turn!Begin
    <3>3. CASE turn > 0
      <4>0. at = "idle" /\ turn' = turn + 1 /\ turn' - 1 = turn /\ UNCHANGED <<ending, queue, prompt>>
        BY <1>1, <1>0 DEF Turn!Begin
      <4>1. Clean(turn) /\ ending[turn] # "aborted"
        BY <1>0, <3>1, <3>3, <4>0 DEF Clean
      <4>2. ending[turn] \in {"finished", "failed"}
        BY <1>0, <3>3, <4>0, <4>1 DEF TurnInv, TurnsGoOn
      <4>3. \A s \in 1..turn : s = turn \/ s \in 1..turn - 1
        BY <1>0
      <4>4. Closed(turn) /\ queue[turn].done /\ \A s \in 1..turn - 1 : Closed(s) /\ queue[s].done
        BY <3>3, <4>0, <4>1, <4>2 DEF TurnInv, CleanTurnIsAlone
      <4> QED BY <4>0, <4>3, <4>4 DEF Closed
    <3> QED BY <1>0, <3>2, <3>3
  <2>6. FinishedIsWhole'
    BY <1>1, <1>0 DEF Turn!Begin, TurnInv, FinishedIsWhole, Clean, Closed, Turn!Updates
  <2> QED BY <2>1, <2>2, <2>3, <2>5, <2>6 DEF TurnInv
<1>2. ASSUME Turn!Prompt PROVE TurnInv'
  <2>0. turn \in Turn!TurnIds /\ Untouched(turn)
    BY <1>2, <1>0 DEF Turn!Prompt, TurnInv, TurnTyped, TurnsGoOn
  <2>1. Turn!Subscribe \in 1..turn /\ (routed = 0 => Turn!Subscribe = turn)
    BY <1>0, <2>0 DEF Turn!Subscribe
  <2>2. PICK q \in 1..turn : q = Turn!Subscribe
    BY <2>1
  <2>3. /\ at = "bound" /\ at' = "updates" /\ routed' = q /\ listens' = [listens EXCEPT ![turn] = q]
        /\ prompt' = [prompt EXCEPT ![turn].state = "open"]
        /\ UNCHANGED <<turn, bound, waiting, yielded, queue, aborted, ending>>
    BY <1>2, <2>2 DEF Turn!Prompt
  <2>4. TurnTyped'
    <3>1. prompt' \in [Turn!TurnIds -> PromptRecords]
      BY <1>0, <2>0, <2>3 DEF PromptRecords
    <3>2. q \in 0..turn' /\ listens' \in [Turn!TurnIds -> 0..MaxTurns]
      BY <1>0, <2>0, <2>3
    <3>3. turn # 0
      BY <2>0
    <3> QED BY <1>0, <2>3, <3>1, <3>2, <3>3 DEF TurnInv, TurnTyped
  <2>5. \A t \in Turn!TurnIds : prompt'[t].sent = prompt[t].sent /\ (t # turn => prompt'[t] = prompt[t])
    BY <1>0, <2>0, <2>3 DEF PromptRecords
  <2>6. TurnsGoOn'
    <3>1. \A t \in Turn!TurnIds : t # turn => (Untouched(t)' <=> Untouched(t)) /\ listens'[t] = listens[t]
      BY <1>0, <2>0, <2>3, <2>5 DEF Untouched
    <3>2. \A t \in Turn!TurnIds : t > turn => t # turn
      BY <1>0
    <3>3. listens'[turn] = q /\ prompt'[turn].state = "open" /\ ending[turn] = "none" /\ routed' # 0
      BY <1>0, <2>0, <2>3 DEF Untouched, PromptRecords
    <3>4. \A t \in 1..turn : t = turn \/ t < turn
      BY <1>0
    <3>5. 1..turn \subseteq Turn!TurnIds
      BY <1>0
    <3>6. \A t \in 1..turn : prompt'[t].state # "none" /\ listens'[t] \in 1..t
      BY <2>3, <2>5, <3>1, <3>3, <3>4, <3>5 DEF TurnInv, TurnsGoOn
    <3> QED BY <2>3, <3>1, <3>2, <3>3, <3>6 DEF TurnInv, TurnsGoOn
  <2>7. GotWasSent' /\ GotOnce'
    BY <1>0, <2>3, <2>4, <2>5, GotStays DEF Got, PromptRecords
  <2>8. CleanTurnIsAlone'
    <3>1. SUFFICES ASSUME Clean(turn) PROVE CleanTurnIsAlone'
      BY <2>3 DEF CleanTurnIsAlone, Clean
    <3>2. q = turn
      <4>1. routed # 0 => routed \in 1..turn - 1 /\ queue[routed].done
        BY <1>0, <2>0, <2>3, <3>1 DEF TurnInv, CleanTurnIsAlone, TurnsGoOn
      <4> QED BY <2>2, <4>1 DEF Turn!Subscribe
    <3>3. ~queue[turn].done /\ prompt'[turn].state = "open" /\ prompt'[turn].sent = 0 /\ ending[turn] = "none"
      BY <1>0, <2>0, <2>3 DEF Untouched, Turn!NewQueue, PromptRecords
    <3>4. Got(turn)' = <<>> /\ Turn!Updates(turn)' = <<>>
      <4>1. Got(turn)' = <<>>
        BY <1>0, <2>0, <2>3, <3>1 DEF TurnInv, CleanTurnIsAlone, Got
      <4>2. Turn!Updates(turn)' = [i \in 1..0 |-> <<turn, i>>]
        BY <2>3, <3>3 DEF Turn!Updates
      <4> QED BY <4>1, <4>2
    <3>5. \A s \in 1..turn - 1 : Closed(s)' /\ queue'[s].done
      BY <1>0, <2>0, <2>3, <2>5, <3>1 DEF TurnInv, CleanTurnIsAlone, Closed
    <3> QED BY <1>0, <2>0, <2>3, <3>2, <3>3, <3>4, <3>5 DEF CleanTurnIsAlone, Closed
  <2>9. FinishedIsWhole'
    BY <1>0, <2>0, <2>3, <2>5 DEF TurnInv, FinishedIsWhole, Clean, Closed, Turn!Updates, Untouched
  <2> QED BY <2>4, <2>6, <2>7, <2>8, <2>9 DEF TurnInv
<1>3. ASSUME NEW t \in Turn!TurnIds, Turn!Update(t) PROVE TurnInv'
  <2>0. /\ t \in 1..turn /\ (t < turn \/ at # "bound") /\ turn \in Turn!TurnIds /\ routed \in 1..turn
        /\ prompt[t].state = "open" /\ prompt[t].sent \in Nat
    BY <1>3, ServedHasAsked DEF Turn!Update
  <2> DEFINE n == prompt[t].sent + 1
  <2>1. /\ prompt' = [prompt EXCEPT ![t].sent = n]
        /\ queue' = IF queue[routed].done THEN queue ELSE [queue EXCEPT ![routed].buffer = @ + 1]
        /\ waiting' = [waiting EXCEPT ![turn] = Append(waiting[turn], <<t, n>>)]
        /\ UNCHANGED <<turn, at, bound, yielded, routed, listens, aborted, ending>>
    BY <1>3, <1>0 DEF Turn!Update
  <2>2. <<t, n>> \in Heard /\ Append(waiting[turn], <<t, n>>) \in Seq(Heard)
    <3>1. n \in Nat \ {0} /\ t \in Turn!TurnIds
      BY <2>0
    <3>2. <<t, n>> \in Heard
      BY <3>1 DEF Heard
    <3>3. waiting[turn] \in Seq(Heard)
      BY <1>0, <2>0
    <3>4. \A S, h, w : h \in S /\ w \in Seq(S) => Append(w, h) \in Seq(S)
      OBVIOUS
    <3> QED BY <3>2, <3>3, <3>4
  <2>3. TurnTyped'
    <3>1. prompt' \in [Turn!TurnIds -> PromptRecords] /\ waiting' \in [Turn!TurnIds -> Seq(Heard)]
      BY <1>0, <2>0, <2>1, <2>2 DEF PromptRecords
    <3>2. queue' \in [Turn!TurnIds -> Queues]
      <4>1. routed \in Turn!TurnIds /\ queue[routed] \in Queues
        BY <1>0, <2>0
      <4>2. [queue[routed] EXCEPT !.buffer = @ + 1] \in Queues
        BY <4>1 DEF Queues
      <4> QED BY <1>0, <2>1, <4>1, <4>2
    <3> QED BY <1>0, <2>1, <3>1, <3>2 DEF TurnInv, TurnTyped
  <2>4. /\ \A x \in Turn!TurnIds : prompt'[x].state = prompt[x].state /\ (x # t => prompt'[x] = prompt[x])
        /\ prompt'[t].sent = n
        /\ \A x \in Turn!TurnIds : queue'[x].done = queue[x].done /\ (x # routed => queue'[x] = queue[x])
    <3>1. /\ \A x \in Turn!TurnIds : prompt'[x].state = prompt[x].state /\ (x # t => prompt'[x] = prompt[x])
          /\ prompt'[t].sent = n
      BY <1>0, <2>0, <2>1 DEF PromptRecords
    <3>2. \A x \in Turn!TurnIds : queue'[x].done = queue[x].done /\ (x # routed => queue'[x] = queue[x])
      BY <1>0, <2>0, <2>1 DEF Queues
    <3> QED BY <3>1, <3>2
  <2>5. TurnsGoOn'
    <3>1. \A x \in Turn!TurnIds : x # t /\ x # routed => (Untouched(x)' <=> Untouched(x))
      BY <2>1, <2>4 DEF Untouched
    <3>2. \A x \in Turn!TurnIds : x > turn => x # t /\ x # routed /\ x # turn
      BY <1>0, <2>0
    <3>3. at = "bound" => turn # t /\ turn # routed /\ turn \in Turn!TurnIds
      BY <1>0, <2>0 DEF TurnInv, TurnsGoOn
    <3>4. \A x \in Turn!TurnIds : x # turn => waiting'[x] = waiting[x]
      BY <1>0, <2>1
    <3>5. 1..turn \subseteq Turn!TurnIds
      BY <1>0
    <3> QED BY <2>1, <2>4, <3>1, <3>2, <3>3, <3>4, <3>5 DEF TurnInv, TurnsGoOn
  <2>6. /\ Got(turn)' = Append(Got(turn), <<t, n>>) /\ Got(turn) \in Seq(Heard)
        /\ \A x \in Turn!TurnIds : x # turn => Got(x)' = Got(x)
    <3>1. yielded[turn] \o Append(waiting[turn], <<t, n>>) = Append(yielded[turn] \o waiting[turn], <<t, n>>)
      <4>1. yielded[turn] \in Seq(Heard) /\ waiting[turn] \in Seq(Heard)
        BY <1>0, <2>0
      <4>2. PICK u \in Heard : u = <<t, n>>
        BY <2>2
      <4>3. PICK a \in Seq(Heard), b \in Seq(Heard) : a = yielded[turn] /\ b = waiting[turn]
        BY <4>1
      <4>4. a \o Append(b, u) = Append(a \o b, u)
        OBVIOUS
      <4> HIDE DEF n
      <4> QED BY <4>2, <4>3, <4>4
    <3>2. waiting'[turn] = Append(waiting[turn], <<t, n>>) /\ \A x \in Turn!TurnIds : x # turn => waiting'[x] = waiting[x]
      BY <1>0, <2>0, <2>1
    <3>3. Got(turn) \in Seq(Heard)
      BY <2>0, GotTyped DEF TurnInv
    <3> HIDE DEF n
    <3> QED BY <2>1, <3>1, <3>2, <3>3 DEF Got
  <2>7. \A x \in Turn!TurnIds : \A i \in DOMAIN Got(x) : Got(x)[i] # <<t, n>> /\ Got(x)[i][2] <= prompt'[Got(x)[i][1]].sent
    <3>1. SUFFICES ASSUME NEW x \in Turn!TurnIds, NEW i \in DOMAIN Got(x)
                   PROVE  Got(x)[i] # <<t, n>> /\ Got(x)[i][2] <= prompt'[Got(x)[i][1]].sent
      OBVIOUS
    <3>2. PICK u \in Turn!TurnIds, m \in Nat : Got(x)[i] = <<u, m>>
      BY <3>1, GotTyped DEF TurnInv, Heard
    <3>3. prompt[u].sent \in Nat /\ prompt'[u].sent \in Nat /\ prompt[u].sent <= prompt'[u].sent
      <4>1. prompt[u].sent \in Nat
        BY <1>0, <3>2 DEF PromptRecords
      <4>2. CASE u = t
        BY <2>0, <2>4, <4>2
      <4>3. CASE u # t
        BY <2>4, <3>2, <4>1, <4>3
      <4> QED BY <4>1, <4>2, <4>3
    <3>4. Got(x)[i][2] <= prompt[Got(x)[i][1]].sent
      BY <3>1 DEF TurnInv, GotWasSent
    <3>5. m <= prompt[u].sent /\ Got(x)[i][1] = u /\ Got(x)[i][2] = m
      BY <3>2, <3>4
    <3>6. u = t => m # n
      BY <2>0, <3>2, <3>5
    <3> QED BY <3>2, <3>3, <3>5, <3>6
  <2>8. GotWasSent' /\ GotOnce'
    <3>1. PICK len \in Nat : len = Len(Got(turn))
      BY <2>6
    <3>2. /\ DOMAIN Got(turn) = 1..len /\ DOMAIN Got(turn)' = 1..(len + 1) /\ Got(turn)'[len + 1] = <<t, n>>
          /\ \A i \in 1..len : Got(turn)'[i] = Got(turn)[i]
      BY <2>2, <2>6, <3>1
    <3>3. \A i \in 1..(len + 1) : i = len + 1 \/ i \in 1..len
      BY <3>1
    <3>4. \A x \in Turn!TurnIds : \A i \in DOMAIN Got(x)' :
             \/ x = turn /\ i = len + 1 /\ Got(x)'[i] = <<t, n>>
             \/ i \in DOMAIN Got(x) /\ Got(x)'[i] = Got(x)[i]
      <4>1. \A i \in DOMAIN Got(turn)' : i = len + 1 \/ i \in DOMAIN Got(turn)
        BY <3>2, <3>3
      <4>2. SUFFICES ASSUME NEW x \in Turn!TurnIds, NEW i \in DOMAIN Got(x)'
                     PROVE  \/ x = turn /\ i = len + 1 /\ Got(x)'[i] = <<t, n>>
                            \/ i \in DOMAIN Got(x) /\ Got(x)'[i] = Got(x)[i]
        OBVIOUS
      <4>3. CASE x # turn
        BY <2>6, <4>2, <4>3
      <4>4. CASE x = turn
        <5>1. i \in DOMAIN Got(turn)'
          BY <2>1, <4>2, <4>4 DEF Got
        <5>2. Got(x)' = Got(turn)' /\ Got(x) = Got(turn)
          BY <2>1, <4>4 DEF Got
        <5> HIDE DEF n
        <5> QED BY <3>2, <4>1, <4>4, <5>1, <5>2
      <4> QED BY <4>3, <4>4
    <3>5. n <= prompt'[t].sent
      BY <2>0, <2>4
    <3>6. GotWasSent'
      BY <2>7, <3>4, <3>5 DEF GotWasSent
    <3>7. GotOnce'
      BY <2>7, <3>4 DEF TurnInv, GotOnce
    <3> QED BY <3>6, <3>7
  <2>9. CleanTurnIsAlone'
    <3>1. SUFFICES ASSUME Clean(turn) PROVE CleanTurnIsAlone'
      BY <2>1 DEF CleanTurnIsAlone, Clean
    <3>8. /\ \A s \in 1..turn - 1 : Closed(s) /\ queue[s].done
          /\ at # "bound" => /\ listens[turn] = turn /\ routed = turn /\ (queue[turn].done <=> Closed(turn))
                             /\ Got(turn) = Turn!Updates(turn)
          /\ at = "result" \/ ending[turn] \in {"finished", "failed"} => Closed(turn)
          /\ at = "result" \/ ending[turn] = "finished" => waiting[turn] = <<>>
      BY <1>0, <2>0, <3>1 DEF TurnInv, CleanTurnIsAlone
    <3>9. 1..turn - 1 \subseteq Turn!TurnIds /\ \A s \in 1..turn - 1 : s # turn
      BY <1>0
    <3>2. t = turn /\ ~Closed(turn) /\ at # "bound"
      <4>1. ~Closed(t)
        BY <2>0 DEF Closed
      <4>2. t \in 1..turn - 1 \/ t = turn
        BY <1>0, <2>0
      <4> QED BY <1>0, <2>0, <3>8, <4>1, <4>2
    <3>3. Got(turn)' = Turn!Updates(turn)'
      <4>1. Got(turn) = [i \in 1..prompt[turn].sent |-> <<turn, i>>]
        BY <3>2, <3>8 DEF Turn!Updates
      <4>2. Turn!Updates(turn)' = [i \in 1..n |-> <<turn, i>>]
        BY <2>1, <2>4, <3>2 DEF Turn!Updates
      <4>3. Got(turn)' = Append([i \in 1..prompt[turn].sent |-> <<turn, i>>], <<turn, n>>)
        BY <2>6, <3>2, <4>1
      <4>4. PICK k \in Nat : k = prompt[turn].sent
        BY <2>0, <3>2
      <4>5. Append([i \in 1..k |-> <<turn, i>>], <<turn, k + 1>>) = [i \in 1..(k + 1) |-> <<turn, i>>]
        OBVIOUS
      <4> QED BY <3>2, <4>2, <4>3, <4>4, <4>5
    <3>4. \A s \in 1..turn - 1 : Closed(s)' /\ queue'[s].done
      BY <2>4, <3>8, <3>9 DEF Closed
    <3>5. /\ listens'[turn] = turn /\ routed' = turn /\ (queue'[turn].done <=> Closed(turn)')
          /\ at # "result" /\ ending[turn] \notin {"finished", "failed"}
      BY <2>0, <2>1, <2>4, <3>2, <3>8 DEF Closed
    <3> QED BY <2>1, <3>2, <3>3, <3>4, <3>5 DEF CleanTurnIsAlone
  <2>10. FinishedIsWhole'
    BY <1>0, <2>0, <2>1, <2>4 DEF TurnInv, FinishedIsWhole, Clean, Closed, Turn!Updates
  <2> QED BY <2>3, <2>5, <2>8, <2>9, <2>10 DEF TurnInv
<1>4. ASSUME NEW t \in Turn!TurnIds, Turn!Respond(t) PROVE TurnInv'
  <2>0. /\ t \in 1..turn /\ (t < turn \/ at # "bound") /\ turn \in Turn!TurnIds
        /\ prompt[t].state = "open" /\ listens[t] \in 1..t
    BY <1>4, ServedHasAsked DEF Turn!Respond
  <2>1. PICK how \in {"answered", "failed"} :
           /\ prompt' = [prompt EXCEPT ![t].state = how]
           /\ queue' = IF queue[listens[t]].done THEN queue
                       ELSE [queue EXCEPT ![listens[t]].done = TRUE, ![listens[t]].failed = (how = "failed")]
    BY <1>4 DEF Turn!Respond
  <2>2. UNCHANGED <<turn, at, bound, waiting, yielded, routed, listens, aborted, ending>>
    BY <1>4 DEF Turn!Respond
  <2>3. prompt' \in [Turn!TurnIds -> PromptRecords] /\ queue' \in [Turn!TurnIds -> Queues]
    BY <1>0, <2>0, <2>1 DEF PromptRecords, Queues
  <2>4. /\ \A x \in Turn!TurnIds : prompt'[x].sent = prompt[x].sent /\ (x # t => prompt'[x] = prompt[x])
        /\ prompt'[t].state = how
        /\ \A x \in Turn!TurnIds : x # listens[t] => queue'[x] = queue[x]
        /\ queue'[listens[t]].done
    BY <1>0, <2>0, <2>1 DEF PromptRecords, Queues
  <2>5. TurnTyped'
    BY <1>0, <2>2, <2>3 DEF TurnInv, TurnTyped
  <2>6. TurnsGoOn'
    <3>1. \A x \in Turn!TurnIds : x # t /\ x # listens[t] => (Untouched(x)' <=> Untouched(x))
      BY <2>2, <2>4 DEF Untouched
    <3>2. \A x \in Turn!TurnIds : x > turn => x # t /\ x # listens[t]
      BY <1>0, <2>0
    <3>3. at = "bound" => turn # t /\ turn # listens[t] /\ turn \in Turn!TurnIds
      BY <1>0, <2>0 DEF TurnInv, TurnsGoOn
    <3>4. \A x \in Turn!TurnIds : prompt[x].state # "none" => prompt'[x].state # "none"
      BY <2>1, <2>4
    <3>5. 1..turn \subseteq Turn!TurnIds
      BY <1>0
    <3> QED BY <2>2, <3>1, <3>2, <3>3, <3>4, <3>5 DEF TurnInv, TurnsGoOn
  <2>7. GotWasSent' /\ GotOnce'
    BY <1>0, <2>2, <2>4, <2>5, GotStays DEF Got, PromptRecords
  <2>8. CleanTurnIsAlone'
    <3>1. SUFFICES ASSUME Clean(turn) PROVE CleanTurnIsAlone'
      BY <2>2 DEF CleanTurnIsAlone, Clean
    <3>8. /\ \A s \in 1..turn - 1 : Closed(s) /\ queue[s].done
          /\ at # "bound" => /\ listens[turn] = turn /\ routed = turn /\ (queue[turn].done <=> Closed(turn))
                             /\ Got(turn) = Turn!Updates(turn)
          /\ at = "result" \/ ending[turn] \in {"finished", "failed"} => Closed(turn)
          /\ at = "result" \/ ending[turn] = "finished" => waiting[turn] = <<>>
      BY <1>0, <2>0, <3>1 DEF TurnInv, CleanTurnIsAlone
    <3>9. 1..turn - 1 \subseteq Turn!TurnIds /\ \A s \in 1..turn - 1 : s # turn
      BY <1>0
    <3>2. t = turn /\ at # "bound" /\ listens[t] = turn /\ routed = turn
      <4>1. ~Closed(t)
        BY <2>0 DEF Closed
      <4>2. t \in 1..turn - 1 \/ t = turn
        BY <1>0, <2>0
      <4> QED BY <1>0, <2>0, <3>8, <4>1, <4>2
    <3>3. \A s \in 1..turn - 1 : Closed(s)' /\ queue'[s].done
      BY <2>4, <3>2, <3>8, <3>9 DEF Closed
    <3>4. Closed(turn)' /\ queue'[turn].done
      BY <2>1, <2>2, <2>4, <3>2 DEF Closed
    <3>5. Got(turn)' = Turn!Updates(turn)'
      BY <2>0, <2>2, <2>4, <3>2, <3>8 DEF Got, Turn!Updates
    <3> QED BY <2>2, <3>2, <3>3, <3>4, <3>5, <3>8 DEF CleanTurnIsAlone
  <2>9. FinishedIsWhole'
    BY <1>0, <2>0, <2>2, <2>4 DEF TurnInv, FinishedIsWhole, Clean, Closed, Turn!Updates
  <2> QED BY <2>5, <2>6, <2>7, <2>8, <2>9 DEF TurnInv
<1>5. ASSUME Turn!Woken PROVE TurnInv'
  <2>0. /\ turn \in Turn!TurnIds /\ at = "updates" /\ listens[turn] \in 1..turn /\ ending[turn] = "none" /\ Turn!Mine.buffer > 0
    BY <1>5, <1>0 DEF Turn!Woken, TurnInv, TurnTyped, TurnsGoOn
  <2>1. /\ queue' = [queue EXCEPT ![listens[turn]].buffer = @ - 1] /\ Turn!Flush
        /\ UNCHANGED <<turn, bound, routed, listens, prompt, aborted>>
    BY <1>5 DEF Turn!Woken
  <2>2. \/ at' = "updates" /\ ending' = ending
        \/ at' = "idle" /\ ending' = [ending EXCEPT ![turn] = "aborted"]
    BY <1>5 DEF Turn!Woken
  <2>3. /\ queue' \in [Turn!TurnIds -> Queues] /\ \A x \in Turn!TurnIds : queue'[x].done = queue[x].done
        /\ \A x \in Turn!TurnIds : x # listens[turn] => queue'[x] = queue[x]
    <3>1. listens[turn] \in Turn!TurnIds /\ queue[listens[turn]] \in Queues /\ queue[listens[turn]].buffer > 0
      BY <1>0, <2>0 DEF Turn!Mine
    <3>2. [queue[listens[turn]] EXCEPT !.buffer = @ - 1] \in Queues
      BY <3>1 DEF Queues
    <3> QED BY <1>0, <2>1, <3>1, <3>2 DEF Queues
  <2> QED BY <1>0, <2>0, <2>1, <2>2, <2>3, Flushed
<1>6. ASSUME Turn!UpdatesEnd PROVE TurnInv'
  <2>0. /\ turn \in Turn!TurnIds /\ at = "updates" /\ listens[turn] \in 1..turn /\ ending[turn] = "none" /\ queue[listens[turn]].done
    BY <1>6, <1>0 DEF Turn!UpdatesEnd, Turn!Mine, TurnInv, TurnTyped, TurnsGoOn
  <2>1. at' = "result" /\ Turn!Flush /\ UNCHANGED <<turn, bound, queue, routed, listens, prompt, aborted, ending>>
    BY <1>6 DEF Turn!UpdatesEnd
  <2> QED BY <1>0, <2>0, <2>1, Flushed
<1>7. ASSUME Turn!UpdatesFail PROVE TurnInv'
  <2>0. /\ turn \in Turn!TurnIds /\ at = "updates" /\ ending[turn] = "none" /\ queue[listens[turn]].done
    BY <1>7, <1>0 DEF Turn!UpdatesFail, Turn!Mine, TurnInv, TurnTyped, TurnsGoOn
  <2>1. /\ at' = "idle" /\ ending' = [ending EXCEPT ![turn] = "failed"]
        /\ UNCHANGED <<turn, bound, waiting, yielded, queue, routed, listens, prompt, aborted>>
    BY <1>7 DEF Turn!UpdatesFail
  <2>2. Clean(turn) => Closed(turn)
    BY <1>0, <2>0 DEF TurnInv, CleanTurnIsAlone
  <2> QED BY <1>0, <2>0, <2>1, <2>2, Ends
<1>8. ASSUME Turn!Result PROVE TurnInv'
  <2>0. /\ turn \in Turn!TurnIds /\ at = "result" /\ ending[turn] = "none" /\ Closed(turn)
    BY <1>8, <1>0 DEF Turn!Result, TurnInv, TurnTyped, TurnsGoOn, Closed
  <2>1. PICK how \in {"finished", "failed"} : ending' = [ending EXCEPT ![turn] = how]
    BY <1>8 DEF Turn!Result
  <2>2. at' = "idle" /\ UNCHANGED <<turn, bound, waiting, yielded, queue, routed, listens, prompt, aborted>>
    BY <1>8 DEF Turn!Result
  <2> QED BY <1>0, <2>0, <2>1, <2>2, Ends
<1>9. ASSUME Turn!Abort \/ UNCHANGED turnVars PROVE TurnInv'
  <2>1. UNCHANGED <<turn, at, bound, waiting, yielded, queue, routed, listens, prompt, ending>> /\ aborted' \subseteq Turn!TurnIds
    <3>1. CASE Turn!Abort
      BY <1>0, <3>1 DEF Turn!Abort, TurnInv, TurnTyped
    <3>2. CASE UNCHANGED turnVars
      BY <3>2 DEF turnVars, TurnInv, TurnTyped
    <3> QED BY <1>9, <3>1, <3>2
  <2>2. TurnTyped' /\ TurnsGoOn'
    BY <2>1 DEF TurnInv, TurnTyped, TurnsGoOn, Untouched
  <2>3. GotWasSent' /\ GotOnce'
    <3>1. \A x \in Turn!TurnIds : Got(x)' = Got(x) /\ prompt'[x].sent >= prompt[x].sent
      BY <1>0, <2>1 DEF Got, PromptRecords
    <3> QED BY <2>2, <3>1, GotStays
  <2>4. CleanTurnIsAlone' /\ FinishedIsWhole'
    BY <2>1 DEF TurnInv, CleanTurnIsAlone, FinishedIsWhole, Clean, Closed, Got, Turn!Updates
  <2> QED BY <2>2, <2>3, <2>4 DEF TurnInv
<1> QED BY <1>1, <1>2, <1>3, <1>4, <1>5, <1>6, <1>7, <1>8, <1>9 DEF Turn!Next, Turn!GoesOn

LEMMA YieldedIsOnce == ASSUME TurnTyped, GotOnce PROVE Turn!YieldedOnce
<1>1. ASSUME NEW s \in Turn!TurnIds, NEW i \in DOMAIN yielded[s] PROVE i \in DOMAIN Got(s) /\ Got(s)[i] = yielded[s][i]
  <2>1. PICK a \in Seq(Heard), b \in Seq(Heard) : a = yielded[s] /\ b = waiting[s]
    BY DEF TurnTyped
  <2>2. i \in DOMAIN a
    BY <1>1, <2>1
  <2>3. i \in DOMAIN (a \o b) /\ (a \o b)[i] = a[i]
    BY <2>2
  <2> QED BY <2>1, <2>3 DEF Got
<1> QED BY <1>1 DEF GotOnce, Turn!YieldedOnce

\* A turn yields what the agent has sent for its prompt, in order, while no turn before it
\* was aborted, and no update is yielded twice (session/llm-claude-code.ts and the
\* queues of acp-client/connection.ts).
THEOREM TurnsAreApart == ASSUME MaxTurns \in Nat PROVE Spec => []Turn!TurnsKeepApart
<1>1. Init => TurnInv
  BY InitTurnInv, Starts DEF PartsStart
<1>2. TurnInv /\ [Next]_vars => TurnInv'
  BY NextTurnInv, Steps DEF PartsStep
<1>3. ASSUME TurnInv PROVE Turn!TurnsKeepApart
  <2>1. Turn!TypeOK
    BY <1>3 DEF TurnInv, TurnTyped, Turn!TypeOK, Turn!TurnIds, Queues
  <2>2. Turn!CleanTurnYields
    BY <1>3 DEF TurnInv, FinishedIsWhole, Clean, Turn!CleanTurnYields
  <2>3. Turn!YieldedOnce
    BY <1>3, YieldedIsOnce DEF TurnInv
  <2> QED BY <2>1, <2>2, <2>3 DEF Turn!TurnsKeepApart
<1> QED BY <1>1, <1>2, <1>3, PTL DEF Spec

-----------------------------------------------------------------------------
(* The language server of a root *)

\* There is one client at most; while a server is spawned there is none, and nothing else
\* runs.
OneSpawn ==
    /\ \A x, y \in clients : x = y
    /\ Lsp!Spawning => clients = {} /\ spawning.server \in Servers /\ Lsp!Running \subseteq {spawning.server}
    /\ ~Lsp!Spawning => Lsp!Running \subseteq clients

LspInv == Lsp!TypeOK /\ OneSpawn

LEMMA NextLspInv == ASSUME LspInv, [Lsp!Next]_lspVars PROVE LspInv'
<1> USE DEF LspInv, Lsp!TypeOK, OneSpawn, Lsp!Running, Lsp!Spawning, Lsp!NoSpawn
<1>1. ASSUME NEW c \in Calls, Lsp!Ask(c) PROVE LspInv'
  BY <1>1 DEF Lsp!Ask
<1>2. ASSUME NEW c \in Calls, Lsp!Skip(c) PROVE LspInv'
  BY <1>2 DEF Lsp!Skip
<1>3. ASSUME NEW c \in Calls, Lsp!Match(c) PROVE LspInv'
  BY <1>3 DEF Lsp!Match
<1>4. ASSUME NEW c \in Calls, Lsp!JoinOrSpawn(c) PROVE LspInv'
  BY <1>4 DEF Lsp!JoinOrSpawn
<1>5. CASE Lsp!Initialized
  BY <1>5 DEF Lsp!Initialized, Lsp!Settle
<1>6. CASE Lsp!Fails
  BY <1>6 DEF Lsp!Fails, Lsp!Settle
<1>7. CASE Lsp!Dispose
  BY <1>7 DEF Lsp!Dispose
<1>8. ASSUME NEW x \in Servers, Lsp!Dies(x) PROVE LspInv'
  BY <1>8 DEF Lsp!Dies
<1>9. CASE UNCHANGED lspVars
  BY <1>9 DEF lspVars
<1> QED BY <1>1, <1>2, <1>3, <1>4, <1>5, <1>6, <1>7, <1>8, <1>9 DEF Lsp!Next, Lsp!GoesOn

\* However many tools ask at once, one process runs for a root; it is the client or the
\* one that is being spawned (getClients and schedule of lsp/lsp.ts).
THEOREM RootHasOneServer == Spec => []Lsp!TypeOK /\ []Lsp!OneServer
<1>1. ASSUME Init PROVE LspInv
  <2>0. Lsp!Init
    BY <1>1 DEF Init
  <2>1. spawning = Lsp!NoSpawn /\ clients = {} /\ Lsp!Running = {}
    BY <2>0 DEF Lsp!Init, Lsp!Running
  <2>2. Lsp!NoSpawn \in [server : Servers \cup {"none"}, waiting : SUBSET Calls] /\ Lsp!NoSpawn.waiting = {}
    BY DEF Lsp!NoSpawn
  <2>3. Lsp!TypeOK
    BY <2>0, <2>1, <2>2 DEF Lsp!Init, Lsp!TypeOK
  <2>4. OneSpawn
    BY <2>0, <2>1, <2>2 DEF OneSpawn, Lsp!Spawning
  <2> QED BY <2>3, <2>4 DEF LspInv
<1>2. LspInv /\ [Next]_vars => LspInv'
  BY NextLspInv, Steps DEF PartsStep
<1>3. LspInv => Lsp!OneServer
  BY DEF LspInv, OneSpawn, Lsp!Spawning, Lsp!OneServer
<1>4. LspInv => Lsp!TypeOK
  BY DEF LspInv
<1> QED BY <1>1, <1>2, <1>3, <1>4, PTL DEF Spec

-----------------------------------------------------------------------------
(* The events of a session *)

\* Where nothing is replayed the rows are a log; where all is replayed they are that of
\* the remote, and a replay goes on where it was, or before.
KindsAreLogs ==
    /\ ops \subseteq {"run", "replay", "remove", "removed"}
    /\ "replay" \notin ops => Rows!IsSequence /\ \A p \in Processes : where[p] # "replaying"
    /\ ops = {"replay"} =>
          /\ Rows!IsSequence
          /\ \A e \in events : e.by = "remote"
          /\ \A p \in Processes : where[p] = "replaying" => doing[p].by = "remote" /\ doing[p].seq <= sequence + 1

\* What is still to be told is stored, by one process, and has not been told.
StillUntold ==
    /\ \A p \in Processes : where[p] # "idle" => doing[p] \in Rows!Events
    /\ ops \cap {"remove", "removed"} = {} => \A p \in Processes : where[p] = "committed" =>
          /\ doing[p] \in events
          /\ \A q \in Processes : where[q] = "committed" /\ doing[q] = doing[p] => q = p
          /\ \A q \in Processes : \A i \in DOMAIN published[q] : published[q][i] # doing[p]

RowsInv == Rows!TypeOK /\ KindsAreLogs /\ StillUntold /\ Rows!ToldOnce

LEMMA InitRowsInv == ASSUME MaxSeq \in Nat, Rows!Init PROVE RowsInv
<1>1. Rows!TypeOK
  BY DEF Rows!Init, Rows!TypeOK
<1>2. Rows!IsSequence
  BY DEF Rows!Init, Rows!IsSequence
<1>3. KindsAreLogs /\ StillUntold
  BY <1>2 DEF Rows!Init, KindsAreLogs, StillUntold
<1>4. Rows!ToldOnce
  BY DEF Rows!Init, Rows!ToldOnce
<1> QED BY <1>1, <1>3, <1>4 DEF RowsInv

\* An event is stored that was not there: the next one, where the rows are a log.
LEMMA StoreKeeps ==
  ASSUME MaxSeq \in Nat, RowsInv, NEW p \in Processes, NEW e \in Rows!Events, Rows!Store(p, e),
         UNCHANGED <<ops, published>>,
         "replay" \notin ops => e.seq = sequence + 1,
         ops = {"replay"} => e.by = "remote" /\ e.seq <= sequence + 1
  PROVE  RowsInv'
<1>1. /\ e \notin events /\ events' = events \cup {e} /\ sequence' = e.seq
      /\ where' = [where EXCEPT ![p] = "committed"] /\ doing' = [doing EXCEPT ![p] = e]
      /\ UNCHANGED <<ops, published>>
  BY DEF Rows!Store
<1>2. Rows!TypeOK'
  <2>1. e.seq \in 0..MaxSeq /\ e.seq \in -1..MaxSeq
    BY DEF Rows!Events
  <2>2. sequence' \in -1..MaxSeq /\ events' \subseteq Rows!Events
    BY <1>1, <2>1 DEF RowsInv, Rows!TypeOK
  <2>3. where' \in [Processes -> {"idle", "replaying", "committed"}]
    BY <1>1 DEF RowsInv, Rows!TypeOK
  <2>4. doing' \in [Processes -> Rows!Events \cup {Rows!NoEvent}]
    BY <1>1 DEF RowsInv, Rows!TypeOK
  <2> QED BY <1>1, <2>2, <2>3, <2>4 DEF RowsInv, Rows!TypeOK
<1>3. KindsAreLogs'
  <2>1. ASSUME Rows!IsSequence, e.seq = sequence + 1 PROVE Rows!IsSequence'
    <3>1. sequence \in -1..MaxSeq
      BY DEF RowsInv, Rows!TypeOK
    <3>2. {f.seq : f \in events'} = {f.seq : f \in events} \cup {e.seq}
      BY <1>1
    <3>3. 0..e.seq = (0..sequence) \cup {e.seq}
      BY <2>1, <3>1
    <3>4. ASSUME NEW f \in events PROVE f.seq # e.seq
      <4>1. f.seq \in 0..sequence
        BY <2>1 DEF Rows!IsSequence
      <4> QED BY <2>1, <3>1, <4>1
    <3> QED BY <1>1, <2>1, <3>2, <3>3, <3>4 DEF Rows!IsSequence
  <2>2. CASE "replay" \notin ops
    BY <1>1, <2>1, <2>2 DEF RowsInv, KindsAreLogs, Rows!TypeOK
  <2>3. CASE ops = {"replay"}
    <3>1. e.seq = sequence + 1
      <4>1. SUFFICES ASSUME e.seq \in 0..sequence PROVE FALSE
        BY <2>3 DEF RowsInv, Rows!TypeOK, Rows!Events
      <4>2. PICK f \in events : f.seq = e.seq
        BY <2>3, <4>1 DEF RowsInv, KindsAreLogs, Rows!IsSequence
      <4>3. f = e
        BY <2>3, <4>2 DEF RowsInv, KindsAreLogs, Rows!TypeOK, Rows!Events
      <4> QED BY <1>1, <4>2, <4>3
    <3>2. Rows!IsSequence' /\ \A f \in events' : f.by = "remote"
      BY <1>1, <2>1, <2>3, <3>1 DEF RowsInv, KindsAreLogs
    <3>3. ASSUME NEW q \in Processes, where'[q] = "replaying"
          PROVE  doing'[q].by = "remote" /\ doing'[q].seq <= sequence' + 1
      <4>1. q # p /\ where[q] = "replaying" /\ doing'[q] = doing[q]
        BY <1>1, <3>3 DEF RowsInv, Rows!TypeOK
      <4>2. doing[q].by = "remote" /\ doing[q].seq <= sequence + 1 /\ doing[q] \in Rows!Events
        BY <2>3, <4>1 DEF RowsInv, KindsAreLogs, StillUntold
      <4>3. sequence \in -1..MaxSeq
        BY DEF RowsInv, Rows!TypeOK
      <4> QED BY <1>1, <3>1, <4>1, <4>2, <4>3 DEF Rows!Events
    <3> QED BY <1>1, <2>3, <3>2, <3>3 DEF KindsAreLogs
  <2>4. CASE "replay" \in ops /\ ops # {"replay"}
    BY <1>1, <2>4 DEF RowsInv, KindsAreLogs
  <2> QED BY <2>2, <2>3, <2>4
<1>4. StillUntold'
  BY <1>1 DEF RowsInv, StillUntold, Rows!ToldOnce, Rows!TypeOK
<1>5. Rows!ToldOnce'
  BY <1>1 DEF RowsInv, Rows!ToldOnce
<1> QED BY <1>2, <1>3, <1>4, <1>5 DEF RowsInv

LEMMA NextRowsInv == ASSUME MaxSeq \in Nat, RowsInv, [Rows!Next]_rowsVars PROVE RowsInv'
<1>1. ASSUME NEW p \in Processes, Rows!Run(p) PROVE RowsInv'
  <2> DEFINE e == [by |-> p, seq |-> sequence + 1]
  <2>1. e \in Rows!Events /\ e.seq = sequence + 1 /\ Rows!Store(p, e) /\ UNCHANGED <<ops, published>> /\ "run" \in ops
    BY <1>1 DEF Rows!Run, RowsInv, Rows!TypeOK, Rows!Events
  <2>2. ops # {"replay"}
    BY <2>1
  <2> QED BY <2>1, <2>2, StoreKeeps
<1>2. ASSUME NEW p \in Processes, Rows!ReplayStore(p) PROVE RowsInv'
  <2>1. /\ where[p] = "replaying" /\ Rows!Store(p, doing[p]) /\ UNCHANGED <<ops, published>>
        /\ doing[p] \in Rows!Events
    BY <1>2 DEF Rows!ReplayStore, RowsInv, StillUntold
  <2>2. /\ "replay" \in ops
        /\ ops = {"replay"} => doing[p].by = "remote" /\ doing[p].seq <= sequence + 1
    BY <2>1 DEF RowsInv, KindsAreLogs
  <2> QED BY <2>1, <2>2, StoreKeeps
<1>3. ASSUME NEW p \in Processes, NEW n \in 0..MaxSeq, Rows!ReplayRead(p, n) PROVE RowsInv'
  <2> DEFINE e == [by |-> "remote", seq |-> n]
  <2>1. /\ where[p] = "idle" /\ "replay" \in ops /\ n = sequence + 1
        /\ where' = [where EXCEPT ![p] = "replaying"] /\ doing' = [doing EXCEPT ![p] = e]
        /\ UNCHANGED <<ops, sequence, events, published>>
    BY <1>3 DEF Rows!ReplayRead
  <2>2. e \in Rows!Events /\ e.by = "remote" /\ e.seq = n
    BY DEF Rows!Events
  <2> HIDE DEF e
  <2>3. Rows!TypeOK'
    BY <2>1, <2>2 DEF RowsInv, Rows!TypeOK
  <2>4. KindsAreLogs'
    BY <2>1, <2>2 DEF RowsInv, KindsAreLogs, Rows!IsSequence, Rows!TypeOK
  <2>5. StillUntold' /\ Rows!ToldOnce'
    BY <2>1, <2>2 DEF RowsInv, StillUntold, Rows!ToldOnce, Rows!TypeOK
  <2> QED BY <2>3, <2>4, <2>5 DEF RowsInv
<1>4. ASSUME NEW p \in Processes, Rows!ReplayConflicts(p) PROVE RowsInv'
  BY <1>4 DEF Rows!ReplayConflicts, RowsInv, Rows!TypeOK, KindsAreLogs, StillUntold, Rows!ToldOnce, Rows!IsSequence
<1>5. ASSUME NEW p \in Processes, Rows!Publish(p) PROVE RowsInv'
  <2>1. /\ where[p] = "committed" /\ where' = [where EXCEPT ![p] = "idle"]
        /\ published' = [published EXCEPT ![p] = Append(published[p], doing[p])]
        /\ UNCHANGED <<ops, sequence, events, doing>>
    BY <1>5 DEF Rows!Publish
  <2>2. /\ doing[p] \in Rows!Events /\ published \in [Processes -> Seq(Rows!Events)]
        /\ published[p] \in Seq(Rows!Events)
    BY <2>1 DEF RowsInv, StillUntold, Rows!TypeOK
  <2> DEFINE tellings == Append(published[p], doing[p])
             n == Len(published[p]) + 1
  <2>3. /\ tellings \in Seq(Rows!Events) /\ DOMAIN tellings = DOMAIN published[p] \cup {n} /\ n \notin DOMAIN published[p]
        /\ tellings[n] = doing[p] /\ \A i \in DOMAIN published[p] : tellings[i] = published[p][i]
    BY <2>2, AppendProperties
  <2> HIDE DEF tellings, n
  <2>4. /\ published'[p] = tellings /\ \A q \in Processes : q # p => published'[q] = published[q]
    BY <2>1, <2>2 DEF tellings
  <2>5. Rows!TypeOK'
    BY <2>1, <2>2, <2>3 DEF RowsInv, Rows!TypeOK, tellings
  <2>6. KindsAreLogs'
    BY <2>1 DEF RowsInv, KindsAreLogs, Rows!TypeOK, Rows!IsSequence
  <2>7. StillUntold'
    BY <2>1, <2>3, <2>4 DEF RowsInv, StillUntold, Rows!TypeOK
  <2>8. Rows!ToldOnce'
    BY <2>1, <2>3, <2>4 DEF RowsInv, StillUntold, Rows!ToldOnce
  <2> QED BY <2>5, <2>6, <2>7, <2>8 DEF RowsInv
<1>6. ASSUME NEW p \in Processes, Rows!RemoveSession(p) PROVE RowsInv'
  <2>1. /\ "remove" \in ops /\ events' = {} /\ sequence' = -1
        /\ ops' = (ops \ {"remove"}) \cup {"removed"} /\ UNCHANGED <<where, doing, published>>
    BY <1>6 DEF Rows!RemoveSession
  <2>2. Rows!TypeOK'
    BY <2>1 DEF RowsInv, Rows!TypeOK
  <2>3. Rows!IsSequence'
    BY <2>1 DEF Rows!IsSequence
  <2>4. ops' # {"replay"} /\ ("replay" \in ops' <=> "replay" \in ops) /\ ops' \cap {"remove", "removed"} # {}
    BY <2>1
  <2>5. KindsAreLogs'
    BY <2>1, <2>3, <2>4 DEF RowsInv, KindsAreLogs
  <2>6. StillUntold' /\ Rows!ToldOnce'
    BY <2>1, <2>4 DEF RowsInv, StillUntold, Rows!ToldOnce
  <2> QED BY <2>2, <2>5, <2>6 DEF RowsInv
<1>7. CASE UNCHANGED rowsVars
  BY <1>7 DEF rowsVars, RowsInv, Rows!TypeOK, KindsAreLogs, StillUntold, Rows!ToldOnce, Rows!IsSequence
<1> QED BY <1>1, <1>2, <1>3, <1>4, <1>5, <1>6, <1>7 DEF Rows!Next

\* Where all processes make events, or all replay those of one remote, the rows of a
\* session are its events in order; each is told once, by one process, when it is stored
\* (run, replay and process of sync/index.ts).
THEOREM EventsInOrder == ASSUME MaxSeq \in Nat PROVE Spec => []RowsInOrder
<1>1. Init => RowsInv
  BY InitRowsInv, Starts DEF PartsStart
<1>2. RowsInv /\ [Next]_vars => RowsInv'
  BY NextRowsInv, Steps DEF PartsStep
<1>3. RowsInv => RowsInOrder
  BY DEF RowsInOrder, RowsInv, KindsAreLogs, Rows!RowsInOrder, Rows!OneKindIsSequence
<1> QED BY <1>1, <1>2, <1>3, PTL DEF Spec

-----------------------------------------------------------------------------
(* The sessions of older versions *)

\* Migration 2 has written the diffs of a session, and left in its file only what belongs
\* to another directory.
Stripped(s) ==
    /\ origin[s] = "taken" => diffs[s] \in {"old", "new"}
    /\ Files!Decodes(s) => Files!NamesOther(s) /\ diffs[s] \in {"old", "new"}

FilesKnown ==
    /\ origin \in [Files!Records -> Files!InProject \cup Files!InStorage]
    /\ \A s \in Files!Records : origin[s] = "taken" => files[s] # "slim"

\* What the migration under way has done so far.
MigrationGoesOn ==
    /\ migration.step # 0 => process = "running"
    /\ migration.step = 1 => \A s \in 1..migration.at - 1 :
          /\ origin[s] \in {"taken", "nameless"} => files[s] # "none"
          /\ origin[s] = "taken" => s \in messages
    /\ migration.step = 1 /\ migration.half => files[migration.at] # "none"
    /\ migration.step = 2 => marker = 1 /\ \A s \in 1..migration.at - 1 : Stripped(s)
    /\ migration.step = 2 /\ migration.half => diffs[migration.at] = "old"

AllStripped == marker = 2 => \A s \in Files!Records : Stripped(s)

\* As long as nothing fails, new diffs are written when both migrations are done for good.
NewAreLater ==
    ~failed =>
      /\ migration.step \in {1, 2} => marker + 1 = migration.step
      /\ migration.step = 3 => marker = 2
      /\ marker # 2 => \A s \in Files!Records : diffs[s] # "new"

\* Before the import of a plain installation nothing has happened to its sessions.
ImportIsFirst ==
    plain /\ (process = "importing" \/ ~opened) =>
        rows = {} /\ removed = {} /\ \A s \in Files!Records : files[s] = Files!Left(origin[s])

\* An import has what it has come to, but for the batches that it could not insert.
ImportIsKnown ==
    /\ plain /\ process # "down" => opened
    /\ plain /\ ~opened => dropped = {}
    /\ process # "importing" => imported = Files!NoBatch
    /\ plain /\ process = "importing" =>
          /\ dropped \subseteq 1..imported.at - 1
          /\ imported.rows = (Files!Importable \cap 1..imported.at - 1) \ dropped

InFiles == FilesKnown /\ MigrationGoesOn /\ AllStripped /\ NewAreLater /\ Files!DiffsKept /\ Files!MarkerTells
InTables == ImportIsFirst /\ ImportIsKnown /\ Files!ImportedWhole /\ Files!RemovedStay
FileInv == Files!TypeOK /\ InFiles /\ InTables

LEMMA Further ==
  ASSUME MaxRecords \in Nat, Files!TypeOK, migration.at \in Files!Records
  PROVE  /\ Files!NextSession = [step |-> migration.step, at |-> migration.at + 1, half |-> FALSE]
         /\ Files!Halfway.step = migration.step /\ Files!Halfway.at = migration.at
         /\ Files!NextSession \in [step : 0..3, at : 1..MaxRecords + 1, half : BOOLEAN]
         /\ Files!Halfway \in [step : 0..3, at : 1..MaxRecords + 1, half : BOOLEAN]
         /\ ~Files!NextSession.half /\ \A s \in 1..Files!NextSession.at - 1 : s \in 1..migration.at - 1 \/ s = migration.at
<1>1. [migration EXCEPT !.at = @ + 1] = [step |-> migration.step, at |-> migration.at + 1, half |-> migration.half]
  BY DEF Files!TypeOK
<1>2. Files!NextSession = [[migration EXCEPT !.at = @ + 1] EXCEPT !.half = FALSE]
  BY DEF Files!NextSession, Files!TypeOK
<1>3. Files!NextSession = [step |-> migration.step, at |-> migration.at + 1, half |-> FALSE]
  BY <1>1, <1>2
<1>4. Files!Halfway.step = migration.step /\ Files!Halfway.at = migration.at
  BY DEF Files!Halfway, Files!TypeOK
<1>5. migration.step \in 0..3 /\ migration.at + 1 \in 1..MaxRecords + 1 /\ migration.at \in 1..MaxRecords + 1
  BY DEF Files!TypeOK, Files!Records
<1>6. Files!NextSession \in [step : 0..3, at : 1..MaxRecords + 1, half : BOOLEAN]
  BY <1>3, <1>5
<1>7. Files!Halfway \in [step : 0..3, at : 1..MaxRecords + 1, half : BOOLEAN]
  BY DEF Files!Halfway, Files!TypeOK
<1>8. ~Files!NextSession.half /\ Files!NextSession.at = migration.at + 1
  BY <1>3
<1> QED BY <1>3, <1>4, <1>5, <1>6, <1>7, <1>8

\* The state of a migration that begins.
Fresh(m, n) ==
    m \in [step : 0..3, at : Nat, half : BOOLEAN] /\ m.step = n /\ m.at = 1 /\ ~m.half

LEMMA Begins == \A m : \A n \in 0..3 : m = [Files!NotLoaded EXCEPT !.step = n] => Fresh(m, n)
<1>1. Fresh(Files!NotLoaded, 0)
  BY DEF Files!NotLoaded, Fresh
<1>2. \A r : \A n \in 0..3 : Fresh(r, 0) => Fresh([r EXCEPT !.step = n], n)
  BY DEF Fresh
<1> QED BY <1>1, <1>2

LEMMA InitFileInv == ASSUME MaxRecords \in Nat, Files!Init PROVE FileInv
<1>1. Files!TypeOK
  BY DEF Files!Init, Files!TypeOK, Files!Records, Files!NotLoaded, Files!NoBatch, Files!Left, Files!InProject, Files!InStorage
<1>2. FilesKnown /\ MigrationGoesOn /\ AllStripped /\ NewAreLater
  BY DEF Files!Init, FilesKnown, MigrationGoesOn, AllStripped, NewAreLater, Files!NotLoaded, Files!Left, Files!InProject
<1>3. Files!DiffsKept /\ Files!MarkerTells
  BY DEF Files!Init, Files!DiffsKept, Files!MarkerTells, Files!Left, Files!InProject, Files!InStorage
<1>4. InTables
  BY DEF Files!Init, InTables, ImportIsFirst, ImportIsKnown, Files!ImportedWhole, Files!RemovedStay
<1> QED BY <1>1, <1>2, <1>3, <1>4 DEF FileInv, InFiles

\* What index.ts, the import and the user do to the tables leaves the files alone.
LEMMA FilesStay ==
  ASSUME MaxRecords \in Nat, FileInv, UNCHANGED <<origin, files, messages, marker>>,
         \/ UNCHANGED <<migration, diffs, failed>> /\ (process' = process \/ migration.step = 0)
         \/ UNCHANGED <<diffs, failed>> /\ migration' = Files!NotLoaded
  PROVE  InFiles'
<1>1. FilesKnown'
  BY DEF FileInv, InFiles, FilesKnown
<1>2. MigrationGoesOn'
  BY DEF FileInv, InFiles, MigrationGoesOn, Files!NotLoaded, Stripped, Files!Decodes, Files!NamesOther
<1>3. AllStripped'
  BY DEF FileInv, InFiles, AllStripped, Stripped, Files!Decodes, Files!NamesOther, Files!Records
<1>4. NewAreLater'
  BY DEF FileInv, InFiles, NewAreLater, Files!NotLoaded, Files!Records
<1>5. Files!DiffsKept' /\ Files!MarkerTells'
  BY DEF FileInv, InFiles, Files!DiffsKept, Files!MarkerTells, Files!Decodes, Files!NamesOther, Files!Records
<1> QED BY <1>1, <1>2, <1>3, <1>4, <1>5 DEF InFiles

\* The migrations and the program at work leave the tables alone.
LEMMA TablesStay ==
  ASSUME MaxRecords \in Nat, FileInv, process = "running",
         UNCHANGED <<origin, plain, opened, rows, removed, dropped, imported>>,
         process' = "running" \/ process' = "down"
  PROVE  InTables'
<1>1. plain => opened
  BY DEF FileInv, InTables, ImportIsKnown
<1>2. imported = Files!NoBatch
  BY DEF FileInv, InTables, ImportIsKnown
<1>3. ImportIsFirst' /\ ImportIsKnown'
  BY <1>1, <1>2 DEF ImportIsFirst, ImportIsKnown, Files!NoBatch
<1>4. Files!ImportedWhole' /\ Files!RemovedStay'
  BY DEF FileInv, InTables, Files!ImportedWhole, Files!RemovedStay, Files!Records
<1> QED BY <1>3, <1>4 DEF InTables

\* The file of the session that a migration has come to changes.
LEMMA FileChanges ==
  ASSUME MaxRecords \in Nat, FileInv, migration.step \in {1, 2}, migration.at \in Files!Records,
         NEW what \in {"full", "slim", "broken"}, files' = [files EXCEPT ![migration.at] = what],
         UNCHANGED <<origin, diffs, marker, failed>>,
         \/ origin[migration.at] \in {"taken", "nameless"} /\ migration.step = 1 /\ what # "slim"
         \/ ~Files!NamesOther(migration.at) /\ diffs[migration.at] = "old" /\ what # "full"
  PROVE  /\ FilesKnown' /\ AllStripped' /\ Files!DiffsKept'
         /\ messages' = messages => Files!MarkerTells'
         /\ files' \in [Files!Records -> {"none", "full", "slim", "broken"}]
         /\ \A s \in Files!Records : files[s] # "none" => files'[s] # "none"
         /\ migration.step = 2 => \A s \in Files!Records : Stripped(s) => Stripped(s)'
<1> DEFINE cur == migration.at
<1>1. \A s \in Files!Records : files'[s] = IF s = cur THEN what ELSE files[s]
  BY DEF FileInv, Files!TypeOK
<1>2. ASSUME NEW s \in Files!Records, Stripped(s) PROVE Stripped(s)'
  <2>1. Files!Decodes(s)' => Files!Decodes(s) \/ origin[s] = "taken"
    BY <1>1 DEF Files!Decodes
  <2> QED BY <1>2, <2>1 DEF Stripped, Files!NamesOther
<1>3. FilesKnown'
  BY <1>1 DEF FileInv, InFiles, FilesKnown, Files!NamesOther
<1>4. AllStripped'
  BY <1>2 DEF FileInv, InFiles, AllStripped
<1>5. Files!DiffsKept'
  BY <1>1 DEF FileInv, InFiles, Files!DiffsKept, Files!InStorage
<1>6. ASSUME messages' = messages PROVE Files!MarkerTells'
  <2>1. marker = 2 => \A s \in Files!Records : Stripped(s)'
    BY <1>2 DEF FileInv, InFiles, AllStripped
  <2> QED BY <1>1, <1>6, <2>1 DEF FileInv, InFiles, Files!MarkerTells, Stripped
<1>7. files' \in [Files!Records -> {"none", "full", "slim", "broken"}]
  BY DEF FileInv, Files!TypeOK
<1> QED BY <1>1, <1>2, <1>3, <1>4, <1>5, <1>6, <1>7

LEMMA CrashKeeps ==
  ASSUME MaxRecords \in Nat, FileInv, Files!Crash
  PROVE  FileInv' /\ \A s \in Files!Records : diffs[s] = "new" /\ diffs'[s] # "new" => failed
<1>0. /\ process' = "down" /\ imported' = Files!NoBatch /\ migration' = Files!NotLoaded /\ process # "down"
      /\ UNCHANGED <<origin, plain, messages, opened, rows, failed, dropped, removed>>
  BY DEF Files!Crash
<1>1. migration'.step = 0 /\ migration' \in [step : 0..3, at : 1..MaxRecords + 1, half : BOOLEAN]
      /\ imported' \in [at : 1..MaxRecords + 1, rows : SUBSET Files!Records]
  BY <1>0 DEF Files!NotLoaded, Files!NoBatch
<1>2. MigrationGoesOn'
  BY <1>1 DEF MigrationGoesOn
<1>3. InTables'
  <2>1. plain => opened
    BY <1>0 DEF FileInv, InTables, ImportIsKnown
  <2>2. ImportIsFirst' /\ ImportIsKnown'
    BY <1>0, <2>1 DEF ImportIsFirst, ImportIsKnown, Files!NoBatch
  <2>3. Files!ImportedWhole' /\ Files!RemovedStay'
    BY <1>0 DEF FileInv, InTables, Files!ImportedWhole, Files!RemovedStay, Files!Records
  <2> QED BY <2>2, <2>3 DEF InTables
<1>4. CASE UNCHANGED <<files, diffs, marker>>
  <2>1. Files!TypeOK'
    BY <1>0, <1>1, <1>4 DEF FileInv, Files!TypeOK
  <2>2. InFiles'
    BY <1>0, <1>4, FilesStay
  <2> QED BY <1>3, <1>4, <2>1, <2>2 DEF FileInv
<1>5. CASE /\ Files!CopiesFile \/ (Files!WritesSlim /\ ~Files!NamesOther(migration.at))
           /\ files' = [files EXCEPT ![migration.at] = "broken"] /\ UNCHANGED <<diffs, marker>>
  <2>1. /\ migration.step \in {1, 2} /\ migration.at \in Files!Records
        /\ \/ origin[migration.at] \in {"taken", "nameless"} /\ migration.step = 1
           \/ ~Files!NamesOther(migration.at) /\ diffs[migration.at] = "old"
    BY <1>5 DEF Files!CopiesFile, Files!WritesSlim, Files!Step, Files!At, FileInv, InFiles, MigrationGoesOn
  <2>2. /\ FilesKnown' /\ AllStripped' /\ Files!DiffsKept' /\ Files!MarkerTells'
        /\ files' \in [Files!Records -> {"none", "full", "slim", "broken"}]
    BY <1>0, <1>5, <2>1, FileChanges
  <2>3. Files!TypeOK'
    BY <1>0, <1>1, <1>5, <2>2 DEF FileInv, Files!TypeOK
  <2>4. NewAreLater'
    BY <1>0, <1>1, <1>5 DEF FileInv, InFiles, NewAreLater, Files!Records
  <2> QED BY <1>2, <1>3, <1>5, <2>2, <2>3, <2>4 DEF FileInv, InFiles
<1>6. CASE Files!WritesDiffs /\ diffs' = [diffs EXCEPT ![migration.at] = "cut"] /\ UNCHANGED <<files, marker>>
  <2>1. migration.step = 2 /\ migration.at \in Files!Records /\ Files!Decodes(migration.at) /\ marker = 1
    BY <1>6 DEF Files!WritesDiffs, Files!Step, Files!At, FileInv, InFiles, MigrationGoesOn
  <2>2. \A s \in Files!Records : diffs'[s] = IF s = migration.at THEN "cut" ELSE diffs[s]
    BY <1>6 DEF FileInv, Files!TypeOK
  <2>3. Files!TypeOK'
    BY <1>0, <1>1, <1>6 DEF FileInv, Files!TypeOK
  <2>4. FilesKnown' /\ AllStripped'
    BY <1>0, <1>6, <2>1 DEF FileInv, InFiles, FilesKnown, AllStripped, Files!Records
  <2>5. NewAreLater'
    BY <1>0, <1>1, <1>6, <2>1, <2>2 DEF FileInv, InFiles, NewAreLater, Files!Records
  <2>6. Files!DiffsKept' /\ Files!MarkerTells'
    BY <1>0, <1>6, <2>1, <2>2 DEF FileInv, InFiles, Files!DiffsKept, Files!MarkerTells, Files!Decodes, Files!Records
  <2>7. \A s \in Files!Records : diffs[s] = "new" => failed
    BY <2>1 DEF FileInv, InFiles, NewAreLater
  <2> QED BY <1>2, <1>3, <2>3, <2>4, <2>5, <2>6, <2>7 DEF FileInv, InFiles
<1>7. CASE Files!Marks /\ marker' = 0 /\ UNCHANGED <<files, diffs>>
  <2>1. migration.step \in {1, 2}
    BY <1>7 DEF Files!Marks
  <2>2. Files!TypeOK'
    BY <1>0, <1>1, <1>7 DEF FileInv, Files!TypeOK
  <2>3. FilesKnown' /\ AllStripped' /\ Files!DiffsKept' /\ Files!MarkerTells'
    BY <1>0, <1>7 DEF FileInv, InFiles, FilesKnown, AllStripped, Files!DiffsKept, Files!MarkerTells, Files!Records
  <2>4. NewAreLater'
    BY <1>0, <1>1, <1>7, <2>1 DEF FileInv, InFiles, NewAreLater, Files!Records
  <2> QED BY <1>2, <1>3, <1>7, <2>2, <2>3, <2>4 DEF FileInv, InFiles
<1> QED BY <1>4, <1>5, <1>6, <1>7 DEF Files!Crash, Files!At

LEMMA CopyKeeps ==
  ASSUME MaxRecords \in Nat, FileInv, Files!Copy
  PROVE  FileInv' /\ UNCHANGED diffs
<1> DEFINE cur == migration.at
<1>1. /\ migration.step = 1 /\ cur \in Files!Records /\ process = "running"
      /\ UNCHANGED <<origin, plain, diffs, marker, opened, rows, imported, process, failed, dropped, removed>>
  BY DEF Files!Copy, Files!Step, Files!At, FileInv, InFiles, MigrationGoesOn
<1>2. InTables'
  BY <1>1, TablesStay
<1>3. migration' \in {Files!NextSession, Files!Halfway}
  BY DEF Files!Copy
<1>4. migration' \in [step : 0..3, at : 1..MaxRecords + 1, half : BOOLEAN] /\ migration'.step = 1
  BY <1>1, <1>3, Further DEF FileInv
<1>5. NewAreLater'
  BY <1>1, <1>4 DEF FileInv, InFiles, NewAreLater, Files!Records
<1>6. CASE Files!CopiesFile
  <2>1. /\ files' = [files EXCEPT ![cur] = "full"] /\ UNCHANGED messages
        /\ origin[cur] \in {"taken", "nameless"}
        /\ \/ origin[cur] = "taken" /\ migration' = Files!Halfway
           \/ origin[cur] # "taken" /\ migration' = Files!NextSession
    BY <1>6 DEF Files!Copy, Files!CopiesFile, Files!At
  <2>2. /\ FilesKnown' /\ AllStripped' /\ Files!DiffsKept' /\ Files!MarkerTells'
        /\ files' \in [Files!Records -> {"none", "full", "slim", "broken"}]
        /\ \A s \in Files!Records : files[s] # "none" => files'[s] # "none"
    BY <1>1, <2>1, FileChanges
  <2>3. files'[cur] = "full"
    BY <1>1, <2>1 DEF FileInv, Files!TypeOK
  <2>4. Files!TypeOK'
    BY <1>1, <1>4, <2>1, <2>2 DEF FileInv, Files!TypeOK
  <2>5. \A s \in 1..cur - 1 : s \in Files!Records
    BY <1>1 DEF Files!Records
  <2>6. CASE migration' = Files!Halfway
    <3>1. migration'.at = cur
      BY <1>1, <2>6, Further DEF FileInv
    <3>2. MigrationGoesOn'
      BY <1>1, <1>4, <2>1, <2>2, <2>3, <2>5, <3>1 DEF FileInv, InFiles, MigrationGoesOn
    <3> QED BY <1>1, <1>2, <1>5, <2>2, <2>4, <3>2 DEF FileInv, InFiles
  <2>7. CASE origin[cur] # "taken" /\ migration' = Files!NextSession
    <3>1. ~migration'.half /\ \A s \in 1..migration'.at - 1 : s \in 1..cur - 1 \/ s = cur
      BY <1>1, <2>7, Further DEF FileInv
    <3>2. MigrationGoesOn'
      BY <1>1, <1>4, <2>1, <2>2, <2>3, <2>5, <2>7, <3>1 DEF FileInv, InFiles, MigrationGoesOn
    <3> QED BY <1>1, <1>2, <1>5, <2>2, <2>4, <3>2 DEF FileInv, InFiles
  <2> QED BY <2>1, <2>6, <2>7
<1>7. CASE ~Files!CopiesFile
  <2>1. /\ migration' = Files!NextSession /\ UNCHANGED files
        /\ messages' = IF origin[cur] = "taken" THEN messages \cup {cur} ELSE messages
    BY <1>7 DEF Files!Copy, Files!At
  <2>2. origin[cur] \in {"taken", "nameless"} => files[cur] # "none"
    BY <1>1, <1>7 DEF Files!CopiesFile, Files!Step, Files!At, FileInv, InFiles, MigrationGoesOn
  <2>3. ~migration'.half /\ \A s \in 1..migration'.at - 1 : s \in 1..cur - 1 \/ s = cur
    BY <1>1, <2>1, Further DEF FileInv
  <2>4. Files!TypeOK'
    BY <1>1, <1>4, <2>1 DEF FileInv, Files!TypeOK
  <2>5. FilesKnown' /\ AllStripped' /\ Files!DiffsKept'
    BY <1>1, <2>1 DEF FileInv, InFiles, FilesKnown, AllStripped, Stripped, Files!Decodes, Files!NamesOther, Files!DiffsKept, Files!Records
  <2>6. Files!MarkerTells'
    BY <1>1, <2>1 DEF FileInv, InFiles, Files!MarkerTells, Files!Decodes, Files!NamesOther, Files!Records
  <2>7. MigrationGoesOn'
    BY <1>1, <1>4, <2>1, <2>2, <2>3 DEF FileInv, InFiles, MigrationGoesOn
  <2> QED BY <1>1, <1>2, <1>5, <2>4, <2>5, <2>6, <2>7 DEF FileInv, InFiles
<1> QED BY <1>6, <1>7

LEMMA StripKeeps ==
  ASSUME MaxRecords \in Nat, FileInv, Files!Strip
  PROVE  FileInv' /\ \A s \in Files!Records : diffs[s] = "new" /\ diffs'[s] # "new" => failed
<1> DEFINE cur == migration.at
<1>1. /\ migration.step = 2 /\ cur \in Files!Records /\ files[cur] # "broken" /\ process = "running" /\ marker = 1
      /\ UNCHANGED <<origin, plain, messages, marker, opened, rows, imported, process, failed, dropped, removed>>
  BY DEF Files!Strip, Files!Step, Files!At, FileInv, InFiles, MigrationGoesOn
<1>2. InTables'
  BY <1>1, TablesStay
<1>3. migration' \in {Files!NextSession, Files!Halfway}
  BY DEF Files!Strip
<1>4. migration' \in [step : 0..3, at : 1..MaxRecords + 1, half : BOOLEAN] /\ migration'.step = 2
  BY <1>1, <1>3, Further DEF FileInv
<1>5. \A s \in 1..cur - 1 : s \in Files!Records
  BY <1>1 DEF Files!Records
<1>6. CASE Files!WritesDiffs
  <2>1. diffs' = [diffs EXCEPT ![cur] = "old"] /\ migration' = Files!Halfway /\ UNCHANGED files /\ Files!Decodes(cur)
    BY <1>6 DEF Files!Strip, Files!WritesDiffs, Files!At
  <2>2. \A s \in Files!Records : diffs'[s] = IF s = cur THEN "old" ELSE diffs[s]
    BY <2>1 DEF FileInv, Files!TypeOK
  <2>3. Files!TypeOK'
    BY <1>1, <1>4, <2>1 DEF FileInv, Files!TypeOK
  <2>4. migration'.at = cur
    BY <1>1, <2>1, Further DEF FileInv
  <2>5. \A s \in Files!Records : Stripped(s) => Stripped(s)'
    BY <1>1, <2>1, <2>2 DEF Stripped, Files!Decodes, Files!NamesOther
  <2>6. MigrationGoesOn'
    BY <1>1, <1>4, <1>5, <2>2, <2>4, <2>5 DEF FileInv, InFiles, MigrationGoesOn
  <2>7. FilesKnown' /\ AllStripped'
    BY <1>1, <2>1 DEF FileInv, InFiles, FilesKnown, AllStripped, Files!Records
  <2>8. NewAreLater'
    BY <1>1, <1>4, <2>2 DEF FileInv, InFiles, NewAreLater, Files!Records
  <2>9. Files!DiffsKept' /\ Files!MarkerTells'
    BY <1>1, <2>1, <2>2 DEF FileInv, InFiles, Files!DiffsKept, Files!MarkerTells, Files!Records
  <2>10. \A s \in Files!Records : diffs[s] = "new" => failed
    BY <1>1 DEF FileInv, InFiles, NewAreLater
  <2> QED BY <1>2, <2>3, <2>6, <2>7, <2>8, <2>9, <2>10 DEF FileInv, InFiles
<1>7. CASE ~Files!WritesDiffs
  <2>1. migration' = Files!NextSession /\ UNCHANGED diffs
    BY <1>7 DEF Files!Strip
  <2>2. ~migration'.half /\ \A s \in 1..migration'.at - 1 : s \in 1..cur - 1 \/ s = cur
    BY <1>1, <2>1, Further DEF FileInv
  <2>3. NewAreLater'
    BY <1>1, <1>4, <2>1 DEF FileInv, InFiles, NewAreLater, Files!Records
  <2>4. Files!Decodes(cur) => diffs[cur] = "old"
    BY <1>1, <1>7 DEF Files!WritesDiffs, Files!Step, Files!At, FileInv, InFiles, MigrationGoesOn
  <2>5. origin[cur] = "taken" => Files!Decodes(cur)
    <3>1. origin[cur] = "taken" => files[cur] \in {"none", "full", "slim", "broken"} \ {"none", "slim", "broken"}
      BY <1>1 DEF FileInv, InFiles, FilesKnown, Files!MarkerTells, Files!TypeOK
    <3> QED BY <3>1 DEF Files!Decodes
  <2>6. CASE Files!WritesSlim /\ ~Files!NamesOther(cur)
    <3>1. files' = [files EXCEPT ![cur] = "slim"] /\ diffs[cur] = "old"
      BY <1>7, <2>4, <2>6 DEF Files!Strip, Files!WritesSlim, Files!At
    <3>2. /\ FilesKnown' /\ AllStripped' /\ Files!DiffsKept' /\ Files!MarkerTells'
          /\ files' \in [Files!Records -> {"none", "full", "slim", "broken"}]
          /\ \A s \in Files!Records : Stripped(s) => Stripped(s)'
      BY <1>1, <2>1, <2>6, <3>1, FileChanges
    <3>3. Files!TypeOK'
      BY <1>1, <1>4, <2>1, <3>2 DEF FileInv, Files!TypeOK
    <3>4. files'[cur] = "slim"
      BY <1>1, <3>1 DEF FileInv, Files!TypeOK
    <3>5. \A s \in Files!Records : s = cur => Stripped(s)'
      BY <1>1, <2>1, <3>1, <3>4 DEF Stripped, Files!Decodes
    <3>6. \A s \in 1..migration'.at - 1 : Stripped(s)'
      BY <1>1, <1>5, <2>2, <3>2, <3>5 DEF FileInv, InFiles, MigrationGoesOn
    <3>7. MigrationGoesOn'
      BY <1>1, <1>4, <2>2, <3>6 DEF MigrationGoesOn
    <3> QED BY <1>2, <2>1, <2>3, <3>2, <3>3, <3>7 DEF FileInv, InFiles
  <2>7. CASE ~(Files!WritesSlim /\ ~Files!NamesOther(cur))
    <3>1. UNCHANGED files
      BY <1>7, <2>7 DEF Files!Strip, Files!At
    <3>2. Files!Decodes(cur) => Files!NamesOther(cur)
      BY <1>1, <1>7, <2>7 DEF Files!WritesDiffs, Files!WritesSlim, Files!Step, Files!At
    <3>3. Stripped(cur)
      BY <2>4, <2>5, <3>2 DEF Stripped
    <3>4. \A s \in Files!Records : Stripped(s) => Stripped(s)'
      BY <1>1, <2>1, <3>1 DEF Stripped, Files!Decodes, Files!NamesOther
    <3>5. MigrationGoesOn'
      BY <1>1, <1>4, <1>5, <2>2, <3>3, <3>4 DEF FileInv, InFiles, MigrationGoesOn
    <3>6. Files!TypeOK'
      BY <1>1, <1>4, <2>1, <3>1 DEF FileInv, Files!TypeOK
    <3>7. FilesKnown' /\ AllStripped' /\ Files!DiffsKept' /\ Files!MarkerTells'
      BY <1>1, <2>1, <3>1 DEF FileInv, InFiles, FilesKnown, AllStripped, Files!DiffsKept, Files!MarkerTells, Files!Records
    <3> QED BY <1>2, <2>1, <2>3, <3>5, <3>6, <3>7 DEF FileInv, InFiles
  <2> QED BY <2>6, <2>7
<1> QED BY <1>6, <1>7

LEMMA MarkKeeps ==
  ASSUME MaxRecords \in Nat, FileInv, Files!Mark
  PROVE  FileInv' /\ UNCHANGED diffs
<1>0. Fresh(migration', migration.step + 1)
  <2>1. migration.step + 1 \in 0..3 /\ migration' = [Files!NotLoaded EXCEPT !.step = migration.step + 1]
    BY DEF Files!Mark, Files!Marks
  <2> QED BY <2>1, Begins
<1>1. /\ migration.step \in {1, 2} /\ migration.at \notin Files!Records /\ marker' = migration.step /\ process = "running"
      /\ UNCHANGED <<origin, plain, files, messages, diffs, opened, rows, imported, process, failed, dropped, removed>>
  BY DEF Files!Mark, Files!Marks, Files!At, FileInv, InFiles, MigrationGoesOn
<1>2. InTables'
  BY <1>1, TablesStay
<1>3. /\ migration'.step = migration.step + 1 /\ migration'.at = 1 /\ ~migration'.half
      /\ migration' \in [step : 0..3, at : 1..MaxRecords + 1, half : BOOLEAN]
  BY <1>0, <1>1 DEF Fresh
<1>4. Files!TypeOK'
  BY <1>1, <1>3 DEF FileInv, Files!TypeOK
<1>5. \A s \in Files!Records : s \in 1..migration.at - 1
  BY <1>1 DEF FileInv, Files!TypeOK, Files!Records
<1>6. \A s \in Files!Records : Stripped(s)' <=> Stripped(s)
  BY <1>1 DEF Stripped, Files!Decodes, Files!NamesOther
<1>7. migration.step = 2 => \A s \in Files!Records : Stripped(s)
  BY <1>5 DEF FileInv, InFiles, MigrationGoesOn
<1>8. AllStripped' /\ FilesKnown' /\ Files!DiffsKept'
  BY <1>1, <1>6, <1>7 DEF FileInv, InFiles, AllStripped, FilesKnown, Files!DiffsKept, Files!Records
<1>9. Files!MarkerTells'
  <2>1. \A s \in Files!Records : /\ origin[s] \in {"taken", "nameless"} => files[s] # "none"
                                 /\ origin[s] = "taken" => s \in messages
    BY <1>1, <1>5 DEF FileInv, InFiles, MigrationGoesOn, Files!MarkerTells
  <2>2. marker' = 2 => \A s \in Files!Records : Files!Decodes(s) => Files!NamesOther(s) /\ diffs[s] \in {"old", "new"}
    BY <1>1, <1>7 DEF Stripped
  <2> QED BY <1>1, <2>1, <2>2 DEF Files!MarkerTells, Files!Decodes, Files!NamesOther
<1>10. MigrationGoesOn'
  BY <1>1, <1>3 DEF MigrationGoesOn
<1>11. NewAreLater'
  BY <1>1, <1>3 DEF FileInv, InFiles, NewAreLater, Files!Records
<1> QED BY <1>1, <1>2, <1>4, <1>8, <1>9, <1>10, <1>11 DEF FileInv, InFiles

\* A migration that begins, and one that fails.
LEMMA MigrationMoves ==
  ASSUME MaxRecords \in Nat, FileInv, process = "running",
         UNCHANGED <<origin, plain, files, messages, diffs, marker, opened, rows, imported, process, dropped, removed>>,
         NEW n \in 0..3, Fresh(migration', n),
         failed' \/ (failed' = failed /\ n = marker + 1),
         n = 2 => marker = 1
  PROVE  FileInv'
<1>1. InTables'
  BY TablesStay
<1>2. migration'.step = n /\ migration'.at = 1 /\ ~migration'.half /\ migration' \in [step : 0..3, at : 1..MaxRecords + 1, half : BOOLEAN]
  <2>1. migration' \in [step : 0..3, at : Nat, half : BOOLEAN] /\ migration'.step = n /\ migration'.at = 1 /\ ~migration'.half
    BY DEF Fresh
  <2> QED BY <2>1
<1>3. Files!TypeOK'
  BY <1>2 DEF FileInv, Files!TypeOK
<1>4. FilesKnown' /\ AllStripped' /\ Files!DiffsKept' /\ Files!MarkerTells'
  BY DEF FileInv, InFiles, FilesKnown, AllStripped, Stripped, Files!Decodes, Files!NamesOther, Files!DiffsKept, Files!MarkerTells, Files!Records
<1>5. MigrationGoesOn'
  BY <1>2 DEF MigrationGoesOn
<1>6. NewAreLater'
  BY <1>2 DEF FileInv, InFiles, NewAreLater, Files!Records, Files!TypeOK
<1> QED BY <1>1, <1>3, <1>4, <1>5, <1>6 DEF FileInv, InFiles

LEMMA NextFileInv ==
  ASSUME MaxRecords \in Nat, FileInv, [Files!Next]_fileVars
  PROVE  FileInv' /\ \A s \in Files!Records : diffs[s] = "new" /\ diffs'[s] # "new" => failed
<1> DEFINE Kept == \A s \in Files!Records : diffs[s] = "new" /\ diffs'[s] # "new" => failed
<1>a. UNCHANGED diffs => Kept
  OBVIOUS
<1>1. CASE Files!Start
  <2>1. /\ process = "down" /\ process' = IF opened THEN "running" ELSE "importing"
        /\ opened' = plain
        /\ UNCHANGED <<origin, plain, files, messages, diffs, marker, rows, imported, migration, failed, dropped, removed>>
    BY <1>1 DEF Files!Start
  <2>2. migration.step = 0 /\ imported = Files!NoBatch
    BY <2>1 DEF FileInv, InFiles, InTables, MigrationGoesOn, ImportIsKnown
  <2>3. Files!TypeOK'
    BY <2>1 DEF FileInv, Files!TypeOK
  <2>4. InFiles'
    BY <2>1, <2>2, FilesStay
  <2>5. plain /\ process' = "importing" => ~opened
    BY <2>1
  <2>6. ImportIsFirst'
    BY <2>1, <2>5 DEF FileInv, InTables, ImportIsFirst
  <2>7. ImportIsKnown'
    BY <2>1, <2>2, <2>5 DEF FileInv, InTables, ImportIsKnown, Files!NoBatch, Files!Records, Files!Importable
  <2>8. Files!ImportedWhole' /\ Files!RemovedStay'
    BY <2>1 DEF FileInv, InTables, Files!ImportedWhole, Files!RemovedStay, Files!Records
  <2> QED BY <1>a, <2>1, <2>3, <2>4, <2>6, <2>7, <2>8 DEF FileInv, InTables
<1>2. CASE Files!Crash
  BY <1>2, CrashKeeps
<1>3. CASE Files!Import
  <2>1. /\ process = "importing" /\ imported.at \in Files!Records
        /\ UNCHANGED <<origin, plain, files, messages, diffs, marker, opened, rows, process, migration, failed, removed>>
    BY <1>3 DEF Files!Import
  <2>2. PICK last \in imported.at..MaxRecords :
          \/ /\ imported' = [at |-> last + 1, rows |-> imported.rows \cup ((imported.at..last) \cap Files!Importable)]
             /\ UNCHANGED dropped
          \/ /\ imported' = [imported EXCEPT !.at = last + 1]
             /\ dropped' = dropped \cup ((imported.at..last) \cap Files!Importable)
    BY <1>3 DEF Files!Import
  <2> DEFINE chunk == (imported.at..last) \cap Files!Importable
  <2>3. imported \in [at : 1..MaxRecords + 1, rows : SUBSET Files!Records] /\ Files!Importable \subseteq Files!Records
    BY DEF FileInv, Files!TypeOK, Files!Importable
  <2>4. /\ imported'.at = last + 1
        /\ \/ imported'.rows = imported.rows \cup chunk /\ dropped' = dropped
           \/ imported'.rows = imported.rows /\ dropped' = dropped \cup chunk
    BY <2>2, <2>3
  <2>5. imported' \in [at : 1..MaxRecords + 1, rows : SUBSET Files!Records]
    BY <2>1, <2>2, <2>3 DEF Files!Records
  <2>6. Files!TypeOK'
    BY <2>1, <2>5 DEF FileInv, Files!TypeOK
  <2>7. InFiles'
    BY <2>1, FilesStay
  <2>8. Files!Importable' = Files!Importable
    BY <2>1 DEF Files!Importable, Files!Records
  <2>9. ASSUME plain
        PROVE  dropped' \subseteq 1..imported'.at - 1 /\ imported'.rows = (Files!Importable \cap 1..imported'.at - 1) \ dropped'
    <3>1. dropped \subseteq 1..imported.at - 1 /\ imported.rows = (Files!Importable \cap 1..imported.at - 1) \ dropped
      BY <2>1, <2>9 DEF FileInv, InTables, ImportIsKnown
    <3>2. \A s \in 1..last : s \in 1..imported.at - 1 \/ s \in imported.at..last
      BY <2>3
    <3>3. \A s \in imported.at..last : s \in 1..last /\ s \notin 1..imported.at - 1
      BY <2>3
    <3>4. 1..imported.at - 1 \subseteq 1..last /\ (last + 1) - 1 = last
      BY <2>3
    <3> QED BY <2>4, <3>1, <3>2, <3>3, <3>4
  <2>10. plain => opened
    BY <2>1 DEF FileInv, InTables, ImportIsKnown
  <2>11. ImportIsFirst' /\ ImportIsKnown'
    BY <2>1, <2>8, <2>9, <2>10 DEF FileInv, InTables, ImportIsFirst, ImportIsKnown
  <2>12. Files!ImportedWhole' /\ Files!RemovedStay'
    BY <2>1 DEF FileInv, InTables, ImportIsFirst, Files!ImportedWhole, Files!RemovedStay
  <2> QED BY <1>a, <2>1, <2>6, <2>7, <2>11, <2>12 DEF FileInv, InTables
<1>4. CASE Files!Commit
  <2>1. /\ process = "importing" /\ imported.at \notin Files!Records
        /\ rows' = rows \cup imported.rows /\ imported' = Files!NoBatch /\ process' = "running"
        /\ UNCHANGED <<origin, plain, files, messages, diffs, marker, opened, migration, failed, dropped, removed>>
    BY <1>4 DEF Files!Commit
  <2>2. migration.step = 0
    BY <2>1 DEF FileInv, InFiles, MigrationGoesOn
  <2>a. imported' \in [at : 1..MaxRecords + 1, rows : SUBSET Files!Records]
    BY <2>1 DEF Files!NoBatch
  <2>3. Files!TypeOK'
    BY <2>1, <2>a DEF FileInv, Files!TypeOK
  <2>4. InFiles'
    BY <2>1, <2>2, FilesStay
  <2>5. ASSUME plain
        PROVE  rows' = {s \in Files!Records : origin[s] \in {"full", "slim", "odd", "moved"}} \ dropped /\ removed = {}
    <3>1. /\ rows = {} /\ removed = {} /\ \A s \in Files!Records : files[s] = Files!Left(origin[s])
          /\ imported.rows = (Files!Importable \cap 1..imported.at - 1) \ dropped
      BY <2>1, <2>5 DEF FileInv, InTables, ImportIsFirst, ImportIsKnown
    <3>2. \A s \in Files!Records : s \in 1..imported.at - 1
      BY <2>1 DEF FileInv, Files!TypeOK, Files!Records
    <3>3. \A s \in Files!Records : s \in Files!Importable <=> origin[s] \in {"full", "slim", "odd", "moved"}
      BY <3>1 DEF FileInv, InFiles, FilesKnown, Files!Importable, Files!Left, Files!InProject, Files!InStorage
    <3>4. Files!Importable \subseteq Files!Records
      BY DEF Files!Importable
    <3> QED BY <2>1, <3>1, <3>2, <3>3, <3>4
  <2>6. plain => opened
    BY <2>1 DEF FileInv, InTables, ImportIsKnown
  <2>7. ImportIsFirst' /\ ImportIsKnown'
    BY <2>1, <2>6 DEF ImportIsFirst, ImportIsKnown
  <2>8. Files!ImportedWhole' /\ Files!RemovedStay'
    BY <2>1, <2>5 DEF Files!ImportedWhole, Files!RemovedStay, Files!Records
  <2> QED BY <1>a, <2>1, <2>3, <2>4, <2>7, <2>8 DEF FileInv, InTables
<1>5. CASE Files!Load
  <2>1. /\ process = "running"
        /\ UNCHANGED <<origin, plain, files, messages, diffs, marker, opened, rows, imported, process, dropped, removed>>
    BY <1>5 DEF Files!Load
  <2>2. CASE migration' = [Files!NotLoaded EXCEPT !.step = marker + 1] /\ UNCHANGED failed
    <3>2. marker + 1 \in 0..3 /\ (marker + 1 = 2 => marker = 1)
      BY DEF FileInv, Files!TypeOK
    <3>1. Fresh(migration', marker + 1)
      BY <2>2, <3>2, Begins
    <3>3. failed' \/ (failed' = failed /\ marker + 1 = marker + 1)
      BY <2>2
    <3>4. FileInv'
      BY <2>1, <3>1, <3>2, <3>3, MigrationMoves
    <3> QED BY <1>a, <2>1, <3>4
  <2>3. CASE migration' = [Files!NotLoaded EXCEPT !.step = 1] /\ failed' = TRUE
    <3>1. Fresh(migration', 1)
      BY <2>3, Begins
    <3>2. 1 \in 0..3 /\ 1 # 2 /\ failed'
      BY <2>3
    <3>3. FileInv'
      BY <2>1, <3>1, <3>2, MigrationMoves
    <3> QED BY <1>a, <2>1, <3>3
  <2> QED BY <1>5, <2>2, <2>3 DEF Files!Load
<1>6. CASE Files!Copy
  BY <1>6, <1>a, CopyKeeps
<1>7. CASE Files!Strip
  BY <1>7, StripKeeps
<1>8. CASE Files!MigrationFails
  <2>1. /\ Fresh(migration', 3) /\ failed' = TRUE /\ migration.step \in {1, 2}
        /\ UNCHANGED <<origin, plain, files, messages, diffs, marker, opened, rows, imported, process, dropped, removed>>
    BY <1>8 DEF Files!MigrationFails, Files!Loaded, Fresh
  <2>2. process = "running" /\ 3 \in 0..3
    BY <2>1 DEF FileInv, InFiles, MigrationGoesOn
  <2>3. FileInv'
    BY <2>1, <2>2, MigrationMoves
  <2> QED BY <1>a, <2>1, <2>3
<1>9. CASE Files!Mark
  BY <1>9, <1>a, MarkKeeps
<1>10. CASE Files!WriteDiffs
  <2>1. PICK s \in rows : diffs' = [diffs EXCEPT ![s] = "new"]
    BY <1>10 DEF Files!WriteDiffs
  <2>2. /\ process = "running" /\ migration.step = 3
        /\ UNCHANGED <<origin, plain, files, messages, marker, opened, rows, imported, process, migration, failed, dropped, removed>>
    BY <1>10 DEF Files!WriteDiffs, Files!Step
  <2>3. InTables'
    BY <2>2, TablesStay
  <2>4. Files!TypeOK'
    BY <2>1, <2>2 DEF FileInv, Files!TypeOK
  <2>5. \A r \in Files!Records : diffs'[r] = "new" \/ diffs'[r] = diffs[r]
    BY <2>1 DEF FileInv, Files!TypeOK
  <2>6. \A r \in Files!Records : Stripped(r) => Stripped(r)'
    BY <2>2, <2>5 DEF Stripped, Files!Decodes, Files!NamesOther
  <2>7. FilesKnown' /\ MigrationGoesOn' /\ AllStripped'
    BY <2>2, <2>6 DEF FileInv, InFiles, FilesKnown, MigrationGoesOn, AllStripped, Files!Records
  <2>8. NewAreLater'
    BY <2>2 DEF FileInv, InFiles, NewAreLater
  <2>9. Files!DiffsKept' /\ Files!MarkerTells'
    BY <2>2, <2>5 DEF FileInv, InFiles, Files!DiffsKept, Files!MarkerTells, Files!Decodes, Files!NamesOther, Files!Records
  <2>10. Kept
    BY <2>5
  <2> QED BY <2>3, <2>4, <2>7, <2>8, <2>9, <2>10 DEF FileInv, InFiles
<1>11. CASE Files!Remove
  <2>1. PICK s \in rows : rows' = rows \ {s} /\ removed' = removed \cup {s}
    BY <1>11 DEF Files!Remove
  <2>2. /\ process = "running"
        /\ UNCHANGED <<origin, plain, files, messages, diffs, marker, opened, imported, process, migration, failed, dropped>>
    BY <1>11 DEF Files!Remove
  <2>3. Files!TypeOK'
    BY <2>1, <2>2 DEF FileInv, Files!TypeOK
  <2>4. rows' \cup removed' = rows \cup removed /\ (plain => opened)
    BY <2>1, <2>2 DEF FileInv, InTables, ImportIsKnown
  <2>5. InFiles'
    BY <2>2, FilesStay
  <2>6. ImportIsFirst' /\ ImportIsKnown'
    BY <2>2, <2>4 DEF FileInv, InTables, ImportIsFirst, ImportIsKnown
  <2>7. Files!ImportedWhole' /\ Files!RemovedStay'
    BY <2>1, <2>2, <2>4 DEF FileInv, InTables, Files!ImportedWhole, Files!RemovedStay, Files!Records
  <2> QED BY <1>a, <2>2, <2>3, <2>5, <2>6, <2>7 DEF FileInv, InTables
<1>12. CASE UNCHANGED fileVars
  <2>1. UNCHANGED <<origin, plain, files, messages, diffs, marker, opened, rows, imported, process, migration, failed, dropped, removed>>
    BY <1>12 DEF fileVars
  <2>2. Files!TypeOK'
    BY <2>1 DEF FileInv, Files!TypeOK
  <2>3. InFiles'
    BY <2>1, FilesStay
  <2>4. ImportIsFirst' /\ ImportIsKnown'
    BY <2>1 DEF FileInv, InTables, ImportIsFirst, ImportIsKnown, Files!Importable, Files!Records
  <2>5. Files!ImportedWhole' /\ Files!RemovedStay'
    BY <2>1 DEF FileInv, InTables, Files!ImportedWhole, Files!RemovedStay, Files!Records
  <2> QED BY <1>a, <2>1, <2>2, <2>3, <2>4, <2>5 DEF FileInv, InTables
<1> QED BY <1>1, <1>2, <1>3, <1>4, <1>5, <1>6, <1>7, <1>8, <1>9, <1>10, <1>11, <1>12 DEF Files!Next

\* Wherever the program is killed and whatever cannot be read, written or inserted, the
\* sessions that an older version left are imported once, but for the batches that failed,
\* their diffs are in one place or the other, the marker tells what was done, and new diffs
\* are replaced by old ones only when something has failed (json-migration.ts and the
\* migrations of storage.ts).
THEOREM OldSessionsAreKept ==
  ASSUME MaxRecords \in Nat
  PROVE  Spec => []SessionsKept /\ Files!NewDiffsKept
<1> DEFINE Kept == \A s \in Files!Records : diffs[s] = "new" /\ diffs'[s] # "new" => failed
<1>1. Init => FileInv
  BY InitFileInv, Starts DEF PartsStart
<1>2. FileInv /\ [Next]_vars => FileInv' /\ Kept
  BY NextFileInv, Steps DEF PartsStep
<1>3. FileInv => SessionsKept
  BY DEF FileInv, InFiles, InTables, SessionsKept, Files!SessionsKept
<1>4. [][Kept]_fileVars => Files!NewDiffsKept
  BY PTL DEF Files!NewDiffsKept, Files!storageVars, fileVars
<1> HIDE DEF Kept
<1> QED BY <1>1, <1>2, <1>3, <1>4, PTL DEF Spec


-----------------------------------------------------------------------------
(* The plugins of the terminal client *)

Runtimes == [phase : {"up", "ending", "disposing", "down"}, at : Nat, left : Nat, waits : Plugins!Scopes \cup {NoScope}]

\* Plugins are numbered as they are listed, and one that has been started is listed.
PluginsAreListed ==
    /\ runtime \in Runtimes
    /\ installed \in Found..Found + Added
    /\ enabled \in [Plugins!Plugins -> BOOLEAN]
    /\ scope \in [Plugins!Plugins -> Plugins!Scopes \cup {NoScope}]
    /\ plugin \in [Plugins!Scopes -> Nat]
    /\ stage \in [Plugins!Scopes -> {"new", "running", "kept", "cleaning", "hanging", "late", "gone"}]
    /\ list \in [Plugins!Scopes -> Seq(Plugins!Hooks)]
    /\ hooks \in [Plugins!Scopes -> SUBSET (Plugins!Hooks \cup {Plugins!Stray})]
    /\ \A s \in Plugins!Scopes : stage[s] # "new" => plugin[s] \in 1..installed

\* A plugin has the scope that was kept for it, and none while its code runs, unless two
\* activations of it ran at once.
ScopesAreOwn ==
    /\ \A p \in Plugins!Plugins : scope[p] # NoScope => stage[scope[p]] = "kept" /\ plugin[scope[p]] = p
    /\ \A s \in Plugins!Scopes : stage[s] = "kept" => scope[plugin[s]] = s \/ plugin[s] \in twice
    /\ \A s \in Plugins!Scopes : stage[s] = "running" => scope[plugin[s]] = NoScope \/ plugin[s] \in twice
    /\ \A s, t \in Plugins!Scopes :
          stage[s] = "running" /\ stage[t] = "running" /\ plugin[s] = plugin[t] => s = t \/ plugin[s] \in twice

\* What the client has from a scope is in its list until the list is given up, but for
\* what was registered when the scope was done.
HooksAreListed ==
    \A s \in Plugins!Scopes :
        /\ stage[s] \in {"new", "gone"} => hooks[s] \subseteq {Plugins!Stray}
        /\ stage[s] # "late" => \A h \in hooks[s] \ {Plugins!Stray} : \E i \in 1..Len(list[s]) : list[s][i] = h

\* dispose has switched off what it has come to, and knows nothing of what is switched on
\* after that.
SwitchedOff ==
    /\ \A p \in Plugins!Plugins : scope[p] # NoScope => enabled[p]
    /\ runtime.phase \in {"disposing", "down"} =>
          runtime.left <= installed /\ \A p \in runtime.left + 1..installed : enabled[p] => p \in again
    /\ runtime.phase = "down" => runtime.left = 0

PluginInv == PluginsAreListed /\ ScopesAreOwn /\ HooksAreListed /\ SwitchedOff

PluginConstants == Found \in Nat /\ Added \in Nat /\ NoScope \notin Plugins!Scopes

LEMMA PluginNumbers ==
  ASSUME PluginConstants, PluginsAreListed
  PROVE  /\ Plugins!Plugins = 1..Found + Added /\ Plugins!Plugins \subseteq Plugins!Scopes /\ Activations \subseteq Plugins!Scopes
         /\ installed \in Nat /\ \A n \in 1..installed : n \in Plugins!Plugins
BY DEF PluginConstants, PluginsAreListed, Plugins!Plugins, Plugins!Scopes

LEMMA Removed ==
  ASSUME NEW S, NEW seq \in Seq(S), NEW i \in 1..Len(seq)
  PROVE  /\ Plugins!RemoveAt(seq, i) \in Seq(S)
         /\ \A j \in 1..Len(seq) : j # i =>
               \E k \in 1..Len(Plugins!RemoveAt(seq, i)) : Plugins!RemoveAt(seq, i)[k] = seq[j]
<1> DEFINE front == SubSeq(seq, 1, i - 1)
<1> DEFINE back == SubSeq(seq, i + 1, Len(seq))
<1> DEFINE rest == front \o back
<1>1. /\ front \in Seq(S) /\ Len(front) = i - 1 /\ \A j \in 1..i - 1 : front[j] = seq[j]
      /\ back \in Seq(S) /\ Len(back) = Len(seq) - i /\ \A j \in 1..Len(seq) - i : back[j] = seq[i + j]
  OBVIOUS
<1>2. rest = Plugins!RemoveAt(seq, i)
  BY DEF Plugins!RemoveAt
<1> HIDE DEF front, back
<1>3. /\ rest \in Seq(S) /\ Len(rest) = Len(front) + Len(back)
      /\ \A k \in 1..Len(front) + Len(back) : rest[k] = IF k <= Len(front) THEN front[k] ELSE back[k - Len(front)]
  <2>1. front \in Seq(S) /\ back \in Seq(S)
    BY <1>1
  <2> QED BY <2>1, ConcatProperties
<1> HIDE DEF rest
<1>4. ASSUME NEW j \in 1..Len(seq), j # i PROVE \E k \in 1..Len(rest) : rest[k] = seq[j]
  <2>1. CASE j < i
    <3>1. j \in 1..Len(rest) /\ rest[j] = front[j] /\ front[j] = seq[j]
      BY <1>1, <1>3, <2>1
    <3> QED BY <3>1
  <2>2. CASE j > i
    <3>1. j - 1 \in 1..Len(rest) /\ j - i \in 1..Len(seq) - i /\ (j - 1) - Len(front) = j - i
      BY <1>1, <1>3, <2>2
    <3>a. j - 1 \in 1..Len(front) + Len(back) /\ ~(j - 1 <= Len(front))
      BY <1>1, <2>2
    <3>b. rest[j - 1] = back[(j - 1) - Len(front)]
      BY <1>3, <3>a
    <3>2. rest[j - 1] = back[j - i] /\ back[j - i] = seq[i + (j - i)]
      BY <1>1, <3>1, <3>b
    <3>3. i + (j - i) = j
      OBVIOUS
    <3> QED BY <3>1, <3>2, <3>3
  <2> QED BY <1>4, <2>1, <2>2
<1> QED BY <1>2, <1>3, <1>4

LEMMA InitPluginInv == ASSUME PluginConstants, Plugins!Init PROVE PluginInv
<1>1. runtime \in Runtimes
  BY DEF Plugins!Init, Runtimes
<1>2. PluginsAreListed
  BY <1>1 DEF PluginConstants, Plugins!Init, PluginsAreListed, Plugins!Plugins, Plugins!Scopes
<1>3. ScopesAreOwn /\ HooksAreListed /\ SwitchedOff
  BY DEF Plugins!Init, ScopesAreOwn, HooksAreListed, SwitchedOff
<1> QED BY <1>2, <1>3 DEF PluginInv

\* What registering and cleaning up do to one scope.
LEMMA ListChanges ==
  ASSUME PluginConstants, PluginInv, NEW s \in Plugins!Scopes,
         UNCHANGED <<runtime, installed, enabled, scope, plugin, twice, again>>,
         NEW x, x = stage[s] \/ (stage[s] \in {"cleaning", "hanging"} /\ x \in {"cleaning", "hanging", "gone", "late"}),
         NEW l \in Seq(Plugins!Hooks), NEW H \in SUBSET (Plugins!Hooks \cup {Plugins!Stray}),
         stage' = [stage EXCEPT ![s] = x], list' = [list EXCEPT ![s] = l], hooks' = [hooks EXCEPT ![s] = H],
         x \in {"new", "gone"} => H \subseteq {Plugins!Stray},
         x # "late" => \A h \in H \ {Plugins!Stray} : \E i \in 1..Len(l) : l[i] = h
  PROVE  PluginInv'
<1>0. /\ stage'[s] = x /\ list'[s] = l /\ hooks'[s] = H
      /\ \A t \in Plugins!Scopes : t # s => stage'[t] = stage[t] /\ list'[t] = list[t] /\ hooks'[t] = hooks[t]
  BY DEF PluginInv, PluginsAreListed
<1>1. PluginsAreListed'
  <2>1. list' \in [Plugins!Scopes -> Seq(Plugins!Hooks)] /\ hooks' \in [Plugins!Scopes -> SUBSET (Plugins!Hooks \cup {Plugins!Stray})]
    BY DEF PluginInv, PluginsAreListed
  <2>2. stage' \in [Plugins!Scopes -> {"new", "running", "kept", "cleaning", "hanging", "late", "gone"}]
    BY DEF PluginInv, PluginsAreListed
  <2>3. \A t \in Plugins!Scopes : stage'[t] # "new" => stage[t] # "new"
    BY <1>0
  <2> QED BY <2>1, <2>2, <2>3 DEF PluginInv, PluginsAreListed
<1>2. ScopesAreOwn'
  <2>1. \A t \in Plugins!Scopes : stage[t] \in {"kept", "running"} \/ stage'[t] \in {"kept", "running"} => stage'[t] = stage[t]
    BY <1>0
  <2> QED BY <2>1 DEF PluginInv, PluginsAreListed, ScopesAreOwn
<1>3. HooksAreListed'
  BY <1>0 DEF PluginInv, PluginsAreListed, HooksAreListed
<1>4. SwitchedOff'
  BY DEF PluginInv, SwitchedOff
<1> QED BY <1>1, <1>2, <1>3, <1>4 DEF PluginInv

\* The plugin's code begins, or nothing but enabled changes.
LEMMA ActivateKeeps ==
  ASSUME PluginConstants, PluginInv, NEW p \in Plugins!Plugins, NEW s \in Plugins!Scopes, Plugins!Activate(p, s),
         \/ installed' = installed /\ p \in 1..installed
         \/ installed' = installed + 1 /\ p = installed + 1 /\ installed < Found + Added,
         UNCHANGED runtime
  PROVE  PluginInv'
<1>1. /\ stage[s] = "new" /\ enabled' = [enabled EXCEPT ![p] = TRUE] /\ UNCHANGED <<scope, list, hooks>>
      /\ again' = IF Plugins!Late THEN again \cup {p} ELSE again
      /\ \/ UNCHANGED <<plugin, stage, twice>>
         \/ /\ scope[p] = NoScope /\ plugin' = [plugin EXCEPT ![s] = p] /\ stage' = [stage EXCEPT ![s] = "running"]
            /\ twice' = IF Plugins!Starting(p) THEN twice \cup {p} ELSE twice
  BY DEF Plugins!Activate
<1>2. installed' \in Found..Found + Added /\ installed <= installed' /\ p \in 1..installed' /\ installed \in Nat
  BY DEF PluginInv, PluginsAreListed, PluginConstants
<1>3. PluginsAreListed'
  <2>a. plugin \in [Plugins!Scopes -> Nat] /\ \A t \in Plugins!Scopes : stage[t] # "new" => plugin[t] \in 1..installed
    BY DEF PluginInv, PluginsAreListed
  <2>b. \A t \in Plugins!Scopes : \/ plugin'[t] = plugin[t] /\ stage'[t] = stage[t]
                                  \/ plugin'[t] = p
    BY <1>1 DEF PluginInv, PluginsAreListed
  <2>1. \A t \in Plugins!Scopes : stage'[t] # "new" => plugin'[t] \in 1..installed'
    BY <1>2, <2>a, <2>b
  <2>c. p \in Nat
    BY <1>2
  <2>2. plugin' \in [Plugins!Scopes -> Nat]
    BY <1>1, <2>a, <2>c
  <2>3. enabled' \in [Plugins!Plugins -> BOOLEAN]
    BY <1>1 DEF PluginInv, PluginsAreListed
  <2>4. stage' \in [Plugins!Scopes -> {"new", "running", "kept", "cleaning", "hanging", "late", "gone"}]
    BY <1>1 DEF PluginInv, PluginsAreListed
  <2>5. /\ runtime' \in Runtimes /\ scope' \in [Plugins!Plugins -> Plugins!Scopes \cup {NoScope}]
        /\ list' \in [Plugins!Scopes -> Seq(Plugins!Hooks)]
        /\ hooks' \in [Plugins!Scopes -> SUBSET (Plugins!Hooks \cup {Plugins!Stray})]
    BY <1>1 DEF PluginInv, PluginsAreListed
  <2> QED BY <1>2, <2>1, <2>2, <2>3, <2>4, <2>5 DEF PluginsAreListed
<1>4. ScopesAreOwn'
  <2>1. CASE UNCHANGED <<plugin, stage, twice>>
    BY <1>1, <2>1 DEF PluginInv, PluginsAreListed, ScopesAreOwn
  <2>2. CASE /\ scope[p] = NoScope /\ plugin' = [plugin EXCEPT ![s] = p] /\ stage' = [stage EXCEPT ![s] = "running"]
             /\ twice' = IF Plugins!Starting(p) THEN twice \cup {p} ELSE twice
    <3>0. twice \subseteq twice' /\ \A t \in Plugins!Scopes : plugin[t] = p /\ stage[t] = "running" => p \in twice'
      BY <2>2 DEF Plugins!Starting
    <3>1. /\ plugin'[s] = p /\ stage'[s] = "running"
          /\ \A t \in Plugins!Scopes : t # s => plugin'[t] = plugin[t] /\ stage'[t] = stage[t]
      BY <2>2 DEF PluginInv, PluginsAreListed
    <3>2. \A q \in Plugins!Plugins : scope[q] # NoScope => scope[q] \in Plugins!Scopes /\ scope[q] # s
      BY <1>1 DEF PluginInv, PluginsAreListed, ScopesAreOwn
    <3>3. \A q \in Plugins!Plugins : scope'[q] # NoScope => stage'[scope'[q]] = "kept" /\ plugin'[scope'[q]] = q
      BY <1>1, <3>1, <3>2 DEF PluginInv, ScopesAreOwn
    <3>4. ASSUME NEW t \in Plugins!Scopes, stage'[t] = "kept" PROVE scope'[plugin'[t]] = t \/ plugin'[t] \in twice'
      <4>1. t # s
        BY <3>1, <3>4
      <4>2. plugin'[t] = plugin[t] /\ stage[t] = "kept" /\ scope' = scope
        BY <1>1, <3>1, <3>4, <4>1
      <4> QED BY <3>0, <4>2 DEF PluginInv, ScopesAreOwn
    <3>5. ASSUME NEW t \in Plugins!Scopes, stage'[t] = "running" PROVE scope'[plugin'[t]] = NoScope \/ plugin'[t] \in twice'
      <4>1. CASE t = s
        BY <1>1, <2>2, <3>1, <4>1
      <4>2. CASE t # s
        <5>1. plugin'[t] = plugin[t] /\ stage[t] = "running" /\ scope' = scope
          BY <1>1, <3>1, <3>5, <4>2
        <5> QED BY <3>0, <5>1 DEF PluginInv, ScopesAreOwn
      <4> QED BY <4>1, <4>2
    <3>6. ASSUME NEW t \in Plugins!Scopes, NEW u \in Plugins!Scopes, stage'[t] = "running", stage'[u] = "running",
                 plugin'[t] = plugin'[u], t # u
          PROVE  plugin'[t] \in twice'
      <4>1. CASE t = s
        BY <3>0, <3>1, <3>6, <4>1
      <4>2. CASE u = s
        BY <3>0, <3>1, <3>6, <4>2
      <4>3. CASE t # s /\ u # s
        <5>1. stage[t] = "running" /\ stage[u] = "running" /\ plugin[t] = plugin[u] /\ plugin'[t] = plugin[t]
          BY <3>1, <3>6, <4>3
        <5> QED BY <3>0, <3>6, <5>1 DEF PluginInv, ScopesAreOwn
      <4> QED BY <4>1, <4>2, <4>3
    <3> QED BY <3>3, <3>4, <3>5, <3>6 DEF ScopesAreOwn
  <2> QED BY <1>1, <2>1, <2>2
<1>5. HooksAreListed'
  <2>1. \A t \in Plugins!Scopes : stage'[t] = stage[t] \/ (t = s /\ stage'[t] = "running")
    BY <1>1 DEF PluginInv, PluginsAreListed
  <2>2. list' = list /\ hooks' = hooks
    BY <1>1
  <2>3. ASSUME NEW t \in Plugins!Scopes, stage'[t] \in {"new", "gone"} PROVE hooks'[t] \subseteq {Plugins!Stray}
    BY <2>1, <2>2, <2>3 DEF PluginInv, HooksAreListed
  <2>4. ASSUME NEW t \in Plugins!Scopes, stage'[t] # "late", NEW h \in hooks'[t] \ {Plugins!Stray}
        PROVE  \E i \in 1..Len(list'[t]) : list'[t][i] = h
    <3>1. stage[t] # "late"
      BY <1>1, <2>1, <2>4
    <3> QED BY <2>2, <2>4, <3>1 DEF PluginInv, HooksAreListed
  <2> QED BY <2>3, <2>4 DEF HooksAreListed
<1>6. SwitchedOff'
  <2>1. \A q \in Plugins!Plugins : (q = p \/ enabled[q] => enabled'[q]) /\ (enabled'[q] => q = p \/ enabled[q])
    BY <1>1 DEF PluginInv, PluginsAreListed
  <2>2. \A q \in Plugins!Plugins : scope'[q] # NoScope => enabled'[q]
    BY <1>1, <2>1 DEF PluginInv, SwitchedOff
  <2>3. ASSUME runtime.phase \in {"disposing", "down"}
        PROVE  runtime.left <= installed' /\ \A q \in runtime.left + 1..installed' : enabled'[q] => q \in again'
    <3>1. again' = again \cup {p}
      BY <1>1, <2>3 DEF Plugins!Late
    <3>2. /\ runtime.left \in Nat /\ runtime.left <= installed
          /\ \A q \in runtime.left + 1..installed : enabled[q] => q \in again
      BY <2>3 DEF PluginInv, PluginsAreListed, SwitchedOff, Runtimes
    <3>3. \A q \in runtime.left + 1..installed' : q = p \/ q \in runtime.left + 1..installed
      BY <1>2, <3>2
    <3>4. \A q \in runtime.left + 1..installed : q \in Plugins!Plugins
      BY <3>2, PluginNumbers DEF PluginInv
    <3> QED BY <1>2, <2>1, <3>1, <3>2, <3>3, <3>4
  <2>4. runtime' = runtime
    OBVIOUS
  <2>5. runtime.phase = "down" => runtime.left = 0
    BY DEF PluginInv, SwitchedOff
  <2> QED BY <2>2, <2>3, <2>4, <2>5 DEF SwitchedOff
<1> QED BY <1>3, <1>4, <1>5, <1>6 DEF PluginInv

LEMMA DeactivateKeeps ==
  ASSUME PluginConstants, PluginInv, NEW p \in Plugins!Plugins, Plugins!Deactivate(p), UNCHANGED installed,
         \/ UNCHANGED runtime
         \/ /\ runtime.phase = "disposing" /\ p = runtime.left
            /\ runtime' = [runtime EXCEPT !.left = @ - 1, !.waits = scope[p]]
  PROVE  PluginInv'
<1>1. /\ enabled' = [enabled EXCEPT ![p] = FALSE] /\ scope' = [scope EXCEPT ![p] = NoScope]
      /\ UNCHANGED <<plugin, list, hooks, installed, twice, again>>
      /\ stage' = IF scope[p] = NoScope THEN stage ELSE [stage EXCEPT ![scope[p]] = "cleaning"]
  BY DEF Plugins!Deactivate
<1>2. /\ runtime'.phase = runtime.phase /\ runtime' \in Runtimes /\ runtime.left \in Nat
      /\ \/ runtime'.left = runtime.left
         \/ runtime.phase = "disposing" /\ p = runtime.left /\ runtime'.left = runtime.left - 1
  <2>1. runtime \in Runtimes /\ scope[p] \in Plugins!Scopes \cup {NoScope} /\ p \in Nat \ {0}
    BY PluginNumbers DEF PluginInv, PluginsAreListed, PluginConstants
  <2>2. CASE UNCHANGED runtime
    BY <2>1, <2>2 DEF Runtimes
  <2>3. CASE /\ runtime.phase = "disposing" /\ p = runtime.left
             /\ runtime' = [runtime EXCEPT !.left = @ - 1, !.waits = scope[p]]
    <3>1. runtime' = [phase |-> runtime.phase, at |-> runtime.at, left |-> runtime.left - 1, waits |-> scope[p]]
      BY <2>1, <2>3 DEF Runtimes
    <3>2. runtime.left - 1 \in Nat /\ runtime.phase \in {"up", "ending", "disposing", "down"} /\ runtime.at \in Nat
      BY <2>1, <2>3 DEF Runtimes
    <3> QED BY <2>1, <2>3, <3>1, <3>2 DEF Runtimes
  <2> QED BY <2>2, <2>3
<1>3. PluginsAreListed'
  <2>1. enabled' \in [Plugins!Plugins -> BOOLEAN] /\ scope' \in [Plugins!Plugins -> Plugins!Scopes \cup {NoScope}]
    BY <1>1 DEF PluginInv, PluginsAreListed
  <2>2. stage' \in [Plugins!Scopes -> {"new", "running", "kept", "cleaning", "hanging", "late", "gone"}]
    BY <1>1 DEF PluginInv, PluginsAreListed
  <2>3. \A t \in Plugins!Scopes : stage'[t] # "new" => stage[t] # "new"
    BY <1>1 DEF PluginInv, PluginsAreListed, ScopesAreOwn
  <2> QED BY <1>1, <1>2, <2>1, <2>2, <2>3 DEF PluginInv, PluginsAreListed
<1>4. ScopesAreOwn'
  <2>1. \A t \in Plugins!Scopes : stage'[t] \in {"kept", "running"} => stage'[t] = stage[t] /\ t # scope[p]
    BY <1>1 DEF PluginInv, PluginsAreListed, ScopesAreOwn, PluginConstants
  <2>2. \A q \in Plugins!Plugins : scope'[q] = IF q = p THEN NoScope ELSE scope[q]
    BY <1>1 DEF PluginInv, PluginsAreListed
  <2>3. ASSUME NEW q \in Plugins!Plugins, scope'[q] # NoScope PROVE stage'[scope'[q]] = "kept" /\ plugin'[scope'[q]] = q
    <3>1. q # p /\ scope'[q] = scope[q] /\ scope[q] \in Plugins!Scopes /\ stage[scope[q]] = "kept" /\ plugin[scope[q]] = q
      BY <2>2, <2>3 DEF PluginInv, PluginsAreListed, ScopesAreOwn
    <3>2. scope[p] # scope[q]
      BY <3>1, PluginConstants DEF PluginInv, ScopesAreOwn, PluginConstants
    <3>3. stage'[scope[q]] = stage[scope[q]]
      BY <1>1, <3>1, <3>2 DEF PluginInv, PluginsAreListed
    <3> QED BY <1>1, <3>1, <3>3
  <2>4. \A t \in Plugins!Scopes : stage[t] # "new" => plugin[t] \in Plugins!Plugins
    BY PluginNumbers DEF PluginInv, PluginsAreListed
  <2>5. ASSUME NEW t \in Plugins!Scopes, stage'[t] = "kept" PROVE scope'[plugin'[t]] = t \/ plugin'[t] \in twice'
    <3>1. stage[t] = "kept" /\ t # scope[p] /\ plugin[t] \in Plugins!Plugins
      BY <2>1, <2>4, <2>5
    <3>2. scope[plugin[t]] = t \/ plugin[t] \in twice
      BY <3>1 DEF PluginInv, ScopesAreOwn
    <3> QED BY <1>1, <2>2, <3>1, <3>2
  <2>6. ASSUME NEW t \in Plugins!Scopes, stage'[t] = "running" PROVE scope'[plugin'[t]] = NoScope \/ plugin'[t] \in twice'
    <3>1. stage[t] = "running" /\ plugin[t] \in Plugins!Plugins
      BY <2>1, <2>4, <2>6
    <3>2. scope[plugin[t]] = NoScope \/ plugin[t] \in twice
      BY <3>1 DEF PluginInv, ScopesAreOwn
    <3> QED BY <1>1, <2>2, <3>1, <3>2
  <2>7. \A t, u \in Plugins!Scopes :
          stage'[t] = "running" /\ stage'[u] = "running" /\ plugin'[t] = plugin'[u] => t = u \/ plugin'[t] \in twice'
    BY <1>1, <2>1 DEF PluginInv, ScopesAreOwn
  <2> QED BY <2>3, <2>5, <2>6, <2>7 DEF ScopesAreOwn
<1>5. HooksAreListed'
  <2>1. \A t \in Plugins!Scopes : stage'[t] = stage[t] \/ (stage[t] = "kept" /\ stage'[t] = "cleaning")
    BY <1>1 DEF PluginInv, PluginsAreListed, ScopesAreOwn
  <2>2. list' = list /\ hooks' = hooks
    BY <1>1
  <2>3. \A t \in Plugins!Scopes : /\ stage'[t] \in {"new", "gone"} => stage[t] = stage'[t]
                                  /\ stage'[t] # "late" => stage[t] # "late"
    BY <2>1
  <2> QED BY <2>2, <2>3 DEF PluginInv, HooksAreListed
<1>6. SwitchedOff'
  <2>1. \A q \in Plugins!Plugins : (enabled'[q] <=> enabled[q] /\ q # p) /\ (scope'[q] # NoScope => scope[q] # NoScope /\ q # p)
    BY <1>1 DEF PluginInv, PluginsAreListed
  <2>2. \A q \in Plugins!Plugins : scope'[q] # NoScope => enabled'[q]
    BY <2>1 DEF PluginInv, SwitchedOff
  <2>3. ASSUME runtime'.phase \in {"disposing", "down"}
        PROVE  runtime'.left <= installed' /\ \A q \in runtime'.left + 1..installed' : enabled'[q] => q \in again'
    <3>1. runtime.left <= installed /\ \A q \in runtime.left + 1..installed : enabled[q] => q \in again
      BY <1>2, <2>3 DEF PluginInv, SwitchedOff
    <3>2. installed' = installed /\ installed \in Nat /\ again' = again
      BY <1>1, PluginNumbers DEF PluginInv
    <3>3. \A q \in runtime'.left + 1..installed : q \in Plugins!Plugins /\ (q = p \/ q \in runtime.left + 1..installed)
      BY <1>2, <3>2, <2>3, PluginNumbers DEF PluginInv, Runtimes
    <3>4. runtime'.left <= installed
      BY <1>2, <3>1, <3>2
    <3> QED BY <2>1, <3>1, <3>2, <3>3, <3>4
  <2>4. runtime'.phase = "down" => runtime'.left = 0
    BY <1>2 DEF PluginInv, SwitchedOff
  <2> QED BY <2>2, <2>3, <2>4 DEF SwitchedOff
<1> QED BY <1>3, <1>4, <1>5, <1>6 DEF PluginInv

LEMMA NextPluginInv == ASSUME PluginConstants, PluginInv, [Plugins!Next]_pluginVars PROVE PluginInv'
<1>0. /\ list \in [Plugins!Scopes -> Seq(Plugins!Hooks)] /\ hooks \in [Plugins!Scopes -> SUBSET (Plugins!Hooks \cup {Plugins!Stray})]
      /\ stage \in [Plugins!Scopes -> {"new", "running", "kept", "cleaning", "hanging", "late", "gone"}]
      /\ \A s \in Plugins!Scopes :
            stage[s] # "late" => \A h \in hooks[s] \ {Plugins!Stray} : \E i \in 1..Len(list[s]) : list[s][i] = h
      /\ \A s \in Plugins!Scopes : stage[s] \in {"new", "gone"} => hooks[s] \subseteq {Plugins!Stray}
  BY DEF PluginInv, PluginsAreListed, HooksAreListed
<1>1. ASSUME NEW s \in Plugins!Scopes, NEW own \in BOOLEAN, Plugins!Register(s, own) PROVE PluginInv'
  <2>1. PICK n \in 1..MaxHooks : /\ list' = [list EXCEPT ![s] = Append(@, [n |-> n, own |-> own])]
                                 /\ hooks' = [hooks EXCEPT ![s] = @ \cup {[n |-> n, own |-> own]}]
    BY <1>1 DEF Plugins!Register
  <2> DEFINE h == [n |-> n, own |-> own]
  <2> DEFINE l == Append(list[s], h)
  <2> DEFINE H == hooks[s] \cup {h}
  <2>2. stage[s] \in {"running", "kept"} /\ UNCHANGED <<runtime, installed, enabled, scope, plugin, stage, twice, again>>
    BY <1>1 DEF Plugins!Register, Plugins!Open
  <2>3. h \in Plugins!Hooks
    BY DEF Plugins!Hooks
  <2>4. list' = [list EXCEPT ![s] = l] /\ hooks' = [hooks EXCEPT ![s] = H] /\ stage' = [stage EXCEPT ![s] = stage[s]]
    BY <1>0, <2>1, <2>2
  <2>a. list[s] \in Seq(Plugins!Hooks) /\ Len(list[s]) \in Nat /\ \A g \in hooks[s] \ {Plugins!Stray} : \E i \in 1..Len(list[s]) : list[s][i] = g
    BY <1>0, <2>2
  <2> HIDE DEF h
  <2>5. l \in Seq(Plugins!Hooks) /\ Len(l) = Len(list[s]) + 1 /\ (\A i \in 1..Len(list[s]) : l[i] = list[s][i]) /\ l[Len(list[s]) + 1] = h
    BY <2>a, <2>3, AppendProperties
  <2> HIDE DEF l
  <2>6. ASSUME NEW g \in H \ {Plugins!Stray} PROVE \E i \in 1..Len(l) : l[i] = g
    <3>1. CASE g = h
      BY <2>5, <2>a, <3>1
    <3>2. CASE g \in hooks[s]
      <4>1. PICK i \in 1..Len(list[s]) : list[s][i] = g
        BY <2>a, <2>6, <3>2
      <4> QED BY <2>5, <2>a, <4>1
    <3> QED BY <2>6, <3>1, <3>2
  <2>7. H \in SUBSET (Plugins!Hooks \cup {Plugins!Stray})
    BY <1>0, <2>3
  <2> HIDE DEF H
  <2> QED BY <2>2, <2>4, <2>5, <2>6, <2>7, ListChanges
<1>2. ASSUME NEW s \in Plugins!Scopes, Plugins!RegisterLate(s) PROVE PluginInv'
  <2> DEFINE H == hooks[s] \cup {Plugins!Stray}
  <2>1. /\ stage[s] \notin {"new", "running", "kept"} /\ hooks' = [hooks EXCEPT ![s] = H]
        /\ UNCHANGED <<runtime, installed, enabled, scope, plugin, stage, list, twice, again>>
    BY <1>2 DEF Plugins!RegisterLate, Plugins!Open
  <2>2. list' = [list EXCEPT ![s] = list[s]] /\ stage' = [stage EXCEPT ![s] = stage[s]] /\ list[s] \in Seq(Plugins!Hooks)
    BY <1>0, <2>1
  <2>3. /\ H \in SUBSET (Plugins!Hooks \cup {Plugins!Stray})
        /\ stage[s] \in {"new", "gone"} => H \subseteq {Plugins!Stray}
        /\ stage[s] # "late" => \A h \in H \ {Plugins!Stray} : \E i \in 1..Len(list[s]) : list[s][i] = h
    BY <1>0
  <2> HIDE DEF H
  <2> QED BY <2>1, <2>2, <2>3, ListChanges
<1>3. ASSUME NEW s \in Plugins!Scopes, Plugins!Unregister(s) PROVE PluginInv'
  <2>0. list[s] \in Seq(Plugins!Hooks) /\ DOMAIN list[s] = 1..Len(list[s])
    BY <1>0
  <2>1. UNCHANGED <<runtime, installed, enabled, scope, plugin, stage, twice, again>>
    BY <1>3 DEF Plugins!Unregister
  <2>2. stage' = [stage EXCEPT ![s] = stage[s]]
    BY <1>0, <2>1
  <2>3. CASE /\ Plugins!Open(s)
             /\ \E i \in DOMAIN list[s] : /\ hooks' = [hooks EXCEPT ![s] = @ \ {list[s][i]}]
                                          /\ list' = [list EXCEPT ![s] = Plugins!RemoveAt(@, i)]
    <3>1. PICK i \in 1..Len(list[s]) : /\ hooks' = [hooks EXCEPT ![s] = @ \ {list[s][i]}]
                                       /\ list' = [list EXCEPT ![s] = Plugins!RemoveAt(@, i)]
      BY <2>0, <2>3, Zenon
    <3> DEFINE rest == Plugins!RemoveAt(list[s], i)
    <3> DEFINE H == hooks[s] \ {list[s][i]}
    <3>2. stage[s] \in {"running", "kept"}
      BY <2>3 DEF Plugins!Open
    <3>3. /\ rest \in Seq(Plugins!Hooks)
          /\ \A j \in 1..Len(list[s]) : j # i => \E k \in 1..Len(rest) : rest[k] = list[s][j]
      BY <2>0, Removed, Zenon
    <3>4. list' = [list EXCEPT ![s] = rest] /\ hooks' = [hooks EXCEPT ![s] = H]
      BY <1>0, <3>1
    <3> HIDE DEF rest
    <3>5. ASSUME NEW g \in H \ {Plugins!Stray} PROVE \E k \in 1..Len(rest) : rest[k] = g
      <4>1. PICK j \in 1..Len(list[s]) : list[s][j] = g
        BY <1>0, <3>2, <3>5
      <4> QED BY <3>3, <3>5, <4>1
    <3>6. H \in SUBSET (Plugins!Hooks \cup {Plugins!Stray})
      BY <1>0
    <3> HIDE DEF H
    <3> QED BY <2>1, <2>2, <3>2, <3>3, <3>4, <3>5, <3>6, ListChanges
  <2>4. CASE (\E h \in hooks[s] : hooks' = [hooks EXCEPT ![s] = @ \ {h}]) /\ UNCHANGED list
    <3>1. PICK h \in hooks[s] : hooks' = [hooks EXCEPT ![s] = @ \ {h}]
      BY <2>4
    <3> DEFINE H == hooks[s] \ {h}
    <3>2. list' = [list EXCEPT ![s] = list[s]] /\ hooks' = [hooks EXCEPT ![s] = H]
      BY <1>0, <2>4, <3>1
    <3>3. /\ H \in SUBSET (Plugins!Hooks \cup {Plugins!Stray})
          /\ stage[s] \in {"new", "gone"} => H \subseteq {Plugins!Stray}
          /\ stage[s] # "late" => \A g \in H \ {Plugins!Stray} : \E i \in 1..Len(list[s]) : list[s][i] = g
      BY <1>0
    <3> HIDE DEF H
    <3> QED BY <2>0, <2>1, <2>2, <3>2, <3>3, ListChanges
  <2> QED BY <1>3, <2>3, <2>4 DEF Plugins!Unregister
<1>4. ASSUME NEW s \in Plugins!Scopes, Plugins!Cleanup(s) PROVE PluginInv'
  <2>1. stage[s] = "cleaning" /\ UNCHANGED <<runtime, installed, enabled, scope, plugin, twice, again>>
    BY <1>4 DEF Plugins!Cleanup
  <2>a. /\ list[s] \in Seq(Plugins!Hooks) /\ Len(list[s]) \in Nat /\ hooks[s] \in SUBSET (Plugins!Hooks \cup {Plugins!Stray})
        /\ \A g \in hooks[s] \ {Plugins!Stray} : \E i \in 1..Len(list[s]) : list[s][i] = g
    BY <1>0, <2>1
  <2>2. CASE list[s] = <<>>
    <3>1. stage' = [stage EXCEPT ![s] = "gone"] /\ UNCHANGED <<list, hooks>>
      BY <1>4, <2>2 DEF Plugins!Cleanup
    <3>2. hooks[s] \subseteq {Plugins!Stray}
      BY <2>a, <2>2
    <3> DEFINE l == list[s]
    <3> DEFINE H == hooks[s]
    <3>3. list' = [list EXCEPT ![s] = l] /\ hooks' = [hooks EXCEPT ![s] = H]
      BY <1>0, <3>1
    <3>4. /\ l \in Seq(Plugins!Hooks) /\ H \in SUBSET (Plugins!Hooks \cup {Plugins!Stray}) /\ H \subseteq {Plugins!Stray}
          /\ \A g \in H \ {Plugins!Stray} : \E i \in 1..Len(l) : l[i] = g
      BY <2>a, <3>2
    <3> HIDE DEF l, H
    <3> QED BY <2>1, <3>1, <3>3, <3>4, ListChanges
  <2>3. CASE list[s] # <<>>
    <3> DEFINE last == Len(list[s])
    <3> DEFINE rest == SubSeq(list[s], 1, last - 1)
    <3> DEFINE H == hooks[s] \ {list[s][last]}
    <3>0. last \in Nat \ {0}
      BY <2>a, <2>3
    <3>1. CASE list' = [list EXCEPT ![s] = SubSeq(@, 1, Len(@) - 1)] /\ hooks' = [hooks EXCEPT ![s] = @ \ {list[s][last]}] /\ UNCHANGED stage
      <4>1. rest \in Seq(Plugins!Hooks) /\ Len(rest) = last - 1 /\ \A j \in 1..last - 1 : rest[j] = list[s][j]
        BY <2>a, <3>0
      <4>2. list' = [list EXCEPT ![s] = rest] /\ hooks' = [hooks EXCEPT ![s] = H] /\ stage' = [stage EXCEPT ![s] = stage[s]]
        BY <1>0, <3>1
      <4> HIDE DEF rest
      <4>3. ASSUME NEW g \in H \ {Plugins!Stray} PROVE \E k \in 1..Len(rest) : rest[k] = g
        <5>1. PICK j \in 1..last : list[s][j] = g
          BY <2>a, <4>3
        <5> QED BY <3>0, <4>1, <4>3, <5>1
      <4>4. H \in SUBSET (Plugins!Hooks \cup {Plugins!Stray})
        BY <2>a
      <4> HIDE DEF H
      <4> QED BY <2>1, <4>1, <4>2, <4>3, <4>4, ListChanges
    <3>2. CASE stage' = [stage EXCEPT ![s] = "hanging"] /\ UNCHANGED <<list, hooks>>
      <4> DEFINE l == list[s]
      <4> DEFINE G == hooks[s]
      <4>1. list' = [list EXCEPT ![s] = l] /\ hooks' = [hooks EXCEPT ![s] = G]
        BY <1>0, <3>2
      <4>2. /\ l \in Seq(Plugins!Hooks) /\ G \in SUBSET (Plugins!Hooks \cup {Plugins!Stray})
            /\ \A g \in G \ {Plugins!Stray} : \E i \in 1..Len(l) : l[i] = g
        BY <2>a
      <4> HIDE DEF l, G
      <4> QED BY <2>1, <3>2, <4>1, <4>2, ListChanges
    <3> QED BY <1>4, <2>3, <3>1, <3>2 DEF Plugins!Cleanup
  <2> QED BY <2>2, <2>3
<1>5. ASSUME NEW s \in Plugins!Scopes, Plugins!Timeout(s) PROVE PluginInv'
  <2>1. /\ stage[s] = "hanging" /\ UNCHANGED <<runtime, installed, enabled, scope, plugin, hooks, twice, again>>
        /\ stage' = [stage EXCEPT ![s] = "late"] /\ list' = [list EXCEPT ![s] = <<>>]
    BY <1>5 DEF Plugins!Timeout
  <2>2. /\ hooks' = [hooks EXCEPT ![s] = hooks[s]] /\ hooks[s] \in SUBSET (Plugins!Hooks \cup {Plugins!Stray})
        /\ <<>> \in Seq(Plugins!Hooks)
    BY <1>0, <2>1
  <2> QED BY <2>1, <2>2, ListChanges
<1>a. runtime \in Runtimes /\ installed \in Nat /\ (runtime.phase = "down" => runtime.left = 0)
  BY PluginNumbers DEF PluginInv, PluginsAreListed, SwitchedOff
<1>b. [runtime EXCEPT !.at = @ + 1] = [phase |-> runtime.phase, at |-> runtime.at + 1, left |-> runtime.left, waits |-> runtime.waits]
  BY <1>a DEF Runtimes
\* load goes on.
<1>c. ASSUME runtime' \in {runtime, [runtime EXCEPT !.at = @ + 1], [runtime EXCEPT !.at = 0]}
      PROVE  runtime' \in Runtimes /\ runtime'.phase = runtime.phase /\ runtime'.left = runtime.left
  <2>1. [runtime EXCEPT !.at = 0] = [phase |-> runtime.phase, at |-> 0, left |-> runtime.left, waits |-> runtime.waits]
    BY <1>a DEF Runtimes
  <2> QED BY <1>a, <1>b, <1>c, <2>1 DEF Runtimes
<1>6. ASSUME NEW s \in Plugins!Scopes, Plugins!Return(s) \/ Plugins!Throw(s) PROVE PluginInv'
  <2>0. /\ stage[s] = "running" /\ plugin[s] \in 1..installed /\ plugin[s] \in Plugins!Plugins
        /\ scope[plugin[s]] = NoScope \/ plugin[s] \in twice
        /\ UNCHANGED <<installed, enabled, plugin, list, hooks, twice, again>>
    <3>1. stage[s] = "running" /\ UNCHANGED <<installed, enabled, plugin, list, hooks, twice, again>>
      BY <1>6 DEF Plugins!Return, Plugins!Throw
    <3> QED BY <3>1, PluginNumbers DEF PluginInv, PluginsAreListed, ScopesAreOwn
  <2>1. runtime' \in Runtimes /\ runtime'.phase = runtime.phase /\ runtime'.left = runtime.left
    <3>1. runtime' \in {runtime, [runtime EXCEPT !.at = @ + 1]}
      BY <1>6 DEF Plugins!Return, Plugins!Throw, Plugins!LoadGoesOn
    <3> QED BY <1>c, <3>1
  <2>2. CASE enabled[plugin[s]] /\ stage' = [stage EXCEPT ![s] = "kept"] /\ scope' = [scope EXCEPT ![plugin[s]] = s]
    <3>1. stage'[s] = "kept" /\ \A t \in Plugins!Scopes : t # s => stage'[t] = stage[t]
      BY <1>0, <2>2
    <3>2. scope'[plugin[s]] = s /\ \A q \in Plugins!Plugins : q # plugin[s] => scope'[q] = scope[q]
      BY <2>0, <2>2 DEF PluginInv, PluginsAreListed
    <3>3. PluginsAreListed'
      <4>1. stage' \in [Plugins!Scopes -> {"new", "running", "kept", "cleaning", "hanging", "late", "gone"}]
        BY <1>0, <2>2
      <4>2. scope' \in [Plugins!Plugins -> Plugins!Scopes \cup {NoScope}]
        BY <2>2 DEF PluginInv, PluginsAreListed
      <4>3. \A t \in Plugins!Scopes : stage'[t] # "new" => stage[t] # "new"
        BY <2>0, <3>1
      <4> QED BY <2>0, <2>1, <4>1, <4>2, <4>3 DEF PluginInv, PluginsAreListed
    <3>4. \A t \in Plugins!Scopes : stage[t] # "new" => plugin[t] \in Plugins!Plugins
      BY PluginNumbers DEF PluginInv, PluginsAreListed
    <3>5. ASSUME NEW q \in Plugins!Plugins, scope'[q] # NoScope PROVE stage'[scope'[q]] = "kept" /\ plugin'[scope'[q]] = q
      <4>1. CASE q = plugin[s]
        BY <2>0, <3>1, <3>2, <4>1
      <4>2. CASE q # plugin[s]
        <5>1. scope'[q] = scope[q] /\ scope[q] \in Plugins!Scopes /\ stage[scope[q]] = "kept" /\ plugin[scope[q]] = q
          BY <3>2, <3>5, <4>2 DEF PluginInv, PluginsAreListed, ScopesAreOwn
        <5>2. scope[q] # s
          BY <2>0, <5>1
        <5> QED BY <2>0, <3>1, <5>1, <5>2
      <4> QED BY <4>1, <4>2
    \* Another activation of the same plugin, kept or running, makes it one that ran twice.
    <3>6. ASSUME NEW t \in Plugins!Scopes, stage'[t] \in {"kept", "running"}, t # s, plugin[t] \notin twice
          PROVE  stage[t] = stage'[t] /\ plugin[t] # plugin[s] /\ scope'[plugin[t]] = scope[plugin[t]]
      <4>1. stage[t] = stage'[t] /\ plugin[t] \in Plugins!Plugins
        BY <3>1, <3>4, <3>6
      <4>2. plugin[t] # plugin[s]
        BY <2>0, <3>6, <4>1 DEF PluginInv, ScopesAreOwn, PluginConstants
      <4> QED BY <3>2, <4>1, <4>2
    <3>7. \A t \in Plugins!Scopes : stage'[t] = "kept" => scope'[plugin'[t]] = t \/ plugin'[t] \in twice'
      <4>1. ASSUME NEW t \in Plugins!Scopes, stage'[t] = "kept", t # s, plugin[t] \notin twice PROVE scope'[plugin[t]] = t
        BY <3>6, <4>1 DEF PluginInv, ScopesAreOwn
      <4> QED BY <2>0, <3>2, <4>1
    <3>8. \A t \in Plugins!Scopes : stage'[t] = "running" => scope'[plugin'[t]] = NoScope \/ plugin'[t] \in twice'
      <4>1. ASSUME NEW t \in Plugins!Scopes, stage'[t] = "running", t # s, plugin[t] \notin twice PROVE scope'[plugin[t]] = NoScope
        BY <3>6, <4>1 DEF PluginInv, ScopesAreOwn
      <4> QED BY <2>0, <3>1, <4>1
    <3>9. \A t, u \in Plugins!Scopes :
            stage'[t] = "running" /\ stage'[u] = "running" /\ plugin'[t] = plugin'[u] => t = u \/ plugin'[t] \in twice'
      <4>1. \A t \in Plugins!Scopes : stage'[t] = "running" => t # s /\ stage[t] = "running"
        BY <3>1
      <4> QED BY <2>0, <4>1 DEF PluginInv, ScopesAreOwn
    <3>10. HooksAreListed'
      <4>1. \A t \in Plugins!Scopes : /\ stage'[t] \in {"new", "gone"} => stage[t] = stage'[t]
                                      /\ stage'[t] # "late" => stage[t] # "late"
        BY <2>0, <3>1
      <4> QED BY <2>0, <4>1 DEF PluginInv, HooksAreListed
    <3>11. SwitchedOff'
      <4>1. \A q \in Plugins!Plugins : scope'[q] # NoScope => enabled'[q]
        BY <2>0, <2>2, <3>2 DEF PluginInv, SwitchedOff
      <4> QED BY <2>0, <2>1, <4>1 DEF PluginInv, SwitchedOff
    <3>12. ScopesAreOwn'
      BY <3>5, <3>7, <3>8, <3>9 DEF ScopesAreOwn
    <3> QED BY <3>3, <3>10, <3>11, <3>12 DEF PluginInv
  <2>3. CASE stage' = [stage EXCEPT ![s] = "cleaning"] /\ UNCHANGED scope
    <3>1. stage'[s] = "cleaning" /\ \A t \in Plugins!Scopes : t # s => stage'[t] = stage[t]
      BY <1>0, <2>3
    <3>2. PluginsAreListed'
      <4>1. stage' \in [Plugins!Scopes -> {"new", "running", "kept", "cleaning", "hanging", "late", "gone"}]
        BY <1>0, <2>3
      <4>2. \A t \in Plugins!Scopes : stage'[t] # "new" => stage[t] # "new"
        BY <2>0, <3>1
      <4> QED BY <2>0, <2>1, <2>3, <4>1, <4>2 DEF PluginInv, PluginsAreListed
    <3>3. ScopesAreOwn'
      <4>1. \A t \in Plugins!Scopes : stage'[t] \in {"kept", "running"} => t # s /\ stage[t] = stage'[t]
        BY <3>1
      <4>2. \A q \in Plugins!Plugins : scope[q] # NoScope => scope[q] \in Plugins!Scopes /\ scope[q] # s
        BY <2>0 DEF PluginInv, PluginsAreListed, ScopesAreOwn
      <4> QED BY <2>0, <2>3, <3>1, <4>1, <4>2 DEF PluginInv, ScopesAreOwn
    <3>4. HooksAreListed'
      <4>1. \A t \in Plugins!Scopes : /\ stage'[t] \in {"new", "gone"} => stage[t] = stage'[t]
                                      /\ stage'[t] # "late" => stage[t] # "late"
        BY <2>0, <3>1
      <4> QED BY <2>0, <4>1 DEF PluginInv, HooksAreListed
    <3>5. SwitchedOff'
      BY <2>0, <2>1, <2>3 DEF PluginInv, SwitchedOff
    <3> QED BY <3>2, <3>3, <3>4, <3>5 DEF PluginInv
  <2> QED BY <1>6, <2>2, <2>3 DEF Plugins!Return, Plugins!Throw
\* Steps of the client alone.
<1>d. ASSUME UNCHANGED <<installed, enabled, scope, plugin, stage, list, hooks, twice, again>>, runtime' \in Runtimes, SwitchedOff'
      PROVE  PluginInv'
  BY <1>d DEF PluginInv, PluginsAreListed, ScopesAreOwn, HooksAreListed
<1>7. CASE Plugins!LoadNext
  <2>1. CASE /\ runtime' \in {runtime, [runtime EXCEPT !.at = @ + 1], [runtime EXCEPT !.at = 0]}
             /\ UNCHANGED <<installed, enabled, scope, plugin, stage, list, hooks, twice, again>>
    <3>1. SwitchedOff'
      BY <1>c, <2>1 DEF PluginInv, SwitchedOff
    <3> QED BY <1>c, <1>d, <2>1, <3>1
  <2>2. CASE Plugins!Activate(runtime.at, runtime.at) /\ UNCHANGED <<runtime, installed>> /\ ~(runtime.at > installed) /\ Plugins!Loading
    <3>1. runtime.at \in 1..installed
      BY <1>a, <2>2 DEF Plugins!Loading, Runtimes
    <3>2. runtime.at \in Plugins!Plugins /\ runtime.at \in Plugins!Scopes
      BY <3>1, PluginNumbers DEF PluginInv
    <3> QED BY <2>2, <3>1, <3>2, ActivateKeeps
  <2> QED BY <1>7, <2>1, <2>2 DEF Plugins!LoadNext
<1>8. CASE Plugins!Exit \/ Plugins!Dispose
  <2>1. /\ UNCHANGED <<installed, enabled, scope, plugin, stage, list, hooks, twice, again>>
        /\ \/ runtime' = [runtime EXCEPT !.phase = "ending"]
           \/ runtime' = [runtime EXCEPT !.phase = "disposing", !.left = installed]
    BY <1>8 DEF Plugins!Exit, Plugins!Dispose
  <2>2. \/ runtime' = [phase |-> "ending", at |-> runtime.at, left |-> runtime.left, waits |-> runtime.waits]
        \/ runtime' = [phase |-> "disposing", at |-> runtime.at, left |-> installed, waits |-> runtime.waits]
    BY <1>a, <2>1 DEF Runtimes
  <2>3. runtime' \in Runtimes
    BY <1>a, <2>2 DEF Runtimes
  <2>4. runtime'.phase = "ending" \/ (runtime'.phase = "disposing" /\ runtime'.left = installed)
    BY <2>2
  <2>5. \A q \in installed + 1..installed : FALSE
    BY <1>a
  <2>6. SwitchedOff'
    BY <1>a, <2>1, <2>4, <2>5 DEF PluginInv, SwitchedOff
  <2> QED BY <1>d, <2>1, <2>3, <2>6
<1>9. CASE Plugins!DisposeNext
  <2>1. runtime.phase = "disposing" /\ UNCHANGED installed
    BY <1>9 DEF Plugins!DisposeNext
  <2>2. CASE runtime.left = 0
    <3>1. /\ runtime' = [runtime EXCEPT !.phase = "down", !.waits = NoScope]
          /\ UNCHANGED <<installed, enabled, scope, plugin, stage, list, hooks, twice, again>>
      BY <1>9, <2>2 DEF Plugins!DisposeNext
    <3>2. runtime' = [phase |-> "down", at |-> runtime.at, left |-> runtime.left, waits |-> NoScope]
      BY <1>a, <3>1 DEF Runtimes
    <3>3. runtime' \in Runtimes /\ runtime'.left = 0 /\ runtime'.phase = "down"
      BY <1>a, <2>2, <3>2 DEF Runtimes
    <3>4. SwitchedOff'
      BY <2>1, <2>2, <3>1, <3>3 DEF PluginInv, SwitchedOff
    <3> QED BY <1>d, <3>1, <3>3, <3>4
  <2>3. CASE runtime.left # 0
    <3>1. runtime.left \in 1..installed
      BY <1>a, <2>1, <2>3 DEF PluginInv, SwitchedOff, Runtimes
    <3>2. runtime.left \in Plugins!Plugins
      BY <3>1, PluginNumbers DEF PluginInv
    <3>3. /\ runtime' = [runtime EXCEPT !.left = @ - 1, !.waits = scope[runtime.left]]
          /\ Plugins!Deactivate(runtime.left)
      BY <1>9, <2>3 DEF Plugins!DisposeNext
    <3> DEFINE p == runtime.left
    <3>4. /\ p \in Plugins!Plugins /\ Plugins!Deactivate(p) /\ p = runtime.left
          /\ runtime' = [runtime EXCEPT !.left = @ - 1, !.waits = scope[p]]
      BY <3>2, <3>3
    <3> HIDE DEF p
    <3> QED BY <2>1, <3>4, DeactivateKeeps, Zenon
  <2> QED BY <2>2, <2>3
<1>10. ASSUME NEW p \in Plugins!Plugins, NEW c \in Activations, Plugins!UserActivates(p, c) PROVE PluginInv'
  <2>1. p <= installed /\ Plugins!Activate(p, c) /\ UNCHANGED <<runtime, installed>>
    BY <1>10 DEF Plugins!UserActivates
  <2>2. p \in 1..installed /\ c \in Plugins!Scopes
    BY <1>a, <2>1, PluginNumbers DEF PluginInv, PluginConstants
  <2> QED BY <2>1, <2>2, ActivateKeeps
<1>11. ASSUME NEW p \in Plugins!Plugins, Plugins!UserDeactivates(p) PROVE PluginInv'
  <2>1. Plugins!Deactivate(p) /\ UNCHANGED installed /\ UNCHANGED runtime
    BY <1>11 DEF Plugins!UserDeactivates
  <2> QED BY <2>1, DeactivateKeeps
<1>12. ASSUME NEW c \in Activations, Plugins!Add(c) PROVE PluginInv'
  <2> DEFINE p == installed + 1
  <2>1. /\ installed < Found + Added /\ installed' = installed + 1 /\ Plugins!Activate(p, c) /\ UNCHANGED runtime
    BY <1>12 DEF Plugins!Add
  <2>2. p \in Plugins!Plugins /\ c \in Plugins!Scopes
    BY <1>a, <2>1, PluginNumbers DEF PluginInv, PluginConstants
  <2>3. p = installed + 1
    OBVIOUS
  <2> HIDE DEF p
  <2> QED BY <2>1, <2>2, <2>3, ActivateKeeps
<1>13. CASE UNCHANGED pluginVars
  <2>1. UNCHANGED <<runtime, installed, enabled, scope, plugin, stage, list, hooks, twice, again>>
    BY <1>13 DEF pluginVars
  <2>2. SwitchedOff'
    BY <2>1 DEF PluginInv, SwitchedOff
  <2> QED BY <1>a, <1>d, <2>1, <2>2
<1> QED BY <1>1, <1>2, <1>3, <1>4, <1>5, <1>6, <1>7, <1>8, <1>9, <1>10, <1>11, <1>12, <1>13
  DEF Plugins!Next, Plugins!GoesOn, Plugins!ScopeGoesOn

\* Whatever a plugin has registered with the client in time belongs to one that is on,
\* starts or is cleaned up, and a plugin that was switched off stays off, for any number of
\* plugins, activations and hooks (activatePluginEntry, deactivatePluginEntry,
\* addPluginBySpec, load and dispose of plugin/runtime.ts).  What is left is named: a plugin
\* that was started twice at once, and one that was switched on or added when dispose had
\* taken its queue.
THEOREM PluginsAreTracked == ASSUME PluginConstants PROVE Spec => []PluginsTracked
<1>1. PluginInv => PluginsTracked
  <2>1. ASSUME PluginInv PROVE Plugins!HooksAreOwned
    <3>1. ASSUME NEW s \in Plugins!Scopes, hooks[s] \ {Plugins!Stray} # {}
          PROVE  Plugins!Underway(s) \/ stage[s] = "late" \/ (stage[s] = "kept" /\ (scope[plugin[s]] = s \/ plugin[s] \in twice))
      <4>1. stage[s] \in {"new", "running", "kept", "cleaning", "hanging", "late", "gone"}
        BY <2>1 DEF PluginInv, PluginsAreListed
      <4>2. stage[s] \notin {"new", "gone"}
        BY <2>1, <3>1 DEF PluginInv, HooksAreListed
      <4>3. stage[s] = "kept" => scope[plugin[s]] = s \/ plugin[s] \in twice
        BY <2>1 DEF PluginInv, ScopesAreOwn
      <4> QED BY <4>1, <4>2, <4>3 DEF Plugins!Underway
    <3> QED BY <3>1 DEF Plugins!HooksAreOwned
  <2>2. ASSUME PluginInv PROVE Plugins!OffIsOff
    <3>0. \A p \in Plugins!Plugins : scope[p] # NoScope => enabled[p] /\ stage[scope[p]] = "kept"
      BY <2>2 DEF PluginInv, SwitchedOff, ScopesAreOwn
    <3>1. ASSUME NEW s \in Plugins!Scopes, stage[s] = "kept", plugin[s] \notin twice
          PROVE  /\ plugin[s] \in 1..installed /\ enabled[plugin[s]]
                 /\ runtime.phase = "down" => plugin[s] \in again
      <4>1. plugin[s] \in 1..installed /\ plugin[s] \in Plugins!Plugins /\ scope[plugin[s]] = s /\ s # NoScope
        BY <2>2, <3>1, PluginNumbers DEF PluginInv, PluginsAreListed, ScopesAreOwn, PluginConstants
      <4>2. enabled[plugin[s]]
        BY <3>0, <4>1
      <4>3. runtime.phase = "down" => plugin[s] \in runtime.left + 1..installed /\ runtime.phase \in {"disposing", "down"}
        BY <2>2, <4>1 DEF PluginInv, SwitchedOff
      <4> QED BY <2>2, <4>1, <4>2, <4>3 DEF PluginInv, SwitchedOff
    <3> QED BY <3>0, <3>1 DEF Plugins!OffIsOff
  <2> QED BY <2>1, <2>2 DEF PluginsTracked, Plugins!PluginsTracked
<1>2. Init => PluginInv
  BY InitPluginInv, Starts DEF PartsStart
<1>3. PluginInv /\ [Next]_vars => PluginInv'
  BY NextPluginInv, Steps DEF PartsStep
<1> QED BY <1>1, <1>2, <1>3, PTL DEF Spec


-----------------------------------------------------------------------------
(* A file and its language server *)

Contents == 1..MaxContents
Documents == [version : Nat, text : Contents]
Notifications == [type : {"open", "change"}, text : Contents, version : Nat]
TouchStates == {"new", "read", "change", "open", "opened", "waiting", "debouncing", "pushed", "timeout"}
Sent == {"waiting", "debouncing", "pushed", "timeout"}

TouchesTyped ==
    /\ content \in Contents
    /\ touch \in [Touches -> [at : TouchStates, text : 0..MaxContents, seen : Documents \cup {NoDocument},
                              version : Int, pushed : BOOLEAN, got : -1..MaxContents]]
    /\ \A t \in Touches : /\ touch[t].at # "new" => touch[t].text \in Contents
                          /\ touch[t].at = "change" => touch[t].seen \in Documents
    /\ document \in Documents \cup {NoDocument}
    /\ wire \in Seq(Notifications) /\ served \in Documents \cup {NoDocument}
    /\ confused \in BOOLEAN /\ versioned \in BOOLEAN /\ crossed \in BOOLEAN
    /\ pushed \in Int /\ diagnosed \in -1..MaxContents

\* texts are those that were sent, by their versions, and the server has received n of them.
\* What the calls have read is never older than what was sent.
TextsGrow(texts) ==
    /\ \A i \in 1..Len(texts) : texts[i] <= content /\ \A j \in 1..i : texts[j] <= texts[i]
    /\ \A t \in Document!Opening : touch[t].text <= content /\ \A i \in 1..Len(texts) : texts[i] <= touch[t].text

\* The document is the last content, unless that was just opened.
DocumentIsLast(texts) ==
    /\ document = IF texts = <<>> \/ (\E t \in Touches : touch[t].at = "opened") THEN NoDocument
                  ELSE [version |-> Len(texts) - 1, text |-> texts[Len(texts)]]
    /\ \A t \in Touches :
          /\ touch[t].at = "open" => texts = <<>>
          /\ touch[t].at = "opened" => Len(texts) = 1 /\ texts[1] = touch[t].text
          /\ touch[t].at = "change" => touch[t].seen = document
          /\ touch[t].at \in Sent => touch[t].version + 1 \in 1..Len(texts) /\ texts[touch[t].version + 1] = touch[t].text

\* The server has the first of them, the others are on the wire.
WireGoesOn(texts, n) ==
    /\ served = IF n = 0 THEN NoDocument ELSE [version |-> n - 1, text |-> texts[n]]
    /\ Len(wire) = Len(texts) - n
    /\ \A i \in 1..Len(wire) :
          wire[i] = Document!Notification(IF n + i = 1 THEN "open" ELSE "change", texts[n + i], n + i - 1)
    /\ ~confused

\* A server that names versions has diagnosed one that it has received.
PushesNamed(texts, n) ==
    versioned =>
        /\ pushed + 1 \in 0..n /\ (pushed # -1 => diagnosed = texts[pushed + 1])
        /\ \A t \in Touches :
              /\ touch[t].pushed => pushed # -1
              /\ touch[t].at = "debouncing" => touch[t].version <= pushed
              /\ touch[t].at = "pushed" => touch[t].got >= touch[t].text

Told(texts, n) == TextsGrow(texts) /\ DocumentIsLast(texts) /\ WireGoesOn(texts, n) /\ PushesNamed(texts, n)

OpensAlone == \A t, u \in Document!Opening : t = u

DocumentInv ==
    /\ TouchesTyped
    /\ ~crossed => OpensAlone /\ \E texts \in Seq(Contents) : \E n \in 0..Len(texts) : Told(texts, n)

DocumentConstants == MaxContents \in Nat \ {0} /\ NoDocument \notin [version : Int, text : Int]

LEMMA InitDocumentInv == ASSUME DocumentConstants, Document!Init PROVE DocumentInv
<1>1. TouchesTyped
  <2>1. 0 \in 0..MaxContents /\ 1 \in Contents /\ -1 \in -1..MaxContents
    BY DEF DocumentConstants, Contents
  <2>2. touch \in [Touches -> [at : TouchStates, text : 0..MaxContents, seen : Documents \cup {NoDocument},
                              version : Int, pushed : BOOLEAN, got : -1..MaxContents]]
    <3>1. [at |-> "new", text |-> 0, seen |-> NoDocument, version |-> -1, pushed |-> FALSE, got |-> -1]
             \in [at : TouchStates, text : 0..MaxContents, seen : Documents \cup {NoDocument},
                  version : Int, pushed : BOOLEAN, got : -1..MaxContents]
      BY <2>1 DEF TouchStates
    <3> QED BY <3>1 DEF Document!Init
  <2>3. /\ content \in Contents /\ document \in Documents \cup {NoDocument} /\ wire \in Seq(Notifications)
        /\ served \in Documents \cup {NoDocument} /\ confused \in BOOLEAN /\ versioned \in BOOLEAN /\ crossed \in BOOLEAN
        /\ pushed \in Int /\ diagnosed \in -1..MaxContents
    <3>1. /\ content = 1 /\ document = NoDocument /\ wire = <<>> /\ served = NoDocument /\ confused = FALSE
          /\ versioned \in BOOLEAN /\ crossed = FALSE /\ pushed = -1 /\ diagnosed = -1
      BY DEF Document!Init
    <3>2. <<>> \in Seq(Notifications) /\ -1 \in Int
      OBVIOUS
    <3> QED BY <2>1, <3>1, <3>2
  <2>4. \A t \in Touches : touch[t].at = "new"
    BY DEF Document!Init
  <2> QED BY <2>2, <2>3, <2>4 DEF TouchesTyped
<1>2. OpensAlone
  BY DEF Document!Init, OpensAlone, Document!Opening
<1>3. <<>> \in Seq(Contents) /\ Len(<<>>) = 0 /\ 0 \in 0..0
  OBVIOUS
<1>4. Told(<<>>, 0)
  <2>1. TextsGrow(<<>>)
    BY DEF Document!Init, TextsGrow, Document!Opening
  <2>2. DocumentIsLast(<<>>)
    BY DEF Document!Init, DocumentIsLast, Sent
  <2>3. WireGoesOn(<<>>, 0)
    BY DEF Document!Init, WireGoesOn
  <2>4. PushesNamed(<<>>, 0)
    BY DEF Document!Init, PushesNamed
  <2> QED BY <2>1, <2>2, <2>3, <2>4 DEF Told
<1> QED BY <1>1, <1>2, <1>3, <1>4 DEF DocumentInv

LEMMA NextTouchesTyped == ASSUME DocumentConstants, TouchesTyped, [Document!Next]_documentVars PROVE TouchesTyped'
<1>0. /\ content \in Contents /\ MaxContents \in Nat /\ Contents = 1..MaxContents
      /\ touch \in [Touches -> [at : TouchStates, text : 0..MaxContents, seen : Documents \cup {NoDocument},
                                version : Int, pushed : BOOLEAN, got : -1..MaxContents]]
  BY DEF TouchesTyped, DocumentConstants, Contents
<1>1. CASE Document!WriteFile
  <2>1. content' \in Contents
    BY <1>0, <1>1 DEF Document!WriteFile
  <2> QED BY <1>1, <2>1 DEF Document!WriteFile, TouchesTyped
<1>2. CASE Document!Receive
  <2>0. wire \in Seq(Notifications) /\ wire # <<>>
    BY <1>2 DEF Document!Receive, TouchesTyped
  <2>1. Head(wire) \in Notifications /\ Tail(wire) \in Seq(Notifications)
    BY <2>0
  <2>2. served' = [version |-> Head(wire).version, text |-> Head(wire).text] /\ wire' = Tail(wire)
    BY <1>2 DEF Document!Receive
  <2>3. served' \in Documents
    BY <2>1, <2>2 DEF Notifications, Documents
  <2>4. confused' \in BOOLEAN /\ UNCHANGED <<content, touch, document, versioned, pushed, diagnosed, crossed>>
    BY <1>2 DEF Document!Receive, TouchesTyped
  <2> QED BY <2>1, <2>2, <2>3, <2>4 DEF TouchesTyped
<1>3. CASE Document!Push
  <2>1. served \in Documents /\ pushed' \in Int /\ diagnosed' = served.text /\ diagnosed' \in -1..MaxContents
    BY <1>0, <1>3 DEF Document!Push, TouchesTyped, Documents, Contents
  <2>2. \A u \in Touches : touch'[u] = touch[u] \/ touch'[u] = [touch[u] EXCEPT !.pushed = TRUE]
    BY <1>3 DEF Document!Push
  <2>3. touch' \in [Touches -> [at : TouchStates, text : 0..MaxContents, seen : Documents \cup {NoDocument},
                                version : Int, pushed : BOOLEAN, got : -1..MaxContents]]
    BY <1>0, <1>3 DEF Document!Push
  <2>4. \A u \in Touches : touch'[u].at = touch[u].at /\ touch'[u].text = touch[u].text /\ touch'[u].seen = touch[u].seen
    BY <1>0, <2>2
  <2>5. UNCHANGED <<content, document, wire, served, confused, versioned, crossed>>
    BY <1>3 DEF Document!Push
  <2> QED BY <2>1, <2>3, <2>4, <2>5 DEF TouchesTyped
\* A step of one call.
<1> DEFINE Entry == [at : TouchStates, text : 0..MaxContents, seen : Documents \cup {NoDocument},
                     version : Int, pushed : BOOLEAN, got : -1..MaxContents]
<1>4. ASSUME NEW t \in Touches, NEW e \in Entry, touch' = [touch EXCEPT ![t] = e],
             e.at # "new" => e.text \in Contents,
             e.at = "change" => e.seen \in Documents,
             document' \in Documents \cup {NoDocument},
             wire' \in Seq(Notifications), diagnosed' \in -1..MaxContents, crossed' \in BOOLEAN,
             UNCHANGED <<content, served, confused, versioned, pushed>>
      PROVE  TouchesTyped'
  <2>1. touch' \in [Touches -> Entry]
    BY <1>0, <1>4
  <2>2. \A u \in Touches : /\ u = t => touch'[u] = e
                           /\ u # t => touch'[u] = touch[u]
    BY <1>0, <1>4
  <2>3. \A u \in Touches : /\ touch'[u].at # "new" => touch'[u].text \in Contents
                           /\ touch'[u].at = "change" => touch'[u].seen \in Documents
    BY <1>4, <2>2 DEF TouchesTyped
  <2> HIDE DEF Entry
  <2> QED BY <1>4, <2>1, <2>3 DEF TouchesTyped, Entry
<1>5. ASSUME NEW t \in Touches, Document!ReadText(t) PROVE TouchesTyped'
  <2> DEFINE e == [touch[t] EXCEPT !.at = "read", !.text = content]
  <2>1. e \in Entry /\ e.at = "read" /\ e.text = content
    <3>1. touch[t] \in Entry
      BY <1>0
    <3>2. "read" \in TouchStates /\ content \in 0..MaxContents
      BY <1>0 DEF TouchStates, Contents
    <3>3. e \in Entry
      BY <3>1, <3>2
    <3> QED BY <3>1, <3>3
  <2>2. touch' = [touch EXCEPT ![t] = e]
    BY <1>0, <1>5 DEF Document!ReadText
  <2> HIDE DEF e
  <2>3. /\ document' \in Documents \cup {NoDocument} /\ wire' \in Seq(Notifications) /\ diagnosed' \in -1..MaxContents
        /\ crossed' \in BOOLEAN /\ UNCHANGED <<content, served, confused, versioned, pushed>>
    BY <1>5 DEF Document!ReadText, TouchesTyped
  <2> QED BY <1>0, <1>4, <2>1, <2>2, <2>3
<1>6. ASSUME NEW t \in Touches, Document!Look(t) PROVE TouchesTyped'
  <2> DEFINE e == [touch[t] EXCEPT !.at = IF document = NoDocument THEN "open" ELSE "change", !.seen = document]
  <2>0. document \in Documents \cup {NoDocument} /\ touch[t].text \in Contents
    BY <1>6 DEF Document!Look, TouchesTyped
  <2>1. e \in Entry /\ e.text = touch[t].text /\ e.seen = document /\ (e.at = "change" => document # NoDocument)
    <3>1. touch[t] \in Entry
      BY <1>0
    <3>2. "open" \in TouchStates /\ "change" \in TouchStates
      BY <1>0, <2>0 DEF TouchStates, Contents
    <3>3. e \in Entry
      BY <3>1, <3>2, <2>0
    <3> QED BY <3>1, <3>3, <2>0
  <2>2. touch' = [touch EXCEPT ![t] = e]
    BY <1>0, <1>6 DEF Document!Look
  <2> HIDE DEF e
  <2>3. /\ document' \in Documents \cup {NoDocument} /\ wire' \in Seq(Notifications) /\ diagnosed' \in -1..MaxContents
        /\ crossed' \in BOOLEAN /\ UNCHANGED <<content, served, confused, versioned, pushed>>
    BY <1>6 DEF Document!Look, TouchesTyped
  <2> QED BY <1>4, <2>0, <2>1, <2>2, <2>3
<1>7. ASSUME NEW t \in Touches, Document!DidChange(t) PROVE TouchesTyped'
  <2> DEFINE v == Document!NextVersion(t)
  <2> DEFINE e == [touch[t] EXCEPT !.at = "waiting", !.version = v]
  <2>0. touch[t].text \in Contents /\ touch[t].seen \in Documents /\ v = touch[t].seen.version + 1 /\ v \in Nat
    BY <1>7 DEF Document!DidChange, TouchesTyped, Document!NextVersion, Documents
  <2> HIDE DEF v
  <2>1. e \in Entry /\ e.text = touch[t].text /\ e.at = "waiting"
    <3>1. touch[t] \in Entry
      BY <1>0
    <3>2. "waiting" \in TouchStates /\ v \in Int
      BY <1>0, <2>0 DEF TouchStates, Contents
    <3>3. e \in Entry
      BY <3>1, <3>2, <2>0
    <3> QED BY <3>1, <3>3, <2>0
  <2>2. touch' = [touch EXCEPT ![t] = e] /\ document' = [version |-> v, text |-> touch[t].text]
    BY <1>0, <1>7 DEF Document!DidChange, v
  <2> HIDE DEF e
  <2>3. wire' = Append(wire, [type |-> "change", text |-> touch[t].text, version |-> v])
    BY <1>7 DEF Document!DidChange, Document!Notification, v
  <2>4. wire' \in Seq(Notifications)
    BY <2>0, <2>3 DEF Notifications, TouchesTyped
  <2>5. document' \in Documents
    BY <2>0, <2>2 DEF Documents
  <2>6. diagnosed' \in -1..MaxContents /\ crossed' \in BOOLEAN /\ UNCHANGED <<content, served, confused, versioned, pushed>>
    BY <1>7 DEF Document!DidChange, TouchesTyped
  <2> QED BY <1>4, <2>0, <2>1, <2>2, <2>4, <2>5, <2>6
<1>8. ASSUME NEW t \in Touches, Document!DidOpen(t) PROVE TouchesTyped'
  <2> DEFINE e == [touch[t] EXCEPT !.at = "opened"]
  <2>0. touch[t].text \in Contents
    BY <1>8 DEF Document!DidOpen, TouchesTyped
  <2>1. e \in Entry /\ e.text = touch[t].text /\ e.at = "opened"
    BY <1>0, <2>0 DEF TouchStates
  <2>2. touch' = [touch EXCEPT ![t] = e]
    BY <1>0, <1>8 DEF Document!DidOpen
  <2> HIDE DEF e
  <2>3. wire' = Append(wire, [type |-> "open", text |-> touch[t].text, version |-> 0])
    BY <1>8 DEF Document!DidOpen, Document!Notification
  <2>4. wire' \in Seq(Notifications)
    BY <2>0, <2>3 DEF Notifications, TouchesTyped
  <2>6. /\ document' \in Documents \cup {NoDocument} /\ diagnosed' \in -1..MaxContents
        /\ crossed' \in BOOLEAN /\ UNCHANGED <<content, served, confused, versioned, pushed>>
    BY <1>0, <1>8 DEF Document!DidOpen, TouchesTyped
  <2> QED BY <1>4, <2>0, <2>1, <2>2, <2>4, <2>6
<1>9. ASSUME NEW t \in Touches, Document!Opened(t) PROVE TouchesTyped'
  <2> DEFINE e == [touch[t] EXCEPT !.at = "waiting", !.version = 0]
  <2>0. touch[t].text \in Contents
    BY <1>9 DEF Document!Opened, TouchesTyped
  <2>1. e \in Entry /\ e.text = touch[t].text /\ e.at = "waiting"
    <3>1. touch[t] \in Entry
      BY <1>0
    <3>2. "waiting" \in TouchStates /\ 0 \in Int
      BY <1>0, <2>0 DEF TouchStates, Contents
    <3>3. e \in Entry
      BY <3>1, <3>2, <2>0
    <3> QED BY <3>1, <3>3, <2>0
  <2>2. touch' = [touch EXCEPT ![t] = e] /\ document' = [version |-> 0, text |-> touch[t].text]
    BY <1>0, <1>9 DEF Document!Opened
  <2> HIDE DEF e
  <2>3. document' \in Documents
    BY <2>0, <2>2 DEF Documents
  <2>6. /\ wire' \in Seq(Notifications) /\ diagnosed' \in -1..MaxContents
        /\ crossed' \in BOOLEAN /\ UNCHANGED <<content, served, confused, versioned, pushed>>
    BY <1>9 DEF Document!Opened, TouchesTyped
  <2> QED BY <1>4, <2>0, <2>1, <2>2, <2>3, <2>6
<1>10. ASSUME NEW t \in Touches, Document!Schedule(t) \/ Document!Pushed(t) \/ Document!Timeout(t) PROVE TouchesTyped'
  <2>0. touch[t].at # "new" /\ touch[t].text \in Contents
    BY <1>10 DEF Document!Schedule, Document!Pushed, Document!Timeout, TouchesTyped
  <2>1. PICK place \in {"debouncing", "pushed", "timeout"}, got \in -1..MaxContents :
           touch' = [touch EXCEPT ![t] = [touch[t] EXCEPT !.at = place, !.got = got]]
    <3>1. CASE Document!Schedule(t)
      <4>1. touch' = [touch EXCEPT ![t] = [touch[t] EXCEPT !.at = "debouncing", !.got = touch[t].got]] /\ touch[t].got \in -1..MaxContents
        BY <1>0, <3>1 DEF Document!Schedule
      <4> QED BY <4>1
    <3>2. CASE Document!Pushed(t)
      <4>1. touch' = [touch EXCEPT ![t] = [touch[t] EXCEPT !.at = "pushed", !.got = diagnosed]] /\ diagnosed \in -1..MaxContents
        BY <1>0, <3>2 DEF Document!Pushed, TouchesTyped
      <4> QED BY <4>1
    <3>3. CASE Document!Timeout(t)
      <4>1. touch' = [touch EXCEPT ![t] = [touch[t] EXCEPT !.at = "timeout", !.got = touch[t].got]] /\ touch[t].got \in -1..MaxContents
        BY <1>0, <3>3 DEF Document!Timeout
      <4> QED BY <4>1
    <3> QED BY <1>10, <3>1, <3>2, <3>3
  <2> DEFINE e == [touch[t] EXCEPT !.at = place, !.got = got]
  <2>2. e \in Entry /\ e.text = touch[t].text /\ e.at = place
    BY <1>0 DEF TouchStates
  <2>3. touch' = [touch EXCEPT ![t] = e]
    BY <2>1
  <2> HIDE DEF e
  <2>4. /\ document' \in Documents \cup {NoDocument} /\ wire' \in Seq(Notifications) /\ diagnosed' \in -1..MaxContents
        /\ crossed' \in BOOLEAN /\ UNCHANGED <<content, served, confused, versioned, pushed>>
    BY <1>10 DEF Document!Schedule, Document!Pushed, Document!Timeout, TouchesTyped
  <2> QED BY <1>4, <2>0, <2>2, <2>3, <2>4
<1>11. CASE UNCHANGED documentVars
  BY <1>11 DEF documentVars, TouchesTyped
<1> QED BY <1>1, <1>2, <1>3, <1>5, <1>6, <1>7, <1>8, <1>9, <1>10, <1>11 DEF Document!Next, Document!GoesOn

\* What has been sent goes on with one call's step.
LEMMA TouchStep ==
  ASSUME DocumentConstants, TouchesTyped, NEW t \in Touches, NEW e,
         touch' = [touch EXCEPT ![t] = e]
  PROVE  /\ touch'[t] = e
         /\ \A u \in Touches : u # t => touch'[u] = touch[u]
         /\ \A u \in Touches : touch'[u] = e \/ touch'[u] = touch[u]
BY DEF TouchesTyped

LEMMA NextTold ==
  ASSUME DocumentConstants, TouchesTyped, OpensAlone, [Document!Next]_documentVars, ~crossed',
         NEW texts \in Seq(Contents), NEW n \in 0..Len(texts), Told(texts, n)
  PROVE  OpensAlone' /\ \E ts \in Seq(Contents) : \E m \in 0..Len(ts) : Told(ts, m)'
<1>0. /\ TextsGrow(texts) /\ DocumentIsLast(texts) /\ WireGoesOn(texts, n) /\ PushesNamed(texts, n)
      /\ Len(texts) \in Nat /\ n \in Nat /\ n <= Len(texts) /\ \A i \in 1..Len(texts) : texts[i] \in Contents
      /\ Contents = 1..MaxContents /\ MaxContents \in Nat /\ content \in Contents
      /\ (texts = <<>> <=> Len(texts) = 0)
      /\ \A v \in Int, x \in Int : NoDocument # [version |-> v, text |-> x]
  BY DEF Told, DocumentConstants, Contents, TouchesTyped
\* The same texts.
<1>a. ASSUME OpensAlone', TextsGrow(texts)', DocumentIsLast(texts)', WireGoesOn(texts, n)', PushesNamed(texts, n)'
      PROVE  OpensAlone' /\ \E ts \in Seq(Contents) : \E m \in 0..Len(ts) : Told(ts, m)'
  BY <1>a DEF Told
\* One content more.
<1>b. ASSUME NEW ts \in Seq(Contents), Len(ts) = Len(texts) + 1, OpensAlone', TextsGrow(ts)', DocumentIsLast(ts)',
             WireGoesOn(ts, n)', PushesNamed(ts, n)'
      PROVE  OpensAlone' /\ \E l \in Seq(Contents) : \E m \in 0..Len(l) : Told(l, m)'
  <2>1. n \in 0..Len(ts)
    BY <1>0, <1>b
  <2> QED BY <1>b, <2>1 DEF Told
<1>1. CASE Document!WriteFile
  <2>1. content' = content + 1 /\ UNCHANGED <<touch, document, wire, served, confused, versioned, pushes, pushed, diagnosed, crossed>>
    BY <1>1 DEF Document!WriteFile
  <2>2. TextsGrow(texts)'
    <3>1. \A i \in 1..Len(texts) : texts[i] <= content /\ \A j \in 1..i : texts[j] <= texts[i]
      BY <1>0 DEF TextsGrow
    <3>2. \A u \in Document!Opening : touch[u].text <= content /\ touch[u].text \in Int /\ \A i \in 1..Len(texts) : texts[i] <= touch[u].text
      BY <1>0 DEF TextsGrow, TouchesTyped, Document!Opening
    <3>3. \A i \in 1..Len(texts) : texts[i] <= content'
      BY <1>0, <2>1, <3>1
    <3>4. \A u \in Document!Opening : touch[u].text <= content'
      BY <1>0, <2>1, <3>2
    <3>5. Document!Opening' = Document!Opening /\ touch' = touch
      BY <2>1 DEF Document!Opening
    <3> QED BY <3>1, <3>2, <3>3, <3>4, <3>5 DEF TextsGrow
  <2>3. OpensAlone' /\ DocumentIsLast(texts)' /\ WireGoesOn(texts, n)' /\ PushesNamed(texts, n)'
    BY <1>0, <2>1 DEF OpensAlone, Document!Opening, DocumentIsLast, WireGoesOn, PushesNamed
  <2> QED BY <1>a, <2>2, <2>3
<1>2. ASSUME NEW t \in Touches, Document!ReadText(t) PROVE OpensAlone' /\ \E ts \in Seq(Contents) : \E m \in 0..Len(ts) : Told(ts, m)'
  <2> DEFINE e == [touch[t] EXCEPT !.at = "read", !.text = content]
  <2>0. touch[t] \in [at : TouchStates, text : 0..MaxContents, seen : Documents \cup {NoDocument},
                      version : Int, pushed : BOOLEAN, got : -1..MaxContents]
    BY DEF TouchesTyped
  <2>1. Document!Opening = {} /\ UNCHANGED <<content, document, wire, served, confused, versioned, pushes, pushed, diagnosed>>
    BY <1>2 DEF Document!ReadText
  <2>2. touch' = [touch EXCEPT ![t] = e]
    BY <1>2, <2>0 DEF Document!ReadText
  <2>3. e.at = "read" /\ e.text = content /\ e.pushed = touch[t].pushed
    BY <2>0
  <2> HIDE DEF e
  <2>4. touch'[t] = e /\ \A u \in Touches : u # t => touch'[u] = touch[u]
    BY <2>2, TouchStep
  <2>5. \A u \in Touches : touch[u].at \notin {"read", "change", "open", "opened"}
    BY <2>1 DEF Document!Opening
  <2>6. \A u \in Touches : u \in Document!Opening' <=> u = t
    BY <2>3, <2>4, <2>5 DEF Document!Opening
  <2>7. OpensAlone'
    BY <2>6 DEF OpensAlone, Document!Opening
  <2>8. TextsGrow(texts)'
    <3>1. \A u \in Document!Opening' : touch'[u].text = content
      BY <2>3, <2>4, <2>6 DEF Document!Opening
    <3> QED BY <1>0, <2>1, <3>1 DEF TextsGrow
  <2>9. DocumentIsLast(texts)'
    BY <1>0, <2>1, <2>3, <2>4, <2>5 DEF DocumentIsLast, Sent
  <2>10. WireGoesOn(texts, n)'
    BY <1>0, <2>1 DEF WireGoesOn
  <2>11. PushesNamed(texts, n)'
    BY <1>0, <2>1, <2>3, <2>4 DEF PushesNamed
  <2> QED BY <1>a, <2>7, <2>8, <2>9, <2>10, <2>11
<1>3. ASSUME NEW t \in Touches, Document!Look(t) PROVE OpensAlone' /\ \E ts \in Seq(Contents) : \E m \in 0..Len(ts) : Told(ts, m)'
  <2> DEFINE e == [touch[t] EXCEPT !.at = IF document = NoDocument THEN "open" ELSE "change", !.seen = document]
  <2>0. touch[t] \in [at : TouchStates, text : 0..MaxContents, seen : Documents \cup {NoDocument},
                      version : Int, pushed : BOOLEAN, got : -1..MaxContents]
    BY DEF TouchesTyped
  <2>1. touch[t].at = "read" /\ UNCHANGED <<content, document, wire, served, confused, versioned, pushes, pushed, diagnosed, crossed>>
    BY <1>3 DEF Document!Look
  <2>2. touch' = [touch EXCEPT ![t] = e]
    BY <1>3, <2>0 DEF Document!Look
  <2>3. /\ e.at = IF document = NoDocument THEN "open" ELSE "change"
        /\ e.seen = document /\ e.text = touch[t].text /\ e.pushed = touch[t].pushed
    BY <2>0
  <2> HIDE DEF e
  <2>4. touch'[t] = e /\ \A u \in Touches : u # t => touch'[u] = touch[u]
    BY <2>2, TouchStep
  <2>5. \A u \in Touches : u # t => touch[u].at \notin {"read", "change", "open", "opened"}
    BY <2>1 DEF Document!Opening, OpensAlone
  <2>6. Document!Opening' = Document!Opening
    BY <2>1, <2>3, <2>4 DEF Document!Opening
  <2>7. OpensAlone'
    BY <2>6 DEF OpensAlone
  <2>8. TextsGrow(texts)'
    <3>1. \A u \in Touches : touch'[u].text = touch[u].text
      BY <2>3, <2>4
    <3> QED BY <1>0, <2>1, <2>6, <3>1 DEF TextsGrow, Document!Opening
  <2>9. DocumentIsLast(texts)'
    <3>1. ~\E u \in Touches : touch[u].at = "opened"
      BY <2>1, <2>5
    <3>2. ~\E u \in Touches : touch'[u].at = "opened"
      BY <2>3, <2>4, <3>1
    <3>3. document = IF texts = <<>> THEN NoDocument ELSE [version |-> Len(texts) - 1, text |-> texts[Len(texts)]]
      BY <1>0, <3>1 DEF DocumentIsLast
    <3>4. texts # <<>> => document # NoDocument
      BY <1>0, <3>3
    <3>5. \A u \in Touches : u # t => touch'[u] = touch[u]
      BY <2>4
    <3> QED BY <1>0, <2>1, <2>3, <2>4, <3>2, <3>3, <3>4, <3>5 DEF DocumentIsLast, Sent
  <2>10. WireGoesOn(texts, n)'
    BY <1>0, <2>1 DEF WireGoesOn
  <2>11. PushesNamed(texts, n)'
    BY <1>0, <2>1, <2>3, <2>4 DEF PushesNamed
  <2> QED BY <1>a, <2>7, <2>8, <2>9, <2>10, <2>11
<1>4. ASSUME NEW t \in Touches, Document!DidChange(t) PROVE OpensAlone' /\ \E ts \in Seq(Contents) : \E m \in 0..Len(ts) : Told(ts, m)'
  <2> DEFINE v == Document!NextVersion(t)
  <2>x. PICK x : x = touch[t].text
    OBVIOUS
  <2>y. PICK longer : longer = Append(texts, x)
    OBVIOUS
  <2> DEFINE e == [touch[t] EXCEPT !.at = "waiting", !.version = v]
  <2>0. touch[t] \in [at : TouchStates, text : 0..MaxContents, seen : Documents \cup {NoDocument},
                      version : Int, pushed : BOOLEAN, got : -1..MaxContents]
    BY DEF TouchesTyped
  <2>1. /\ touch[t].at = "change" /\ UNCHANGED <<content, served, confused, versioned, pushes, pushed, diagnosed, crossed>>
        /\ document' = [version |-> v, text |-> x] /\ wire' = Append(wire, Document!Notification("change", x, v))
    BY <1>4, <2>x DEF Document!DidChange
  <2>2. touch' = [touch EXCEPT ![t] = e]
    BY <1>4, <2>0 DEF Document!DidChange
  <2>3. e.at = "waiting" /\ e.version = v /\ e.text = x /\ e.pushed = touch[t].pushed
    BY <2>0, <2>x
  <2> HIDE DEF e
  <2>4. touch'[t] = e /\ \A u \in Touches : u # t => touch'[u] = touch[u]
    BY <2>2, TouchStep
  <2>5. \A u \in Touches : u # t => touch[u].at \notin {"read", "change", "open", "opened"}
    BY <2>1 DEF Document!Opening, OpensAlone
  <2>6. Document!Opening' = {}
    BY <2>3, <2>4, <2>5 DEF Document!Opening
  <2>7. OpensAlone'
    BY <2>6 DEF OpensAlone
  <2>8. texts # <<>> /\ v = Len(texts) /\ x \in Contents
    <3>1. touch[t].seen = document /\ touch[t].seen \in Documents /\ x \in Contents
      BY <1>0, <2>1, <2>x DEF DocumentIsLast, TouchesTyped
    <3>2. document # NoDocument
      BY <3>1, <1>0 DEF Documents, DocumentConstants
    <3>3. texts # <<>> /\ document = [version |-> Len(texts) - 1, text |-> texts[Len(texts)]]
      BY <1>0, <3>2 DEF DocumentIsLast
    <3> QED BY <1>0, <3>1, <3>3 DEF Document!NextVersion
  <2> HIDE DEF v
  <2>9. /\ longer \in Seq(Contents) /\ Len(longer) = Len(texts) + 1 /\ longer # <<>>
        /\ (\A i \in 1..Len(texts) : longer[i] = texts[i]) /\ longer[Len(texts) + 1] = x
    BY <1>0, <2>8, <2>y
  <2>10. x <= content /\ \A i \in 1..Len(texts) : texts[i] <= x
    BY <1>0, <2>1, <2>x DEF TextsGrow, Document!Opening
  <2>11. TextsGrow(longer)'
    <3>1. ASSUME NEW i \in 1..Len(longer) PROVE longer[i] <= content /\ \A j \in 1..i : longer[j] <= longer[i]
      <4>1. CASE i <= Len(texts)
        <5>1. i \in 1..Len(texts) /\ longer[i] = texts[i] /\ \A j \in 1..i : j \in 1..Len(texts)
          BY <1>0, <2>9, <4>1
        <5> QED BY <1>0, <2>9, <5>1 DEF TextsGrow
      <4>2. CASE i = Len(texts) + 1
        <5>1. \A j \in 1..i : j \in 1..Len(texts) \/ j = Len(texts) + 1
          BY <1>0, <4>2
        <5>2. longer[i] = x /\ x \in Int /\ x <= x
          BY <1>0, <2>8, <2>9, <4>2
        <5>3. ASSUME NEW j \in 1..i PROVE longer[j] <= x
          <6>1. CASE j \in 1..Len(texts)
            BY <2>9, <2>10, <6>1
          <6>2. CASE j = Len(texts) + 1
            BY <4>2, <5>2, <6>2
          <6> QED BY <5>1, <6>1, <6>2
        <5> QED BY <2>10, <5>2, <5>3
      <4> QED BY <1>0, <2>9, <4>1, <4>2
    <3> QED BY <2>1, <2>6, <3>1 DEF TextsGrow
  <2>12. DocumentIsLast(longer)'
    <3>1. ~\E u \in Touches : touch'[u].at = "opened"
      BY <2>3, <2>4, <2>5
    <3>2. ASSUME NEW u \in Touches
          PROVE  /\ touch'[u].at \notin {"open", "opened", "change"}
                 /\ touch'[u].at \in Sent => touch'[u].version + 1 \in 1..Len(longer) /\ longer[touch'[u].version + 1] = touch'[u].text
      <4>1. CASE u = t
        <5>1. touch'[u].at = "waiting" /\ touch'[u].version = Len(texts) /\ touch'[u].text = x
          BY <2>3, <2>4, <2>8, <4>1
        <5>2. Len(texts) + 1 \in 1..Len(longer) /\ longer[Len(texts) + 1] = x
          BY <1>0, <2>9
        <5> QED BY <5>1, <5>2
      <4>2. CASE u # t
        <5>1. touch'[u] = touch[u] /\ touch[u].at \notin {"open", "opened", "change"}
          BY <2>4, <2>5, <4>2
        <5>2. touch[u].at \in Sent => touch[u].version + 1 \in 1..Len(texts) /\ texts[touch[u].version + 1] = touch[u].text
          BY <1>0 DEF DocumentIsLast
        <5> QED BY <1>0, <2>9, <5>1, <5>2
      <4> QED BY <4>1, <4>2
    <3>3. document' = [version |-> Len(longer) - 1, text |-> longer[Len(longer)]]
      BY <1>0, <2>1, <2>8, <2>9
    <3> QED BY <2>9, <3>1, <3>2, <3>3 DEF DocumentIsLast
  <2>13. WireGoesOn(longer, n)'
    <3>1. /\ wire \in Seq(Notifications) /\ Len(wire) = Len(texts) - n /\ ~confused
          /\ \A i \in 1..Len(wire) : wire[i] = Document!Notification(IF n + i = 1 THEN "open" ELSE "change", texts[n + i], n + i - 1)
          /\ served = IF n = 0 THEN NoDocument ELSE [version |-> n - 1, text |-> texts[n]]
      BY <1>0 DEF WireGoesOn, TouchesTyped
    <3>2. Len(wire') = Len(wire) + 1 /\ wire'[Len(wire) + 1] = Document!Notification("change", x, v) /\ \A i \in 1..Len(wire) : wire'[i] = wire[i]
      BY <2>1, <3>1
    <3>3. ASSUME NEW i \in 1..Len(wire')
          PROVE  wire'[i] = Document!Notification(IF n + i = 1 THEN "open" ELSE "change", longer[n + i], n + i - 1)
      <4>1. CASE i <= Len(wire)
        <5>1. i \in 1..Len(wire) /\ n + i \in 1..Len(texts)
          BY <1>0, <3>1, <4>1
        <5> QED BY <2>9, <3>1, <3>2, <5>1
      <4>2. CASE i = Len(wire) + 1
        <5>1. n + i = Len(texts) + 1 /\ n + i # 1 /\ n + i - 1 = v
          BY <1>0, <2>8, <3>1, <4>2
        <5> QED BY <2>9, <3>2, <4>2, <5>1
      <4>3. Len(wire) \in Nat /\ i \in 1..Len(wire) + 1
        BY <3>1, <3>2
      <4> QED BY <4>1, <4>2, <4>3
    <3>4. served' = IF n = 0 THEN NoDocument ELSE [version |-> n - 1, text |-> longer[n]]
      BY <1>0, <2>1, <2>9, <3>1
    <3>5. Len(wire') = Len(longer) - n /\ ~confused'
      BY <1>0, <2>1, <2>9, <3>1, <3>2
    <3> QED BY <3>3, <3>4, <3>5 DEF WireGoesOn
  <2>14. PushesNamed(longer, n)'
    <3>1. ASSUME versioned PROVE pushed + 1 \in 0..n /\ (pushed # -1 => diagnosed = longer[pushed + 1])
      <4>1. pushed \in Int /\ pushed + 1 \in 0..n /\ (pushed # -1 => diagnosed = texts[pushed + 1])
        BY <1>0, <3>1 DEF PushesNamed, TouchesTyped
      <4>2. pushed # -1 => pushed + 1 \in 1..Len(texts)
        BY <1>0, <4>1
      <4> QED BY <2>9, <4>1, <4>2
    <3>2. \A u \in Touches : /\ touch'[u].pushed = touch[u].pushed
                             /\ touch'[u].at \in {"debouncing", "pushed"} => touch'[u] = touch[u]
      BY <2>3, <2>4
    <3> QED BY <1>0, <2>1, <3>1, <3>2 DEF PushesNamed
  <2> QED BY <1>b, <2>7, <2>8, <2>11, <2>12, <2>13, <2>14, <2>9
<1>5. ASSUME NEW t \in Touches, Document!DidOpen(t) PROVE OpensAlone' /\ \E ts \in Seq(Contents) : \E m \in 0..Len(ts) : Told(ts, m)'
  <2>x. PICK x : x = touch[t].text
    OBVIOUS
  <2>y. PICK longer : longer = Append(texts, x)
    OBVIOUS
  <2> DEFINE e == [touch[t] EXCEPT !.at = "opened"]
  <2>0. touch[t] \in [at : TouchStates, text : 0..MaxContents, seen : Documents \cup {NoDocument},
                      version : Int, pushed : BOOLEAN, got : -1..MaxContents]
    BY DEF TouchesTyped
  <2>1. /\ touch[t].at = "open" /\ UNCHANGED <<content, document, served, confused, versioned, pushes, pushed, crossed>>
        /\ diagnosed' = -1 /\ wire' = Append(wire, Document!Notification("open", x, 0))
    BY <1>5, <2>x DEF Document!DidOpen
  <2>2. touch' = [touch EXCEPT ![t] = e]
    BY <1>5, <2>0 DEF Document!DidOpen
  <2>3. e.at = "opened" /\ e.text = x /\ e.pushed = touch[t].pushed
    BY <2>0, <2>x
  <2> HIDE DEF e
  <2>4. touch'[t] = e /\ \A u \in Touches : u # t => touch'[u] = touch[u]
    BY <2>2, TouchStep
  <2>5. \A u \in Touches : u # t => touch[u].at \notin {"read", "change", "open", "opened"}
    BY <2>1 DEF Document!Opening, OpensAlone
  <2>6. Document!Opening' = Document!Opening /\ Document!Opening = {t}
    BY <2>1, <2>3, <2>4, <2>5 DEF Document!Opening
  <2>7. OpensAlone'
    BY <2>6 DEF OpensAlone
  <2>8. texts = <<>> /\ Len(texts) = 0 /\ n = 0 /\ x \in Contents /\ x <= content
    BY <1>0, <2>1, <2>6, <2>x DEF DocumentIsLast, TouchesTyped, TextsGrow
  <2>9. longer \in Seq(Contents) /\ Len(longer) = 1 /\ longer # <<>> /\ longer[1] = x
    BY <1>0, <2>8, <2>y
  <2>10. \A i \in 1..1 : i = 1
    OBVIOUS
  <2>11. TextsGrow(longer)'
    <3>1. \A i \in 1..Len(longer) : longer[i] = x /\ i = 1
      BY <2>9, <2>10
    <3>2. \A u \in Document!Opening' : touch'[u].text = x
      BY <2>3, <2>4, <2>6
    <3>3. \A i \in 1..Len(longer) : longer[i] <= content' /\ \A j \in 1..i : longer[j] <= longer[i]
      BY <1>0, <2>1, <2>8, <2>9, <3>1
    <3>4. \A u \in Document!Opening' : touch'[u].text <= content' /\ \A i \in 1..Len(longer) : longer[i] <= touch'[u].text
      BY <1>0, <2>1, <2>8, <3>1, <3>2
    <3> QED BY <3>3, <3>4 DEF TextsGrow
  <2>12. DocumentIsLast(longer)'
    <3>1. document' = NoDocument /\ touch'[t].at = "opened"
      BY <1>0, <2>1, <2>3, <2>4, <2>8 DEF DocumentIsLast
    <3>2. ASSUME NEW u \in Touches
          PROVE  /\ touch'[u].at \notin {"open", "change"} /\ touch'[u].at \notin Sent
                 /\ touch'[u].at = "opened" => touch'[u].text = x
      <4>1. CASE u = t
        BY <2>3, <2>4, <4>1 DEF Sent
      <4>2. CASE u # t
        <5>1. touch'[u] = touch[u] /\ touch[u].at \notin {"open", "opened", "change"}
          BY <2>4, <2>5, <4>2
        <5>2. touch[u].at \in Sent => touch[u].version + 1 \in 1..Len(texts)
          BY <1>0 DEF DocumentIsLast
        <5>3. 1..0 = {}
          OBVIOUS
        <5> QED BY <2>8, <5>1, <5>2, <5>3
      <4> QED BY <4>1, <4>2
    <3> QED BY <2>9, <3>1, <3>2 DEF DocumentIsLast
  <2>13. WireGoesOn(longer, n)'
    <3>1. wire \in Seq(Notifications) /\ Len(wire) = 0 /\ ~confused /\ served = NoDocument
      BY <1>0, <2>8 DEF WireGoesOn, TouchesTyped
    <3>2. Len(wire') = 1 /\ wire'[1] = Document!Notification("open", x, 0)
      BY <2>1, <3>1
    <3>3. \A i \in 1..Len(wire') : wire'[i] = Document!Notification(IF 0 + i = 1 THEN "open" ELSE "change", longer[0 + i], 0 + i - 1)
      BY <2>9, <2>10, <3>2
    <3> QED BY <2>1, <2>8, <2>9, <3>1, <3>2, <3>3 DEF WireGoesOn
  <2>14. PushesNamed(longer, n)'
    <3>1. versioned => pushed = -1
      BY <1>0, <2>8 DEF PushesNamed, TouchesTyped
    <3> QED BY <1>0, <2>1, <2>3, <2>4, <3>1 DEF PushesNamed
  <2> QED BY <1>b, <2>7, <2>8, <2>11, <2>12, <2>13, <2>14, <2>9
<1>6. ASSUME NEW t \in Touches, Document!Opened(t) PROVE OpensAlone' /\ \E ts \in Seq(Contents) : \E m \in 0..Len(ts) : Told(ts, m)'
  <2> DEFINE e == [touch[t] EXCEPT !.at = "waiting", !.version = 0]
  <2>0. touch[t] \in [at : TouchStates, text : 0..MaxContents, seen : Documents \cup {NoDocument},
                      version : Int, pushed : BOOLEAN, got : -1..MaxContents]
    BY DEF TouchesTyped
  <2>1. /\ touch[t].at = "opened" /\ UNCHANGED <<content, wire, served, confused, versioned, pushes, pushed, diagnosed, crossed>>
        /\ document' = [version |-> 0, text |-> touch[t].text]
    BY <1>6 DEF Document!Opened
  <2>2. touch' = [touch EXCEPT ![t] = e]
    BY <1>6, <2>0 DEF Document!Opened
  <2>3. e.at = "waiting" /\ e.version = 0 /\ e.text = touch[t].text /\ e.pushed = touch[t].pushed
    BY <2>0
  <2> HIDE DEF e
  <2>4. touch'[t] = e /\ \A u \in Touches : u # t => touch'[u] = touch[u]
    BY <2>2, TouchStep
  <2>5. \A u \in Touches : u # t => touch[u].at \notin {"read", "change", "open", "opened"}
    BY <2>1 DEF Document!Opening, OpensAlone
  <2>6. Document!Opening' = {}
    BY <2>3, <2>4, <2>5 DEF Document!Opening
  <2>7. OpensAlone'
    BY <2>6 DEF OpensAlone
  <2>8. Len(texts) = 1 /\ texts # <<>> /\ texts[1] = touch[t].text
    BY <1>0, <2>1 DEF DocumentIsLast
  <2>9. TextsGrow(texts)'
    BY <1>0, <2>1, <2>6 DEF TextsGrow
  <2>10. DocumentIsLast(texts)'
    <3>1. ~\E u \in Touches : touch'[u].at = "opened"
      BY <2>3, <2>4, <2>5
    <3>2. ASSUME NEW u \in Touches
          PROVE  /\ touch'[u].at \notin {"open", "opened", "change"}
                 /\ touch'[u].at \in Sent => touch'[u].version + 1 \in 1..Len(texts) /\ texts[touch'[u].version + 1] = touch'[u].text
      <4>1. CASE u = t
        BY <2>3, <2>4, <2>8, <4>1
      <4>2. CASE u # t
        <5>1. touch'[u] = touch[u] /\ touch[u].at \notin {"open", "opened", "change"}
          BY <2>4, <2>5, <4>2
        <5> QED BY <1>0, <5>1 DEF DocumentIsLast
      <4> QED BY <4>1, <4>2
    <3> QED BY <2>1, <2>8, <3>1, <3>2 DEF DocumentIsLast
  <2>11. WireGoesOn(texts, n)'
    BY <1>0, <2>1 DEF WireGoesOn
  <2>12. PushesNamed(texts, n)'
    BY <1>0, <2>1, <2>3, <2>4 DEF PushesNamed
  <2> QED BY <1>a, <2>7, <2>9, <2>10, <2>11, <2>12
<1>7. CASE Document!Receive
  <2>1. /\ wire # <<>> /\ UNCHANGED <<content, touch, document, versioned, pushes, pushed, diagnosed, crossed>>
        /\ served' = [version |-> Head(wire).version, text |-> Head(wire).text] /\ wire' = Tail(wire)
        /\ confused' = (confused \/ IF Head(wire).type = "open" THEN served # NoDocument
                                    ELSE served = NoDocument \/ Head(wire).version <= served.version)
    BY <1>7 DEF Document!Receive
  <2>2. /\ wire \in Seq(Notifications) /\ Len(wire) = Len(texts) - n /\ ~confused
        /\ \A i \in 1..Len(wire) : wire[i] = Document!Notification(IF n + i = 1 THEN "open" ELSE "change", texts[n + i], n + i - 1)
        /\ served = IF n = 0 THEN NoDocument ELSE [version |-> n - 1, text |-> texts[n]]
    BY <1>0 DEF WireGoesOn, TouchesTyped
  <2>3. n + 1 \in 1..Len(texts) /\ 1 \in 1..Len(wire) /\ Len(wire) \in Nat
    BY <1>0, <2>1, <2>2
  <2>4. Head(wire) = [type |-> IF n = 0 THEN "open" ELSE "change", text |-> texts[n + 1], version |-> n]
    <3>1. Head(wire) = wire[1]
      BY <2>1, <2>2
    <3>2. (n + 1 = 1 <=> n = 0) /\ n + 1 - 1 = n
      BY <1>0
    <3> QED BY <2>2, <2>3, <3>1, <3>2 DEF Document!Notification
  <2>5. ~confused'
    <3>1. CASE n = 0
      <4>1. Head(wire).type = "open" /\ served = NoDocument
        BY <2>2, <2>4, <3>1
      <4> QED BY <2>1, <2>2, <4>1, Zenon
    <3>2. CASE n # 0
      <4>1. Head(wire).type = "change" /\ Head(wire).version = n /\ Head(wire).type # "open"
        BY <2>4, <3>2
      <4>2. served = [version |-> n - 1, text |-> texts[n]] /\ texts[n] \in Contents
        BY <1>0, <2>2, <3>2
      <4>3. n - 1 \in Int /\ texts[n] \in Int
        BY <1>0, <4>2
      <4>4. served # NoDocument /\ served.version = n - 1
        BY <1>0, <4>2, <4>3
      <4>5. ~(Head(wire).version <= served.version)
        BY <1>0, <4>1, <4>4
      <4> QED BY <2>1, <2>2, <4>1, <4>4, <4>5, Zenon
    <3> QED BY <3>1, <3>2
  <2>6. Len(Tail(wire)) = Len(wire) - 1 /\ \A i \in 1..Len(wire) - 1 : Tail(wire)[i] = wire[i + 1]
    BY <2>1, <2>2
  <2>7. WireGoesOn(texts, n + 1)'
    <3>1. served' = [version |-> (n + 1) - 1, text |-> texts[n + 1]] /\ n + 1 # 0
      BY <1>0, <2>1, <2>4
    <3>2. Len(wire') = Len(texts) - (n + 1)
      BY <1>0, <2>1, <2>2, <2>3, <2>6
    <3>3. ASSUME NEW i \in 1..Len(wire')
          PROVE  wire'[i] = Document!Notification(IF (n + 1) + i = 1 THEN "open" ELSE "change", texts[(n + 1) + i], (n + 1) + i - 1)
      <4>1. i \in 1..Len(wire) - 1 /\ i + 1 \in 1..Len(wire) /\ n + (i + 1) = (n + 1) + i
        BY <1>0, <2>1, <2>3, <2>6
      <4>2. wire'[i] = wire[i + 1]
        BY <2>1, <2>6, <4>1
      <4> QED BY <2>2, <4>1, <4>2
    <3> QED BY <2>5, <3>1, <3>2, <3>3 DEF WireGoesOn
  <2>8. PushesNamed(texts, n + 1)'
    <3>1. ASSUME versioned PROVE pushed + 1 \in 0..n + 1
      BY <1>0, <3>1 DEF PushesNamed, TouchesTyped
    <3> QED BY <1>0, <2>1, <3>1 DEF PushesNamed
  <2>9. OpensAlone' /\ TextsGrow(texts)' /\ DocumentIsLast(texts)'
    BY <1>0, <2>1 DEF OpensAlone, TextsGrow, DocumentIsLast, Document!Opening
  <2>10. n + 1 \in 0..Len(texts)
    BY <1>0, <2>3
  <2> QED BY <2>7, <2>8, <2>9, <2>10 DEF Told
<1>8. CASE Document!Push
  <2>1. /\ served # NoDocument /\ UNCHANGED <<content, document, wire, served, confused, versioned, crossed>>
        /\ pushed' = (IF versioned THEN served.version ELSE -1) /\ diagnosed' = served.text
        /\ touch' = [u \in Touches |-> IF touch[u].at = "new" THEN touch[u] ELSE [touch[u] EXCEPT !.pushed = TRUE]]
    BY <1>8 DEF Document!Push
  <2>2. n # 0 /\ served.version = n - 1 /\ served.text = texts[n]
    BY <1>0, <2>1 DEF WireGoesOn
  <2>3. \A u \in Touches : /\ touch'[u].at = touch[u].at /\ touch'[u].text = touch[u].text /\ touch'[u].seen = touch[u].seen
                           /\ touch'[u].version = touch[u].version /\ touch'[u].got = touch[u].got
    BY <2>1 DEF TouchesTyped
  <2>4. Document!Opening' = Document!Opening /\ Document!Opening \subseteq Touches
    BY <2>3 DEF Document!Opening
  <2>5. OpensAlone' /\ TextsGrow(texts)'
    BY <1>0, <2>1, <2>3, <2>4 DEF OpensAlone, TextsGrow
  <2>6. DocumentIsLast(texts)'
    <3>1. (\E u \in Touches : touch'[u].at = "opened") <=> (\E u \in Touches : touch[u].at = "opened")
      BY <2>3
    <3> QED BY <1>0, <2>1, <2>3, <3>1 DEF DocumentIsLast
  <2>7. WireGoesOn(texts, n)'
    BY <1>0, <2>1 DEF WireGoesOn
  <2>8. PushesNamed(texts, n)'
    <3>1. ASSUME versioned PROVE pushed' = n - 1 /\ pushed' + 1 \in 0..n /\ pushed' # -1 /\ diagnosed' = texts[pushed' + 1]
      BY <1>0, <2>1, <2>2, <3>1
    <3>2. ASSUME versioned, NEW u \in Touches, touch[u].at = "debouncing" PROVE touch[u].version <= n - 1
      <4>1. pushed \in Int /\ touch[u].version \in Int /\ touch[u].version <= pushed /\ pushed + 1 <= n
        BY <1>0, <3>2 DEF PushesNamed, TouchesTyped
      <4> QED BY <1>0, <4>1
    <3> QED BY <1>0, <2>1, <2>3, <3>1, <3>2 DEF PushesNamed
  <2> QED BY <1>a, <2>5, <2>6, <2>7, <2>8
\* A call that waits, or is over.
<1>9. ASSUME NEW t \in Touches, NEW place \in Sent, NEW got \in -1..MaxContents, touch[t].at \in Sent,
             touch' = [touch EXCEPT ![t] = [touch[t] EXCEPT !.at = place, !.got = got]],
             UNCHANGED <<content, document, wire, served, confused, versioned, pushes, pushed, diagnosed, crossed>>,
             versioned /\ place = "debouncing" => touch[t].version <= pushed,
             versioned /\ place = "pushed" => got >= touch[t].text
      PROVE OpensAlone' /\ \E ts \in Seq(Contents) : \E m \in 0..Len(ts) : Told(ts, m)'
  <2> DEFINE e == [touch[t] EXCEPT !.at = place, !.got = got]
  <2>0. touch[t] \in [at : TouchStates, text : 0..MaxContents, seen : Documents \cup {NoDocument},
                      version : Int, pushed : BOOLEAN, got : -1..MaxContents]
    BY DEF TouchesTyped
  <2>1. e.at = place /\ e.got = got /\ e.text = touch[t].text /\ e.version = touch[t].version /\ e.pushed = touch[t].pushed
    BY <2>0
  <2>2. touch' = [touch EXCEPT ![t] = e]
    BY <1>9
  <2> HIDE DEF e
  <2>3. touch'[t] = e /\ \A u \in Touches : u # t => touch'[u] = touch[u]
    BY <2>2, TouchStep
  <2>4. place \notin {"new", "read", "change", "open", "opened"} /\ touch[t].at \notin {"new", "read", "change", "open", "opened"}
    BY <1>9 DEF Sent
  <2>5. Document!Opening' = Document!Opening /\ t \notin Document!Opening /\ \A u \in Document!Opening : touch'[u] = touch[u]
    BY <2>1, <2>3, <2>4 DEF Document!Opening
  <2>6. OpensAlone' /\ TextsGrow(texts)'
    BY <1>0, <1>9, <2>5 DEF OpensAlone, TextsGrow
  <2>7. DocumentIsLast(texts)'
    <3>1. (\E u \in Touches : touch'[u].at = "opened") <=> (\E u \in Touches : touch[u].at = "opened")
      BY <2>1, <2>3, <2>4
    <3>2. ASSUME NEW u \in Touches
          PROVE  /\ touch'[u].at = "open" => texts = <<>>
                 /\ touch'[u].at = "opened" => Len(texts) = 1 /\ texts[1] = touch'[u].text
                 /\ touch'[u].at = "change" => touch'[u].seen = document
                 /\ touch'[u].at \in Sent => touch'[u].version + 1 \in 1..Len(texts) /\ texts[touch'[u].version + 1] = touch'[u].text
      <4>1. CASE u = t
        BY <1>0, <1>9, <2>1, <2>3, <2>4, <4>1 DEF DocumentIsLast
      <4>2. CASE u # t
        BY <1>0, <2>3, <4>2 DEF DocumentIsLast
      <4> QED BY <4>1, <4>2
    <3> QED BY <1>0, <1>9, <3>1, <3>2 DEF DocumentIsLast
  <2>8. WireGoesOn(texts, n)'
    BY <1>0, <1>9 DEF WireGoesOn
  <2>9. PushesNamed(texts, n)'
    BY <1>0, <1>9, <2>1, <2>3 DEF PushesNamed
  <2> QED BY <1>a, <2>6, <2>7, <2>8, <2>9
<1>10. ASSUME NEW t \in Touches, Document!Schedule(t) \/ Document!Pushed(t) \/ Document!Timeout(t) PROVE OpensAlone' /\ \E ts \in Seq(Contents) : \E m \in 0..Len(ts) : Told(ts, m)'
  <2>1. /\ UNCHANGED <<content, document, wire, served, confused, versioned, pushes, pushed, diagnosed, crossed>>
        /\ touch[t].at \in Sent
    BY <1>10 DEF Document!Schedule, Document!Pushed, Document!Timeout, Sent
  <2>2. touch[t] \in [at : TouchStates, text : 0..MaxContents, seen : Documents \cup {NoDocument},
                      version : Int, pushed : BOOLEAN, got : -1..MaxContents]
    BY DEF TouchesTyped
  <2>3. touch[t].version + 1 \in 1..Len(texts) /\ texts[touch[t].version + 1] = touch[t].text
    BY <1>0, <2>1 DEF DocumentIsLast
  <2>4. CASE Document!Schedule(t)
    <3>1. Document!Fresh(t) /\ touch' = [touch EXCEPT ![t] = [touch[t] EXCEPT !.at = "debouncing", !.got = touch[t].got]]
      BY <2>2, <2>4 DEF Document!Schedule
    <3>2. versioned => touch[t].version <= pushed
      <4>1. versioned /\ touch[t].pushed => pushed # -1
        BY <1>0 DEF PushesNamed
      <4>2. versioned => pushed = touch[t].version
        BY <3>1, <4>1 DEF Document!Fresh
      <4> QED BY <2>2, <4>2
    <3> QED BY <1>9, <2>1, <2>2, <3>1, <3>2 DEF Sent
  <2>5. CASE Document!Pushed(t)
    <3>1. touch[t].at = "debouncing" /\ touch' = [touch EXCEPT ![t] = [touch[t] EXCEPT !.at = "pushed", !.got = diagnosed]]
      BY <2>5 DEF Document!Pushed
    <3>2. ASSUME versioned PROVE diagnosed >= touch[t].text
      <4>1. /\ touch[t].version <= pushed /\ pushed \in Int /\ touch[t].version \in Int /\ pushed + 1 <= n
            /\ (pushed # -1 => diagnosed = texts[pushed + 1])
        BY <1>0, <2>2, <3>1, <3>2 DEF PushesNamed, TouchesTyped
      <4>2. pushed + 1 \in 1..Len(texts) /\ pushed # -1 /\ touch[t].version + 1 \in 1..pushed + 1
        BY <1>0, <2>3, <4>1
      <4>3. texts[touch[t].version + 1] <= texts[pushed + 1] /\ texts[pushed + 1] \in Int /\ texts[touch[t].version + 1] \in Int
        BY <1>0, <2>3, <4>2 DEF TextsGrow
      <4> QED BY <2>3, <4>1, <4>2, <4>3
    <3>3. diagnosed \in -1..MaxContents
      BY DEF TouchesTyped
    <3> QED BY <1>9, <2>1, <3>1, <3>2, <3>3 DEF Sent
  <2>6. CASE Document!Timeout(t)
    <3>1. touch' = [touch EXCEPT ![t] = [touch[t] EXCEPT !.at = "timeout", !.got = touch[t].got]]
      BY <2>2, <2>6 DEF Document!Timeout
    <3> QED BY <1>9, <2>1, <2>2, <3>1 DEF Sent
  <2> QED BY <1>10, <2>4, <2>5, <2>6
<1>12. CASE UNCHANGED documentVars
  BY <1>0, <1>12, <1>a DEF documentVars, OpensAlone, Document!Opening, TextsGrow, DocumentIsLast, WireGoesOn, PushesNamed
<1> QED BY <1>1, <1>2, <1>3, <1>4, <1>5, <1>6, <1>7, <1>8, <1>10, <1>12 DEF Document!Next, Document!GoesOn

\* Calls that do not crossed open the document once and number its versions upwards, and
\* the diagnostics that they report are about what they have read or newer, for any number
\* of calls, writes and pushes.
THEOREM DocumentIsInStep == ASSUME DocumentConstants PROVE Spec => []Document!DocumentInStep
<1>1. ASSUME DocumentInv, [Document!Next]_documentVars PROVE DocumentInv'
  <2>1. TouchesTyped'
    BY <1>1, NextTouchesTyped DEF DocumentInv
  <2>2. ASSUME ~crossed' PROVE OpensAlone' /\ \E texts \in Seq(Contents) : \E n \in 0..Len(texts) : Told(texts, n)'
    <3>1. ~crossed
      BY <1>1, <2>2 DEF Document!Next, Document!GoesOn, documentVars, Document!WriteFile, Document!ReadText, Document!Look,
         Document!DidChange, Document!DidOpen, Document!Opened, Document!Receive, Document!Push, Document!Schedule,
         Document!Pushed, Document!Timeout
    <3>2. PICK texts \in Seq(Contents) : \E n \in 0..Len(texts) : Told(texts, n)
      BY <1>1, <3>1 DEF DocumentInv
    <3>3. PICK n \in 0..Len(texts) : Told(texts, n)
      BY <3>2
    <3>4. TouchesTyped /\ OpensAlone
      BY <1>1, <3>1 DEF DocumentInv
    <3> QED BY <1>1, <2>2, <3>3, <3>4, NextTold
  <2> QED BY <2>1, <2>2 DEF DocumentInv
<1>2. ASSUME DocumentInv PROVE Document!DocumentInStep
  <2>1. Document!TypeOK
    BY <1>2 DEF DocumentInv, TouchesTyped, Document!TypeOK, TouchStates, Contents
  <2>2. Document!InStep
    BY <1>2 DEF DocumentInv, Told, WireGoesOn, Document!InStep
  <2>3. Document!Diagnosed
    BY <1>2 DEF DocumentInv, Told, PushesNamed, Document!Diagnosed
  <2> QED BY <2>1, <2>2, <2>3 DEF Document!DocumentInStep
<1>3. Init => DocumentInv
  BY InitDocumentInv, Starts DEF PartsStart
<1>4. DocumentInv /\ [Next]_vars => DocumentInv'
  BY <1>1, Steps DEF PartsStep
<1> QED BY <1>2, <1>3, <1>4, PTL DEF Spec

\* One language server runs for a root, however many tools ask for it, and the text it
\* has of a file is what the tools have read (getClients of lsp/index.ts and
\* lsp/client.ts).
THEOREM ServerStaysInStep == ASSUME DocumentConstants PROVE Spec => []ServerInStep
<1>1. Spec => []Lsp!TypeOK /\ []Lsp!OneServer
  BY RootHasOneServer
<1>2. Spec => []Document!DocumentInStep
  BY DocumentIsInStep
<1>3. Lsp!TypeOK /\ Lsp!OneServer /\ Document!DocumentInStep => ServerInStep
  BY DEF ServerInStep
<1> QED BY <1>1, <1>2, <1>3, PTL

-----------------------------------------------------------------------------
(* What was overtaken *)

\* A login that another one has overtaken is not completed, unless an update of the
\* credentials was written over another one; a refresh that ends late does not bring a
\* removed account back; and new diffs are not replaced by those of an older version,
\* unless a migration has failed.
THEOREM OvertakenChangesNothing ==
  ASSUME MaxFlows \in Nat, MaxLogins \in Nat \ {0}, MaxRefreshes \in Nat, MaxRecords \in Nat
  PROVE  Spec => OvertakenFails
<1>1. Spec => Auth!OvertakenFails
  BY LoginsAreOvertaken
<1>2. Spec => Tokens!RemovedStays
  BY TokensAreKept
<1>3. Spec => Files!NewDiffsKept
  BY OldSessionsAreKept
<1> QED BY <1>1, <1>2, <1>3, PTL DEF OvertakenFails

\* A session has one agent; what it says and does is in the session, under the turn it
\* was said in (acp-client/*).
THEOREM AgentOfSessionIsHeard ==
  ASSUME MaxTurns \in Nat, MaxSpawns \in Nat PROVE Spec => []AgentIsHeard
<1>1. Spec => []Adapter!SessionFollowsAgent
  BY SessionHasOutcomes
<1>2. Spec => []Turn!TurnsKeepApart
  BY TurnsAreApart
<1>3. Spec => []Pool!OneAgent
  BY SessionHasOneAgent
<1>4. Adapter!SessionFollowsAgent /\ Turn!TurnsKeepApart /\ Pool!OneAgent => AgentIsHeard
  BY DEF AgentIsHeard
<1> QED BY <1>1, <1>2, <1>3, <1>4, PTL
=============================================================================
