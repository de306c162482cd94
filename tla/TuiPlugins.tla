----------------------------- MODULE TuiPlugins -----------------------------
(***************************************************************************)
(* The plugins of the terminal client: cli/cmd/tui/plugin/runtime.ts runs  *)
(* the code of each, which registers commands, routes, slots, event        *)
(* handlers and handlers of its own with a scope, and undoes all of that   *)
(* when the plugin is switched off, fails to start or the client ends.     *)
(*                                                                         *)
(* A scope is named by the activation that creates it: the one of load is  *)
(* named like its plugin, the others are calls of activate or add.  A      *)
(* plugin that was given the api may call it at any time, also after the   *)
(* end of the client.                                                      *)
(***************************************************************************)
EXTENDS Naturals, SequencesExt

CONSTANTS
    Found,     \* how many plugins load finds
    Added,     \* how many more can be added while the client runs
    Calls,     \* calls of activate and add, by the user or by a plugin
    NoScope,
    MaxHooks   \* a bound on what one activation registers

VARIABLES
    runtime, \* the plugin that load has come to, 0 when it has ended; where dispose is and how
             \* many plugins it has left
    listed,  \* state.plugins are 1..listed
    enabled, \* plugin.enabled
    scope,   \* plugin.scope
    plugin,  \* the plugin of each scope
    stage,   \* where each scope is
    list,    \* what a scope has tracked and not cleaned up
    hooks,   \* what the client has from each scope
    twice,   \* plugins of which two activations ran at once
    again    \* plugins that were switched on when dispose had taken its queue

pluginVars == <<runtime, listed, enabled, scope, plugin, stage, list, hooks, twice, again>>

Plugins == 1..(Found + Added)
Scopes == Plugins \cup Calls
Hooks == [n : 1..MaxHooks, own : BOOLEAN]
Stray == [n |-> 0, own |-> FALSE] \* what is registered with a scope that is done
Underway(s) == stage[s] \in {"running", "cleaning", "hanging"}
Open(s) == stage[s] \in {"running", "kept"}

\* Which plugins the configuration and the store have switched off.
Init ==
    /\ runtime = [phase |-> "up", at |-> 1, left |-> 0, waits |-> NoScope]
    /\ listed = Found
    /\ enabled \in [Plugins -> BOOLEAN] /\ \A p \in Plugins : p > Found => enabled[p]
    /\ scope = [p \in Plugins |-> NoScope]
    /\ plugin = [s \in Scopes |-> 0]
    /\ stage = [s \in Scopes |-> "new"]
    /\ list = [s \in Scopes |-> <<>>] /\ hooks = [s \in Scopes |-> {}]
    /\ twice = {} /\ again = {}

-----------------------------------------------------------------------------
(* createPluginScope *)

Numbers(s) == {h.n : h \in hooks[s]}

\* A tracked hook, or a handler of the plugin's own for onDispose.
Register(s, own) ==
    /\ Open(s)
    /\ \E n \in 1..MaxHooks \ Numbers(s) :
          /\ 1..(n - 1) \subseteq Numbers(s)
          /\ list' = [list EXCEPT ![s] = Append(@, [n |-> n, own |-> own])]
          /\ hooks' = [hooks EXCEPT ![s] = @ \cup {[n |-> n, own |-> own]}]
    /\ UNCHANGED <<runtime, listed, enabled, scope, plugin, stage, twice, again>>

\* When the scope is done, a hook is registered and not tracked.
RegisterLate(s) ==
    /\ ~Open(s) /\ stage[s] # "new"
    /\ \A t \in Scopes : Stray \notin hooks[t] \* a bound: one at a time
    /\ hooks' = [hooks EXCEPT ![s] = @ \cup {Stray}]
    /\ UNCHANGED <<runtime, listed, enabled, scope, plugin, stage, list, twice, again>>

\* What register returns takes a hook back; what dispose has in its queue stays there, and
\* a handler of the plugin's own is still run.
Unregister(s) ==
    /\ \/ /\ Open(s)
          /\ \E i \in DOMAIN list[s] :
                /\ hooks' = [hooks EXCEPT ![s] = @ \ {list[s][i]}]
                /\ list' = [list EXCEPT ![s] = RemoveAt(@, i)]
       \/ /\ ~Open(s)
          /\ \E h \in hooks[s] : ~h.own /\ hooks' = [hooks EXCEPT ![s] = @ \ {h}]
          /\ UNCHANGED list
    /\ UNCHANGED <<runtime, listed, enabled, scope, plugin, stage, twice, again>>

\* dispose cleans up in reverse order: an own handler that throws counts as run,
\* one that does not end takes what is left of the five seconds.
Cleanup(s) ==
    /\ stage[s] = "cleaning"
    /\ IF list[s] = <<>>
       THEN stage' = [stage EXCEPT ![s] = "gone"] /\ UNCHANGED <<list, hooks>>
       ELSE LET h == list[s][Len(list[s])] IN
            \/ /\ list' = [list EXCEPT ![s] = SubSeq(@, 1, Len(@) - 1)]
               /\ hooks' = [hooks EXCEPT ![s] = @ \ {h}]
               /\ UNCHANGED stage
            \/ h.own /\ stage' = [stage EXCEPT ![s] = "hanging"] /\ UNCHANGED <<list, hooks>>
    /\ UNCHANGED <<runtime, listed, enabled, scope, plugin, twice, again>>

\* Mutant: dispose waits for a handler as long as it takes.
NoTimeout(s) ==
    /\ stage[s] = "hanging" /\ stage' = [stage EXCEPT ![s] = "cleaning"]
    /\ UNCHANGED <<runtime, listed, enabled, scope, plugin, list, hooks, twice, again>>

Timeout(s) ==
    /\ stage[s] = "hanging"
    /\ stage' = [stage EXCEPT ![s] = "late"] /\ list' = [list EXCEPT ![s] = <<>>]
    /\ UNCHANGED <<runtime, listed, enabled, scope, plugin, hooks, twice, again>>

-----------------------------------------------------------------------------
(* activatePluginEntry and deactivatePluginEntry *)

Starting(p) == \E s \in Scopes : plugin[s] = p /\ stage[s] = "running"
Late == runtime.phase \in {"disposing", "down"}

\* The plugin's code begins, unless it has a scope already.
Activate(p, s) ==
    /\ stage[s] = "new"
    /\ enabled' = [enabled EXCEPT ![p] = TRUE]
    /\ again' = IF Late THEN again \cup {p} ELSE again
    /\ IF scope[p] # NoScope THEN UNCHANGED <<plugin, stage, twice>>
       ELSE /\ plugin' = [plugin EXCEPT ![s] = p] /\ stage' = [stage EXCEPT ![s] = "running"]
            /\ twice' = IF Starting(p) THEN twice \cup {p} ELSE twice
    /\ UNCHANGED <<scope, list, hooks>>

\* load goes on when the plugin that it has started is on.
LoadGoesOn(s) == IF s = runtime.at THEN [runtime EXCEPT !.at = @ + 1] ELSE runtime

\* Mutant: what was switched off meanwhile is kept.
KeepAnyway(s) ==
    /\ stage[s] = "running"
    /\ stage' = [stage EXCEPT ![s] = "kept"] /\ scope' = [scope EXCEPT ![plugin[s]] = s]
    /\ runtime' = LoadGoesOn(s)
    /\ UNCHANGED <<listed, enabled, plugin, list, hooks, twice, again>>

\* The plugin's code returns.
Return(s) ==
    /\ stage[s] = "running"
    /\ IF enabled[plugin[s]]
       THEN /\ stage' = [stage EXCEPT ![s] = "kept"] /\ scope' = [scope EXCEPT ![plugin[s]] = s]
            /\ runtime' = LoadGoesOn(s)
       ELSE stage' = [stage EXCEPT ![s] = "cleaning"] /\ UNCHANGED <<scope, runtime>>
    /\ UNCHANGED <<listed, enabled, plugin, list, hooks, twice, again>>

\* Mutant: a plugin that fails to start leaves what it has registered.
ThrowOnly(s) ==
    /\ stage[s] = "running" /\ stage' = [stage EXCEPT ![s] = "gone"]
    /\ UNCHANGED <<runtime, listed, enabled, scope, plugin, list, hooks, twice, again>>

\* It throws: the plugin stays enabled, without a scope.
Throw(s) ==
    /\ stage[s] = "running" /\ stage' = [stage EXCEPT ![s] = "cleaning"]
    /\ UNCHANGED <<runtime, listed, enabled, scope, plugin, list, hooks, twice, again>>

\* Mutant: the scope stays where it was.
DeactivateInPlace(p) ==
    /\ enabled' = [enabled EXCEPT ![p] = FALSE]
    /\ stage' = IF scope[p] = NoScope \/ stage[scope[p]] # "kept" THEN stage
                ELSE [stage EXCEPT ![scope[p]] = "cleaning"]
    /\ UNCHANGED <<scope, plugin, list, hooks, twice, again>>

Deactivate(p) ==
    /\ enabled' = [enabled EXCEPT ![p] = FALSE]
    /\ stage' = IF scope[p] = NoScope THEN stage ELSE [stage EXCEPT ![scope[p]] = "cleaning"]
    /\ scope' = [scope EXCEPT ![p] = NoScope]
    /\ UNCHANGED <<plugin, list, hooks, twice, again>>

-----------------------------------------------------------------------------
(* What the user asks for in the plugin manager, and plugins by their api, which keeps the
   runtime that it was made with *)

UserActivates(p, c) ==
    /\ p <= listed /\ Activate(p, c)
    /\ UNCHANGED <<runtime, listed>>

UserDeactivates(p) ==
    /\ p <= listed /\ (enabled[p] \/ scope[p] # NoScope) /\ Deactivate(p)
    /\ UNCHANGED <<runtime, listed>>

\* The end of addPluginBySpec, when the plugin is installed and read: whether there is a
\* runtime was asked at the beginning.
Add(c) ==
    /\ listed < Found + Added
    /\ listed' = listed + 1
    /\ Activate(listed + 1, c)
    /\ UNCHANGED runtime

-----------------------------------------------------------------------------
(* load and dispose *)

Up == runtime.phase = "up"
Loading == runtime.at # 0
Starts(p) == enabled[p] /\ scope[p] = NoScope /\ stage[p] = "new"

\* load walks the list as it grows, one plugin after the other, and asks of each only
\* whether it is enabled and has no scope.
LoadNext ==
    /\ Loading
    /\ IF runtime.at > listed
       THEN /\ runtime' = [runtime EXCEPT !.at = 0]
            /\ UNCHANGED <<enabled, scope, plugin, stage, list, hooks, twice, again>>
       ELSE \/ Starts(runtime.at) /\ Activate(runtime.at, runtime.at) /\ UNCHANGED runtime
            \/ /\ ~Starts(runtime.at) /\ ~Underway(runtime.at)
               /\ runtime' = [runtime EXCEPT !.at = @ + 1]
               /\ UNCHANGED <<enabled, scope, plugin, stage, list, hooks, twice, again>>
    /\ UNCHANGED listed

\* The user ends the client, also while plugins are loaded.
Exit ==
    /\ Up
    /\ runtime' = [runtime EXCEPT !.phase = "ending"]
    /\ UNCHANGED <<listed, enabled, scope, plugin, stage, list, hooks, twice, again>>

\* Mutant: dispose takes the plugins that load has found.
DisposeFound ==
    /\ runtime.phase = "ending" /\ ~Loading
    /\ runtime' = [runtime EXCEPT !.phase = "disposing", !.left = Found]
    /\ UNCHANGED <<listed, enabled, scope, plugin, stage, list, hooks, twice, again>>

\* dispose waits for load and takes the list as it is then.
Dispose ==
    /\ runtime.phase = "ending" /\ ~Loading
    /\ runtime' = [runtime EXCEPT !.phase = "disposing", !.left = listed]
    /\ UNCHANGED <<listed, enabled, scope, plugin, stage, list, hooks, twice, again>>

\* Plugins are switched off from the last to the first, each when the scope of the
\* one before it is cleaned up.
DisposeNext ==
    /\ runtime.phase = "disposing"
    /\ runtime.waits \in {NoScope} \cup {s \in Scopes : ~Underway(s)}
    /\ IF runtime.left = 0
       THEN /\ runtime' = [runtime EXCEPT !.phase = "down", !.waits = NoScope]
            /\ UNCHANGED <<enabled, scope, plugin, stage, list, hooks, twice, again>>
       ELSE /\ runtime' = [runtime EXCEPT !.left = @ - 1, !.waits = scope[runtime.left]]
            /\ Deactivate(runtime.left)
    /\ UNCHANGED listed

ScopeGoesOn(s) == Return(s) \/ Throw(s) \/ Cleanup(s) \/ Timeout(s)
GoesOn == LoadNext \/ Dispose \/ DisposeNext \/ \E s \in Scopes : ScopeGoesOn(s)

Next ==
    \/ GoesOn
    \/ \E s \in Scopes, own \in BOOLEAN : Register(s, own)
    \/ \E s \in Scopes : RegisterLate(s) \/ Unregister(s)
    \/ \E p \in Plugins, c \in Calls : UserActivates(p, c)
    \/ \E p \in Plugins : UserDeactivates(p)
    \/ \E c \in Calls : Add(c)
    \/ Exit

\* That the code of a plugin returns or throws is an assumption; its handlers may hang.
Spec == Init /\ [][Next]_pluginVars /\ WF_pluginVars(GoesOn)

-----------------------------------------------------------------------------

\* What the client has from plugins, but for what was registered with a scope that is done,
\* can be undone: it belongs to a plugin that is on, or to one that starts or is being
\* cleaned up.  Only a handler that hangs leaves something behind, and a second activation
\* of a plugin that is still starting.
HooksAreOwned ==
    \A s \in Scopes : hooks[s] \ {Stray} # {} =>
        \/ Underway(s) \/ stage[s] = "late"
        \/ stage[s] = "kept" /\ (scope[plugin[s]] = s \/ plugin[s] \in twice)

\* What is shown as on is on.  A plugin that was switched off last, by the user or by the
\* end of the client, is off, also when its code was running at that moment, unless it was
\* activated twice at once.  After the end of the client only what was switched on or added meanwhile is on.
OffIsOff ==
    /\ \A p \in Plugins : scope[p] # NoScope => enabled[p] /\ stage[scope[p]] = "kept"
    /\ \A s \in Scopes : stage[s] = "kept" => enabled[plugin[s]] \/ plugin[s] \in twice
    /\ runtime.phase = "down" => \A s \in Scopes : stage[s] = "kept" => plugin[s] \in twice \cup again

PluginsTracked == HooksAreOwned /\ OffIsOff

\* Loading, activations and the end of the client come to an end.
NobodyWaits ==
    /\ \A s \in Scopes : ~Underway(s)
    /\ runtime.phase \notin {"ending", "disposing"} /\ ~Loading

PluginsSettle == []<>NobodyWaits

\* Wanted, but does not hold: load starts what add has just started.
\* A plugin is activated by one call at a time.
OneAtATime == twice = {}
=============================================================================
