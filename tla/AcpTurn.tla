------------------------------ MODULE AcpTurn ------------------------------
(***************************************************************************)
(* The turns of one session on its pooled connection to an agent:          *)
(* streamClaudeCode of session/llm-claude-code.ts, and prompt,             *)
(* SessionUpdateRouter and UpdateQueue of acp-client/connection.ts.        *)
(*                                                                         *)
(* A turn sends a prompt and is woken by a queue of updates; the updates   *)
(* themselves come by the handler that is bound to the pool's entry.  The  *)
(* number of a turn is the number of its prompt.                           *)
(***************************************************************************)
EXTENDS Naturals, Sequences

CONSTANTS
    MaxTurns,  \* a bound: turns of the session
    MaxUpdates \* a bound: updates per prompt

VARIABLES
    turn,    \* the turn that is, or was last, under way
    at,      \* where it is
    bound,   \* entry.updateHandler: the turn whose onAcpUpdate it is
    waiting, \* pendingQueue of each turn
    yielded, \* what each turn has yielded
    queue,   \* queue[t]: the one the prompt of t made, its buffer and whether it is done
    routed,  \* the prompt whose queue is in the router's map, 0 for none
    listens, \* the queue each turn has subscribed to
    prompt,  \* each prompt in the agent: how many updates it has sent; answered?
    aborted, \* turns whose signal is aborted
    ending   \* how each turn ended

tvars == <<turn, at, bound, waiting, yielded, queue, routed, listens, prompt, aborted, ending>>

TurnIds == 1..MaxTurns
NewQueue == [buffer |-> 0, done |-> FALSE, failed |-> FALSE]

Init ==
    /\ turn = 0 /\ at = "idle" /\ bound = 0
    /\ waiting = [t \in TurnIds |-> <<>>] /\ yielded = [t \in TurnIds |-> <<>>]
    /\ queue = [t \in TurnIds |-> NewQueue] /\ routed = 0 /\ listens = [t \in TurnIds |-> 0]
    /\ prompt = [t \in TurnIds |-> [sent |-> 0, state |-> "none"]]
    /\ aborted = {} /\ ending = [t \in TurnIds |-> "none"]

\* acquire and bindHandlers; then the model and the mode may have to be changed.
Begin ==
    /\ at = "idle" /\ turn < MaxTurns
    /\ turn' = turn + 1 /\ bound' = turn + 1
    /\ at' = "bound"
    /\ UNCHANGED <<waiting, yielded, queue, routed, listens, prompt, aborted, ending>>

\* Mutant: also a queue that is done is handed out again.
SubscribeAgain == IF routed # 0 THEN routed ELSE turn

\* subscribe hands out the queue of an earlier prompt while that is not done.
Subscribe ==
    IF routed # 0 /\ ~queue[routed].done THEN routed ELSE turn

Prompt ==
    /\ at = "bound"
    /\ at' = "updates"
    /\ routed' = Subscribe
    /\ listens' = [listens EXCEPT ![turn] = Subscribe]
    /\ prompt' = [prompt EXCEPT ![turn].state = "open"]
    /\ UNCHANGED <<turn, bound, waiting, yielded, queue, aborted, ending>>

\* The agent works on the prompts one after the other.
Serving(t) == prompt[t].state = "open" /\ \A s \in 1..t - 1 : prompt[s].state # "open"

\* The router wakes the queue, the handler keeps the update.
Update(t) ==
    /\ Serving(t) /\ prompt[t].sent < MaxUpdates
    /\ prompt' = [prompt EXCEPT ![t].sent = @ + 1]
    /\ queue' = IF queue[routed].done THEN queue ELSE [queue EXCEPT ![routed].buffer = @ + 1]
    /\ waiting' = [waiting EXCEPT ![bound] = Append(@, <<t, prompt[t].sent + 1>>)]
    /\ UNCHANGED <<turn, at, bound, yielded, routed, listens, aborted, ending>>

\* Mutant: the answer does not finish the queue.
RespondOnly(t) ==
    /\ Serving(t)
    /\ prompt' = [prompt EXCEPT ![t].state = "answered"]
    /\ UNCHANGED <<turn, at, bound, waiting, yielded, queue, routed, listens, aborted, ending>>

\* The answer to a prompt, or its failure, finishes the queue that prompt has subscribed to.
Respond(t) ==
    /\ Serving(t)
    /\ \E how \in {"answered", "failed"} :
        /\ prompt' = [prompt EXCEPT ![t].state = how]
        /\ queue' = IF queue[listens[t]].done THEN queue
                    ELSE [queue EXCEPT ![listens[t]].done = TRUE, ![listens[t]].failed = (how = "failed")]
    /\ UNCHANGED <<turn, at, bound, waiting, yielded, routed, listens, aborted, ending>>

Mine == queue[listens[turn]]

\* Mutant: what was yielded stays in the queue.
FlushCopy ==
    /\ yielded' = [yielded EXCEPT ![turn] = @ \o waiting[turn]]
    /\ UNCHANGED waiting

Flush ==
    /\ yielded' = [yielded EXCEPT ![turn] = @ \o waiting[turn]]
    /\ waiting' = [waiting EXCEPT ![turn] = <<>>]

\* The loop over updates(): each one wakes it, and it looks at the signal.
Woken ==
    /\ at = "updates"
    /\ Mine.buffer > 0
    /\ queue' = [queue EXCEPT ![listens[turn]].buffer = @ - 1]
    /\ Flush
    /\ at' = IF turn \in aborted THEN "idle" ELSE at
    /\ ending' = IF turn \in aborted THEN [ending EXCEPT ![turn] = "aborted"] ELSE ending
    /\ UNCHANGED <<turn, bound, routed, listens, prompt, aborted>>

UpdatesEnd ==
    /\ at = "updates"
    /\ Mine.done /\ Mine.buffer = 0 /\ ~Mine.failed
    /\ Flush
    /\ at' = "result"
    /\ UNCHANGED <<turn, bound, queue, routed, listens, prompt, aborted, ending>>

\* The queue passes the failure on: the turn ends in an error.
UpdatesFail ==
    /\ at = "updates"
    /\ Mine.done /\ Mine.buffer = 0 /\ Mine.failed
    /\ at' = "idle"
    /\ ending' = [ending EXCEPT ![turn] = "failed"]
    /\ UNCHANGED <<turn, bound, waiting, yielded, queue, routed, listens, prompt, aborted>>

Result ==
    /\ at = "result"
    /\ prompt[turn].state \in {"answered", "failed"}
    /\ at' = "idle"
    /\ ending' = [ending EXCEPT ![turn] = IF prompt[turn].state = "answered" THEN "finished" ELSE "failed"]
    /\ UNCHANGED <<turn, bound, waiting, yielded, queue, routed, listens, prompt, aborted>>

Abort ==
    /\ at # "idle"
    /\ aborted' = aborted \cup {turn}
    /\ UNCHANGED <<turn, at, bound, waiting, yielded, queue, routed, listens, prompt, ending>>

GoesOn ==
    \/ Prompt \/ Woken \/ UpdatesEnd \/ UpdatesFail \/ Result
    \/ \E t \in TurnIds : Respond(t)

Next ==
    \/ Begin \/ GoesOn \/ Abort
    \/ \E t \in TurnIds : Update(t)

\* The client goes on with its turn; the agent answers what it is asked.
Spec == Init /\ [][Next]_tvars /\ WF_tvars(GoesOn)

-----------------------------------------------------------------------------
(* Properties *)

TypeOK ==
    /\ turn \in 0..MaxTurns /\ bound \in 0..MaxTurns /\ routed \in 0..MaxTurns
    /\ at \in {"idle", "bound", "updates", "result"}
    /\ listens \in [TurnIds -> 0..MaxTurns]
    /\ \A t \in TurnIds : queue[t].buffer \in Nat /\ queue[t].done \in BOOLEAN
    /\ aborted \subseteq TurnIds /\ ending \in [TurnIds -> {"none", "finished", "aborted", "failed"}]

Updates(t) == [i \in 1..prompt[t].sent |-> <<t, i>>]

\* Wanted, but does not hold:
\* updates() are "for this prompt turn": a turn that has finished has yielded what
\* the agent has sent for its prompt, in order, and nothing else.
TurnYieldsItsUpdates == \A t \in TurnIds : ending[t] = "finished" => yielded[t] = Updates(t)

\* The same while no turn before it was aborted.
CleanTurnYields ==
    \A t \in TurnIds : ending[t] = "finished" /\ (\A s \in 1..t - 1 : ending[s] # "aborted") =>
        yielded[t] = Updates(t)

\* No update is yielded twice, by one turn or by two.
YieldedOnce ==
    \A s, t \in TurnIds : \A i \in DOMAIN yielded[s], j \in DOMAIN yielded[t] :
        yielded[s][i] = yielded[t][j] => s = t /\ i = j

\* Every turn that has begun is over, whatever was aborted.  It comes to that again and
\* again: EverythingEnds of MCServices.
NobodyWaits == \A t \in TurnIds : t <= turn => ending[t] # "none"

\* Turns of one connection keep their updates apart.
TurnsKeepApart == TypeOK /\ CleanTurnYields /\ YieldedOnce
=============================================================================
