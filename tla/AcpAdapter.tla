----------------------------- MODULE AcpAdapter -----------------------------
(***************************************************************************)
(* What an agent says in one turn, on its way to the session: the          *)
(* EventAdapter of acp-client/event-adapter.ts makes stream parts of it,   *)
(* and handleEvent of session/processor.ts stores them.                    *)
(*                                                                         *)
(* A passage is the text or the reasoning; the adapter gives each of the   *)
(* two one id per turn.                                                    *)
(***************************************************************************)
EXTENDS Naturals

CONSTANTS
    AgentCalls, \* the tool calls of the agent
    MaxChunks   \* a bound: pieces of text or reasoning in a turn

VARIABLES
    passage, \* #text and #reasoning: not there, open or closed
    known,   \* #tools: the calls the adapter has started
    session, \* what handleEvent keeps: open passages, chunks stored, tool parts
    said,    \* the chunks the agent has sent, per passage
    outcome, \* the first final status the agent gave each call
    over     \* the turn has ended

avars == <<passage, known, session, said, outcome, over>>

Passages == {"text", "reasoning"}
Statuses == {"pending", "completed", "failed"}

Init ==
    /\ passage = [p \in Passages |-> "none"]
    /\ known = {}
    /\ session = [open |-> {}, stored |-> [p \in Passages |-> 0], part |-> [c \in AgentCalls |-> "none"]]
    /\ said = [p \in Passages |-> 0]
    /\ outcome = [c \in AgentCalls |-> "none"]
    /\ over = FALSE

-----------------------------------------------------------------------------
(* handleEvent: the parts a turn is made of *)

Start(s, p) == [s EXCEPT !.open = @ \cup {p}]
Delta(s, p) == IF p \in s.open THEN [s EXCEPT !.stored[p] = @ + 1] ELSE s
End(s, ps) == [s EXCEPT !.open = @ \ ps]
Call(s, c) == [s EXCEPT !.part[c] = "running"]
Result(s, c, status) == IF s.part[c] = "running" THEN [s EXCEPT !.part[c] = status] ELSE s

-----------------------------------------------------------------------------
(* EventAdapter: the parts it makes are handled in their order *)

Open == {p \in Passages : passage[p] = "open"}
Close(ps) == [p \in Passages |-> IF p \in ps \cap Open THEN "closed" ELSE passage[p]]

\* Mutant: the passages are thought to be over without telling the session.
EndForgotten(s, ps) == s

\* The ends of those passages in ps that are open.
EndOpen(s, ps) == End(s, ps \cap Open)

\* A chunk closes the other passage, and opens its own if there is none yet.
Chunk(p) ==
    /\ ~over
    /\ said.text + said.reasoning < MaxChunks
    /\ said' = [said EXCEPT ![p] = @ + 1]
    /\ LET other == Passages \ {p}
           new == passage[p] = "none"
           ended == EndOpen(session, other)
       IN  /\ passage' = [Close(other) EXCEPT ![p] = IF new THEN "open" ELSE @]
           /\ session' = Delta(IF new THEN Start(ended, p) ELSE ended, p)
    /\ UNCHANGED <<known, outcome, over>>

\* A status that is not final makes no part.
Answer(s, c, status) == IF status = "pending" THEN s ELSE Result(s, c, status)

Final(c, status) ==
    IF status = "pending" \/ outcome[c] # "none" \/ c \notin known' THEN outcome ELSE [outcome EXCEPT ![c] = status]

\* A call that comes with its final status is answered at once.
ToolStart(c, status) ==
    /\ ~over
    /\ outcome[c] = "none" /\ c \notin known
    /\ known' = known \cup {c}
    /\ passage' = Close(Passages)
    /\ session' = Answer(Call(EndOpen(session, Passages), c), c, status)
    /\ outcome' = Final(c, status)
    /\ UNCHANGED <<said, over>>

\* Mutant: only a completed update is passed on.
ToolUpdateCompleted(c, status) ==
    /\ ~over
    /\ UNCHANGED known
    /\ session' = IF status = "completed" THEN Answer(session, c, status) ELSE session
    /\ outcome' = Final(c, status)
    /\ UNCHANGED <<passage, said, over>>

\* Also of a call that another turn has started: its result finds no part.
ToolUpdate(c, status) ==
    /\ ~over
    /\ UNCHANGED known
    /\ session' = Answer(session, c, status)
    /\ outcome' = Final(c, status)
    /\ UNCHANGED <<passage, said, over>>

\* finish, error or abort: whatever is open is closed.
TurnOver ==
    /\ ~over
    /\ over' = TRUE
    /\ passage' = Close(Passages)
    /\ session' = EndOpen(session, Passages)
    /\ UNCHANGED <<known, said, outcome>>

Next ==
    \/ \E p \in Passages : Chunk(p)
    \/ \E c \in AgentCalls, status \in Statuses : ToolStart(c, status) \/ ToolUpdate(c, status)
    \/ TurnOver

Spec == Init /\ [][Next]_avars

-----------------------------------------------------------------------------
(* Properties *)

TypeOK ==
    /\ passage \in [Passages -> {"none", "open", "closed"}]
    /\ known \subseteq AgentCalls
    /\ session.open \subseteq Passages
    /\ outcome \in [AgentCalls -> {"none", "completed", "failed"}]
    /\ session.part \in [AgentCalls -> {"none", "running", "completed", "failed"}]

\* The adapter and the session agree on what is open: "open/close pairs stay
\* balanced", and nothing is open when the turn is over.
PassagesAgree == session.open = Open /\ (over => Open = {})

\* A call ends in the session the way it first ended in the agent.
OutcomeIsStored == \A c \in AgentCalls : outcome[c] # "none" => session.part[c] = outcome[c]

\* What the agent says is stored.
SaidIsStored == \A p \in Passages : session.stored[p] = said[p]

\* The session has what the agent did: its passages and the outcomes of its calls.
SessionFollowsAgent == TypeOK /\ PassagesAgree /\ OutcomeIsStored
=============================================================================
