----------------------------- MODULE PromptLoop -----------------------------
(***************************************************************************)
(* session/prompt.ts: prompts are saved as messages of the session and a   *)
(* loop calls the model until there is nothing left to answer.  A prompt   *)
(* that arrives while the loop runs joins it (SessionRunState); the loop   *)
(* finds it when it reads the messages of the session again.               *)
(*                                                                         *)
(* A message gets its id, the position in the log, and its time when it is *)
(* made (an id from the client counts as made at the call); a prompt is    *)
(* saved later, after its parts have been resolved.                        *)
(* Prompts carry no subtask and no context overflows: turns that run a     *)
(* task or a compaction are left out.  A cancel ends the run at once, the  *)
(* unwinding of its fiber is the subject of SessionRunState.               *)
(***************************************************************************)
EXTENDS Naturals, Sequences, FiniteSetsExt

CONSTANTS
    Prompts,   \* the calls of prompt
    MaxTurns   \* bound: how many turns there are before the model must stop

VARIABLES
    log,     \* the messages of the session, an id is an index
    pc,      \* where each call of prompt is, and how its run ended
    uid,     \* the id of its message, 0 before it is made
    answer,  \* the id of the message it returned, 0 for none
    loop,    \* where the loop is
    view     \* the ids of the messages the loop has read in this turn

vars == <<log, pc, uid, answer, loop, view>>

Ids == DOMAIN log

\* finish "tools": the turn asks for tool results to be sent back.
UserMessage == [role |-> "user", saved |-> FALSE, finish |-> "none", input |-> {}]
AssistantMessage(input) ==
    [role |-> "assistant", saved |-> TRUE, finish |-> "none", input |-> input]

Saved(role) == {i \in Ids : log[i].saved /\ log[i].role = role}

\* The newest message of a role, 0 if there is none.
Last(role) == Max({0} \cup Saved(role))

Waiting == {p \in Prompts : pc[p] = "waiting"}

Init ==
    /\ log = <<>>
    /\ pc = [p \in Prompts |-> "new"]
    /\ uid = [p \in Prompts |-> 0]
    /\ answer = [p \in Prompts |-> 0]
    /\ loop = "idle"
    /\ view = {}

-----------------------------------------------------------------------------
(* prompt *)

\* Mutant: the id is taken and the message is not made.
CreateUserMessageIdOnly(p) ==
    /\ pc[p] = "new"
    /\ pc' = [pc EXCEPT ![p] = "resolving"]
    /\ uid' = [uid EXCEPT ![p] = Len(log) + 1]
    /\ UNCHANGED <<log, answer, loop, view>>

\* createUserMessage: the id, then the parts, which may take their time.
CreateUserMessage(p) ==
    /\ pc[p] = "new"
    /\ pc' = [pc EXCEPT ![p] = "resolving"]
    /\ log' = Append(log, UserMessage)
    /\ uid' = [uid EXCEPT ![p] = Len(log) + 1]
    /\ UNCHANGED <<answer, loop, view>>

\* Mutant: the call always joins, also when there is no loop.
SaveAndJoin(p) ==
    /\ pc[p] = "resolving"
    /\ log' = [log EXCEPT ![uid[p]].saved = TRUE]
    /\ pc' = [pc EXCEPT ![p] = "waiting"]
    /\ UNCHANGED <<uid, answer, loop, view>>

\* The message is saved, and the call starts the loop or joins the one there is.
SaveAndLoop(p) ==
    /\ pc[p] = "resolving"
    /\ log' = [log EXCEPT ![uid[p]].saved = TRUE]
    /\ pc' = [pc EXCEPT ![p] = "waiting"]
    /\ loop' = IF loop = "idle" THEN "top" ELSE loop
    /\ UNCHANGED <<uid, answer, view>>

\* noReply: the message is saved and nothing else.
SaveOnly(p) ==
    /\ pc[p] = "resolving"
    /\ log' = [log EXCEPT ![uid[p]].saved = TRUE]
    /\ pc' = [pc EXCEPT ![p] = "noReply"]
    /\ UNCHANGED <<uid, answer, loop, view>>

-----------------------------------------------------------------------------
(* runLoop *)

\* Mutant: a newer message of the user is not asked for.
ExitCheckFinishOnly == Last("assistant") # 0 /\ log[Last("assistant")].finish = "stop"

\* Mutant: an answer is enough, finished or not.
ExitCheckUnfinished == Last("assistant") # 0 /\ Last("user") < Last("assistant")

\* Mutant: the ids are compared the wrong way round.
ExitCheckSwapped ==
    /\ Last("assistant") # 0
    /\ log[Last("assistant")].finish = "stop"
    /\ Last("user") > Last("assistant")

\* The last turn is finished, wants no tool results and is newer than the last
\* user message.
ExitCheck ==
    /\ Last("assistant") # 0
    /\ log[Last("assistant")].finish = "stop"
    /\ Last("user") < Last("assistant")

\* lastAssistant: the newest message that is not the user's, or else the newest.
LastAssistant == IF Last("assistant") # 0 THEN Last("assistant") ELSE Last("user")

\* The run ends, and with it the wait of all who joined it.
End(how) ==
    /\ loop' = "idle"
    /\ view' = {}
    /\ pc' = [p \in Prompts |-> IF p \in Waiting THEN how ELSE pc[p]]

Return(how, id) ==
    /\ End(how)
    /\ answer' = [p \in Prompts |-> IF p \in Waiting THEN id ELSE answer[p]]

\* The top of a turn: nothing suspends between the read and the exit check.
ReadAndExit ==
    /\ loop = "top"
    /\ ExitCheck
    /\ Return("answered", LastAssistant)
    /\ UNCHANGED <<log, uid>>

ReadAndGoOn ==
    /\ loop = "top"
    /\ ~ExitCheck
    /\ loop' = "read"
    /\ view' = Saved("user") \cup Saved("assistant")
    /\ UNCHANGED <<log, pc, uid, answer>>

\* After the model, the agent and the reminders, the message of the turn is made
\* and saved.  Its input is what was read.
StartTurn ==
    /\ loop = "read"
    /\ log' = Append(log, AssistantMessage(view))
    /\ loop' = "stream"
    /\ UNCHANGED <<pc, uid, answer, view>>

\* An unknown model or agent throws.
Throw ==
    /\ loop = "read"
    /\ End("failed")
    /\ UNCHANGED <<log, uid, answer>>

Turns == Cardinality({i \in Ids : log[i].role = "assistant"})

\* The stream ends and the loop goes on; the turn may have no finish reason.
TurnContinues ==
    /\ loop = "stream"
    /\ \E finish \in {"stop", "tools", "none"} :
          /\ Turns >= MaxTurns => finish = "stop"
          /\ log' = [log EXCEPT ![Last("assistant")].finish = finish]
    /\ loop' = "top"
    /\ view' = {}
    /\ UNCHANGED <<pc, uid, answer>>

\* An error, a rejected permission, or structured output: the loop stops.
TurnBreaks ==
    /\ loop = "stream"
    /\ \E finish \in {"stop", "tools", "none"} :
          log' = [log EXCEPT ![Last("assistant")].finish = finish]
    /\ Return("broken", LastAssistant)
    /\ UNCHANGED uid

\* onInterrupt answers the callers with lastAssistant.
Cancel ==
    /\ loop # "idle"
    /\ Return("cancelled", LastAssistant)
    /\ UNCHANGED <<log, uid>>

-----------------------------------------------------------------------------
LoopStep ==
    ReadAndExit \/ ReadAndGoOn \/ StartTurn \/ Throw \/ TurnContinues \/ TurnBreaks

Next ==
    \/ \E p \in Prompts : CreateUserMessage(p) \/ SaveAndLoop(p) \/ SaveOnly(p)
    \/ LoopStep
    \/ Cancel

\* The loop goes on, which includes that the model ends its streams.
Spec == Init /\ [][Next]_vars /\ WF_vars(LoopStep)

-----------------------------------------------------------------------------
(* Properties *)

TypeOK ==
    /\ log \in Seq([role : {"user", "assistant"}, saved : BOOLEAN,
                    finish : {"none", "stop", "tools"}, input : SUBSET Ids])
    /\ pc \in [Prompts -> {"new", "resolving", "noReply", "waiting", "answered",
                           "broken", "failed", "cancelled"}]
    /\ uid \in [Prompts -> Ids \cup {0}]
    /\ answer \in [Prompts -> Ids \cup {0}]
    /\ loop \in {"idle", "top", "read", "stream"}
    /\ view \subseteq Ids

Turn(i) == log[i].role = "assistant"
Seen(p) == \E i \in Ids : Turn(i) /\ uid[p] \in log[i].input

\* A turn made after the prompt, from messages read before the prompt was saved.
Overtaken(p) == \E i \in Ids : Turn(i) /\ i > uid[p] /\ uid[p] \notin log[i].input

\* A prompt sent while a run is active is part of a later input of the model.
PromptReachesModel == \A p \in Prompts : pc[p] = "answered" => Seen(p)

\* That can fail in one way only: a turn overtook the prompt while its parts
\* were resolved, or while the turn was prepared.
OnlyOvertakenLost == \A p \in Prompts : pc[p] = "answered" => Seen(p) \/ Overtaken(p)

\* The message a prompt is answered with is finished and newer than the prompt.
AnswerFollowsPrompt ==
    \A p \in Prompts : pc[p] = "answered" =>
        answer[p] > uid[p] /\ log[answer[p]].finish = "stop"

\* After a finished turn the model is called again only for something it has not
\* seen yet.
NoEmptyTurn ==
    \A i, j \in Ids :
        (/\ Turn(i) /\ Turn(j) /\ i < j /\ log[i].finish = "stop"
         /\ \A k \in (i + 1)..(j - 1) : ~Turn(k))
        => \E u \in log[j].input :
              /\ log[u].role = "user"
              /\ \A t \in Ids : Turn(t) /\ t < j => u \notin log[t].input

\* No prompt waits for the loop.  It comes to that again and again, if the model stops
\* asking for tools: EverythingEnds of MCSession.
NobodyWaits == \A p \in Prompts : pc[p] # "waiting"

\* A prompt is answered by a finished turn that has seen it, or that overtook it,
\* and no turn is made for nothing.
PromptsAnswered == TypeOK /\ OnlyOvertakenLost /\ AnswerFollowsPrompt /\ NoEmptyTurn
=============================================================================
