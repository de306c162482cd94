----------------------------- MODULE Compaction -----------------------------
(***************************************************************************)
(* session/compaction.ts with the part of the loop of session/prompt.ts    *)
(* that calls it and filterCompacted of session/message-v2.ts: a request   *)
(* is a message of the user, its summary an answer to it, and the model is *)
(* shown what is newer than the request and the tail that the summary has  *)
(* left out.                                                               *)
(*                                                                         *)
(* An id is an index.  What fits in the budget of the tail is any choice   *)
(* that select can make for some sizes of the messages.  Prompts are saved *)
(* at once (PromptLoop has their resolving); prune is left out, it erases  *)
(* outputs and hides no message.                                           *)
(***************************************************************************)
EXTENDS Naturals, Sequences, FiniteSets, FiniteSetsExt

CONSTANTS
    TailTurns,   \* the configured tail_turns
    MaxCalls,    \* bound on the prompts and requests of the user
    MaxMessages  \* bound on what is saved in the session

VARIABLES
    msgs, \* the messages of the session
    run,  \* where the loop is
    seen, \* the ids of the messages it has read
    task, \* the compaction under way: its request, replayed message, tail
    calls \* how often the user has called

cvars == <<msgs, run, seen, task, calls>>

\* of: the prompt a message repeats.  covers: the ids whose content is in a summary.
User(kind, of) ==
    [kind |-> kind, of |-> of, parent |-> 0, finish |-> "none", error |-> FALSE,
     tail |-> 0, auto |-> FALSE, overflow |-> FALSE, covers |-> {}]
Request(auto, overflow) == [User("compaction", 0) EXCEPT !.auto = auto, !.overflow = overflow]
Assistant(kind, parent, covers) == [User(kind, 0) EXCEPT !.parent = parent, !.covers = covers]

NoTask == [request |-> 0, parent |-> 0, replay |-> 0, tail |-> 0]

Asks == {"prompt", "continue", "replay"}
IsUser(i) == msgs[i].kind \in Asks \cup {"compaction"}
PromptsIn(ids) == {i \in ids : msgs[i].kind \in Asks}
Users(ids) == {i \in ids : IsUser(i)}
Answers(ids) == {i \in ids : ~IsUser(i)}
Newest(ids) == Max({0} \cup ids)

Room(n) == Len(msgs) + n <= MaxMessages

Init == msgs = <<>> /\ run = "idle" /\ seen = {} /\ task = NoTask /\ calls = 0

-----------------------------------------------------------------------------
(* filterCompacted *)

Done(s) == msgs[s].kind = "summary" /\ msgs[s].finish # "none" /\ ~msgs[s].error

\* The summaries among ids that answer a request among ids (completedCompactions).
Completed(ids) ==
    {s \in ids : Done(s) /\ msgs[s].parent \in ids /\ msgs[msgs[s].parent].kind = "compaction"}

\* Shown from the tail of the newest completed request on, or from the request.
Begin ==
    LET done == Completed(DOMAIN msgs)
        request == Newest({msgs[s].parent : s \in done})
    IN IF done = {} THEN 1 ELSE IF msgs[request].tail = 0 THEN request ELSE msgs[request].tail

Shown == Begin..Len(msgs)

-----------------------------------------------------------------------------
(* What others save: prompts, and the request of the summarize route *)

SaveAndLoop(message) ==
    /\ Room(1) /\ calls < MaxCalls /\ calls' = calls + 1
    /\ msgs' = Append(msgs, message)
    /\ run' = IF run = "idle" THEN "top" ELSE run
    /\ UNCHANGED <<seen, task>>

Prompt == SaveAndLoop(User("prompt", Len(msgs) + 1))
Summarize(auto) == SaveAndLoop(Request(auto, FALSE))

-----------------------------------------------------------------------------
(* runLoop *)

\* The newest answer is final and newer than what the user has sent.
ExitCheck ==
    LET last == Newest(Answers(Shown))
    IN last # 0 /\ msgs[last].finish \in {"stop", "error"} /\ Newest(Users(Shown)) < last

Exit ==
    /\ run = "top" /\ ExitCheck
    /\ run' = "idle"
    /\ UNCHANGED <<msgs, seen, task, calls>>

Read ==
    /\ run = "top" /\ ~ExitCheck
    /\ seen' = Shown
    /\ run' = "read"
    /\ UNCHANGED <<msgs, task, calls>>

LastFinished == Newest({i \in Answers(seen) : msgs[i].finish # "none"})
Pending == {i \in seen : msgs[i].kind = "compaction" /\ i > LastFinished}

\* The last turn has filled the context: a request without overflow.
CreateAfterTurn ==
    /\ run = "read" /\ Pending = {}
    /\ LastFinished # 0 /\ msgs[LastFinished].kind = "turn"
    /\ Room(1)
    /\ msgs' = Append(msgs, Request(TRUE, FALSE))
    /\ run' = "top"
    /\ UNCHANGED <<seen, task, calls>>

StartTurn ==
    /\ run = "read" /\ Pending = {}
    /\ Room(1)
    /\ msgs' = Append(msgs, Assistant("turn", Newest(Users(seen)), {}))
    /\ run' = "stream"
    /\ UNCHANGED <<seen, task, calls>>

\* Nothing but the loop adds answers.
Turn == Newest(Answers(DOMAIN msgs))

Ended(finish, error) == [msgs EXCEPT ![Turn] = [msgs[Turn] EXCEPT !.finish = finish, !.error = error]]

\* The turn is answered, with or without tool calls.
TurnEnds ==
    /\ run = "stream"
    /\ \E finish \in {"tools", "stop"} : msgs' = Ended(finish, FALSE)
    /\ run' = "top"
    /\ UNCHANGED <<seen, task, calls>>

\* The context is full, after the answer or before there is one: a request,
\* with overflow if the turn has no finish.
TurnOverflows ==
    /\ run = "stream" /\ Room(1)
    /\ \E finish \in {"tools", "stop", "none"} :
         msgs' = Append(Ended(finish, FALSE), Request(TRUE, finish = "none"))
    /\ run' = "top"
    /\ UNCHANGED <<seen, task, calls>>

\* An error or a stop ends the run.
TurnFails ==
    /\ run = "stream"
    /\ msgs' = Ended("none", TRUE)
    /\ run' = "idle"
    /\ UNCHANGED <<seen, task, calls>>

-----------------------------------------------------------------------------
(* processCompaction *)

\* The last request is taken from the back, which is the oldest; the summary
\* answers the newest message of the user, which may be another one.
Oldest == Min(Pending)
Parent == Newest(Users(seen))

\* After an overflow the last prompt is sent again, if one is left before it.
Replay ==
    LET last == Newest({i \in PromptsIn(seen) : i < Parent})
    IN IF msgs[Oldest].overflow /\ PromptsIn({i \in seen : i < last}) # {} THEN last ELSE 0

History ==
    LET messages == IF Replay = 0 THEN seen ELSE {i \in seen : i < Replay}
    IN messages \ (IF msgs[Parent].kind = "compaction" /\ Newest(messages) = Parent THEN {Parent} ELSE {})

Told(done) == IF done = {} THEN {} ELSE msgs[Newest(done)].covers

\* Mutant: the summary before is not given to the next one.
PriorNone == {}

\* The summary before is told to the model apart from the messages.
Prior == Told(Completed(History))

Candidates == History \ (Completed(History) \cup {msgs[s].parent : s \in Completed(History)})

\* The first message of the tail, 0 for none: in one of the last turns, at any
\* message the budget allows, and never the first there is.
Tails ==
    LET turns == PromptsIn(Candidates)
        recent == {i \in turns : Cardinality({j \in turns : j > i}) < TailTurns}
    IN {0} \cup {i \in Candidates : recent # {} /\ i >= Min(recent) /\ i # Min(Candidates)}

Summarised(tail) == IF tail = 0 THEN Candidates ELSE {i \in Candidates : i < tail}

Compact ==
    /\ run = "read" /\ Pending # {} /\ Room(1)
    /\ \E tail \in Tails :
         /\ msgs' = Append(msgs, [Assistant("summary", Parent, Summarised(tail) \cup Prior)
                                    EXCEPT !.auto = msgs[Oldest].auto])
         /\ task' = [request |-> Oldest, parent |-> Parent, replay |-> Replay, tail |-> tail]
    /\ run' = "compact"
    /\ UNCHANGED <<seen, calls>>

\* The tail is saved in the request that the summary answers.
WithTail(finish, error) ==
    LET ended == Ended(finish, error)
    IN IF task.tail # 0 /\ msgs[task.parent].kind = "compaction"
       THEN [ended EXCEPT ![task.parent] = [ended[task.parent] EXCEPT !.tail = task.tail]] ELSE ended

\* Mutant: an automatic compaction is not followed by a message.
FollowUpNone == <<>>

\* After an automatic one, the prompt again or the request to go on.
FollowUp ==
    IF ~msgs[task.request].auto THEN <<>>
    ELSE IF task.replay # 0 THEN <<User("replay", msgs[task.replay].of)>>
    ELSE <<User("continue", Len(msgs) + 1)>>

Compacted ==
    /\ run = "compact"
    /\ Room(Len(FollowUp))
    /\ msgs' = WithTail("stop", FALSE) \o FollowUp
    /\ run' = "top" /\ task' = NoTask
    /\ UNCHANGED <<seen, calls>>

\* An error or a stop, before or after the finish of the stream.
CompactFails ==
    /\ run = "compact"
    /\ \E finish \in {"none", "stop"} : msgs' = WithTail(finish, TRUE)
    /\ run' = "idle" /\ task' = NoTask
    /\ UNCHANGED <<seen, calls>>

\* The summary itself does not fit.
CompactOverflows ==
    /\ run = "compact"
    /\ msgs' = Ended("error", TRUE)
    /\ run' = "idle" /\ task' = NoTask
    /\ UNCHANGED <<seen, calls>>

Next ==
    \/ Prompt \/ (\E auto \in BOOLEAN : Summarize(auto))
    \/ Exit \/ Read \/ CreateAfterTurn \/ StartTurn \/ TurnEnds \/ TurnOverflows \/ TurnFails
    \/ Compact \/ Compacted \/ CompactFails \/ CompactOverflows

Spec == Init /\ [][Next]_cvars

-----------------------------------------------------------------------------
(* Properties *)

TypeOK ==
    /\ run \in {"idle", "top", "read", "stream", "compact"}
    /\ seen \subseteq DOMAIN msgs /\ calls \in 0..MaxCalls
    /\ run = "compact" <=> task # NoTask
    /\ \A i \in DOMAIN msgs : msgs[i].tail < i /\ msgs[i].parent < i /\ msgs[i].covers \subseteq 1..i

\* What the model knows in a turn: the messages it is shown, and what the
\* summaries among them stand for.
Known == seen \cup UNION {msgs[s].covers : s \in {i \in seen : Done(i)}}

\* Over any number of compactions, failed ones, tails and overflows, the model
\* is shown every message, or a summary of it.  Left out is only what came
\* between a prompt whose turn overflowed and its being sent again.
NothingForgotten ==
    run = "stream" =>
        \A i \in 1..Newest(seen) :
            \/ msgs[i].kind \in {"compaction", "summary"}
            \/ i \in Known
            \/ \E j \in PromptsIn(Known) : msgs[j].kind = "replay" /\ msgs[j].of <= i /\ i < j

\* A run does not return with the summary of an automatic compaction.
AutoGoesOn == [][Exit => ~(msgs[Turn].kind = "summary" /\ msgs[Turn].auto)]_cvars

\* Wanted, but does not hold:
\* A prompt that the model was not shown in a turn does not end with a summary.
\* (A request without auto, or one that failed before, may take its place.)
PromptOutlivesCompaction ==
    [][Exit => \A i \in PromptsIn(Shown) : \E j \in Answers(DOMAIN msgs) : j > i /\ msgs[j].kind = "turn"]_cvars

\* The model is shown all of a well-formed history, or summaries of it.
HistoryIsKept == TypeOK /\ NothingForgotten
=============================================================================
