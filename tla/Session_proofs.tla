--------------------------- MODULE Session_proofs ---------------------------
(***************************************************************************)
(* What is proved of the parts of a session (MCSession), for any number of *)
(* prompts, turns, calls, clients and questions.  Each part is a section:  *)
(* its invariant, the lemmas that its steps keep it, and the theorem about *)
(* the specification that the run checks.                                  *)
(***************************************************************************)
EXTENDS MCSession, SequenceTheorems, TLAPS

Numbers == INSTANCE MaxLemmas
Locks == INSTANCE Flock_proofs WITH Procs <- EProcs, lock <- elock, breaker <- ebreaker, pc <- epc, since <- esince,
                                      beaten <- ebeaten

-----------------------------------------------------------------------------
(* The parts move by themselves: a behaviour of all is one of each.        *)

PartsStart ==
    /\ Effect!EInit /\ Loop!Init /\ Turn!Init /\ Asking!Init
    /\ Undo!Init /\ Short!Init

PartsStep ==
    /\ [Effect!ENext]_effectVars /\ [Loop!Next]_loopVars /\ [Turn!Next]_turnVars
    /\ [Asking!Next]_askVars
    /\ [Undo!Next]_undoVars /\ [Short!Next]_shortVars

LEMMA Starts == ASSUME SessionInit PROVE PartsStart
BY DEF SessionInit, PartsStart

LEMMA Steps == ASSUME [SessionNext]_sessionVars PROVE PartsStep
<1>1. CASE SessionNext
  BY <1>1 DEF SessionNext, PartsStep
<1>2. CASE UNCHANGED sessionVars
  BY <1>2 DEF sessionVars, PartsStep
<1> QED BY <1>1, <1>2

-----------------------------------------------------------------------------
(* The loop that answers the prompts, for any number of prompts and turns: *)
(* who is answered is answered by a finished turn that is newer than the   *)
(* prompt and has seen it, or was made while it was under way; and a turn  *)
(* after a finished one has something new to answer.                       *)

(* The newest message. *)

\* The messages with inputs among ids.
Message(ids) == [role : {"user", "assistant"}, saved : BOOLEAN,
                 finish : {"none", "stop", "tools"}, input : SUBSET ids]

LEMMA LogType ==
  ASSUME Loop!TypeOK
  PROVE  /\ log \in Seq(Message(Loop!Ids)) /\ Len(log) \in Nat /\ Loop!Ids = 1 .. Len(log)
         /\ \A i \in Loop!Ids : log[i] \in Message(Loop!Ids)
<1>1. log \in Seq(Message(Loop!Ids))
  BY DEF Loop!TypeOK, Message
<1> QED BY <1>1, LenProperties, ElementOfSeq DEF Loop!Ids

LEMMA LastIs ==
  ASSUME Loop!TypeOK, NEW role
  PROVE  /\ Loop!Last(role) \in Nat
         /\ Loop!Last(role) # 0 => Loop!Last(role) \in Loop!Saved(role)
         /\ \A i \in Loop!Saved(role) : i <= Loop!Last(role)
<1>1. Loop!Saved(role) \subseteq 1 .. Len(log) /\ Len(log) \in Nat
  BY LogType DEF Loop!Saved
<1> DEFINE S == {0} \cup Loop!Saved(role)
<1>2. Numbers!IsFiniteSet(S) /\ S \subseteq Nat /\ 0 \in S
  <2>1. Numbers!IsFiniteSet(1 .. Len(log))
    BY <1>1, Numbers!FS_Interval
  <2>2. Numbers!IsFiniteSet(Loop!Saved(role))
    BY <1>1, <2>1, Numbers!FS_Subset
  <2>3. Numbers!IsFiniteSet(Loop!Saved(role) \cup {0})
    BY <2>2, Numbers!FS_AddElement
  <2>4. S = Loop!Saved(role) \cup {0}
    OBVIOUS
  <2>5. S \subseteq Nat /\ 0 \in S
    BY <1>1
  <2> HIDE DEF S
  <2> QED BY <2>3, <2>4, <2>5
<1>3. Loop!Max(S) = Numbers!Max(S) 
  BY DEF Loop!Max, Numbers!Max
<1>4. Loop!Max(S) \in S /\ \A y \in S : y <= Loop!Max(S)
  <2> HIDE DEF S
  <2> QED BY <1>2, <1>3, Numbers!MaxOf
<1> QED BY <1>2, <1>4 DEF Loop!Last

-----------------------------------------------------------------------------
(* The invariant *)

\* A call of prompt has its message, and has saved it before it waits.
PromptsHaveMessages ==
    \A p \in Prompts :
        /\ place[p] # "new" => uid[p] \in Loop!Ids /\ log[uid[p]].role = "user"
        /\ place[p] \notin {"new", "resolving"} => log[uid[p]].saved

\* A turn is saved when it is made, and its input is older.
TurnsAreSaved ==
    \A i \in Loop!Ids : Loop!Turn(i) => log[i].saved /\ \A u \in log[i].input : u < i

Newest(i) == Loop!Turn(i) /\ \A t \in Loop!Ids : Loop!Turn(t) => t <= i

\* The turn that streams is the newest, and has no finish reason yet.
StreamIsNewest ==
    loop = "stream" => \E i \in Loop!Ids : Newest(i) /\ log[i].finish = "none"

\* After a finished turn, what was read holds a message of the user that is newer.
ReadIsNew ==
    loop = "read" =>
        \A i \in Loop!Ids : Newest(i) /\ log[i].finish = "stop" =>
            \E u \in view : log[u].role = "user" /\ u > i

LoopInv ==
    /\ Loop!PromptsAnswered
    /\ PromptsHaveMessages
    /\ TurnsAreSaved
    /\ StreamIsNewest
    /\ ReadIsNew

LEMMA InitLoopInv == Loop!Init => LoopInv
<1> SUFFICES ASSUME Loop!Init PROVE LoopInv
  OBVIOUS
<1>1. log = <<>> /\ Loop!Ids = {} /\ loop = "idle"
  BY DEF Loop!Init, Loop!Ids
<1>2. Loop!TypeOK
  BY <1>1 DEF Loop!Init, Loop!TypeOK
<1> QED
  BY <1>1, <1>2 DEF Loop!Init, LoopInv, Loop!PromptsAnswered, Loop!OnlyOvertakenLost, Loop!AnswerFollowsPrompt,
     Loop!NoEmptyTurn, PromptsHaveMessages, TurnsAreSaved, StreamIsNewest, ReadIsNew

-----------------------------------------------------------------------------
(* How a step changes the log. *)

\* A message is added: a prompt's, or a turn.
LEMMA AppendLog ==
  ASSUME Loop!TypeOK, NEW m \in Message(Loop!Ids), log' = Append(log, m)
  PROVE  /\ Loop!Ids' = Loop!Ids \cup {Len(log) + 1} /\ Len(log) + 1 \notin Loop!Ids
         /\ log' \in Seq(Message(Loop!Ids'))
         /\ \A i \in Loop!Ids : log'[i] = log[i] /\ i < Len(log) + 1
         /\ log'[Len(log) + 1] = m
<1>1. log \in Seq(Message(Loop!Ids)) /\ Len(log) \in Nat /\ Loop!Ids = 1 .. Len(log)
  BY LogType
<1>2. /\ log' \in Seq(Message(Loop!Ids)) /\ Len(log') = Len(log) + 1
      /\ \A i \in 1 .. Len(log) : log'[i] = log[i]
      /\ log'[Len(log) + 1] = m
  BY <1>1, AppendProperties
<1>3. Loop!Ids' = 1 .. Len(log) + 1
  BY <1>1, <1>2, LenProperties DEF Loop!Ids
<1>4. Message(Loop!Ids) \subseteq Message(Loop!Ids')
  <2>1. SUBSET Loop!Ids \subseteq SUBSET Loop!Ids'
    BY <1>1, <1>3
  <2> QED BY <2>1 DEF Message
<1>5. log' \in Seq(Message(Loop!Ids'))
  BY <1>2, <1>4, SeqMonotonic
<1> QED BY <1>1, <1>2, <1>3, <1>5

\* A message of the log changes, not its role nor its input.
LEMMA ChangeLog ==
  ASSUME Loop!TypeOK, NEW k \in Loop!Ids, NEW m \in Message(Loop!Ids), log' = [log EXCEPT ![k] = m]
  PROVE  /\ Loop!Ids' = Loop!Ids /\ log' \in Seq(Message(Loop!Ids'))
         /\ log'[k] = m /\ \A i \in Loop!Ids \ {k} : log'[i] = log[i]
<1>1. log \in Seq(Message(Loop!Ids)) /\ Len(log) \in Nat /\ Loop!Ids = 1 .. Len(log)
  BY LogType
<1>2. /\ log' \in Seq(Message(Loop!Ids)) /\ Len(log') = Len(log)
      /\ \A i \in 1 .. Len(log) : log'[i] = IF i = k THEN m ELSE log[i]
  BY <1>1, ExceptSeq
<1>3. Loop!Ids' = Loop!Ids
  BY <1>1, <1>2, LenProperties DEF Loop!Ids
<1> QED BY <1>1, <1>2, <1>3

LEMMA SaveChanges ==
  ASSUME Loop!TypeOK, NEW k \in Loop!Ids, log' = [log EXCEPT ![k].saved = TRUE]
  PROVE  /\ Loop!Ids' = Loop!Ids /\ log' \in Seq(Message(Loop!Ids'))
         /\ \A i \in Loop!Ids : /\ log'[i].role = log[i].role /\ log'[i].input = log[i].input
                                /\ log'[i].finish = log[i].finish
                                /\ log[i].saved \/ i = k => log'[i].saved
<1> DEFINE m == [log[k] EXCEPT !.saved = TRUE]
<1>1. log[k] \in Message(Loop!Ids)
  BY LogType
<1>2. m \in Message(Loop!Ids) /\ m.role = log[k].role /\ m.input = log[k].input
      /\ m.finish = log[k].finish /\ m.saved = TRUE
  BY <1>1 DEF Message
<1>3. log' = [log EXCEPT ![k] = m]
  OBVIOUS
<1> HIDE DEF m
<1>4. /\ Loop!Ids' = Loop!Ids /\ log' \in Seq(Message(Loop!Ids'))
      /\ log'[k] = m /\ \A i \in Loop!Ids \ {k} : log'[i] = log[i]
  BY <1>2, <1>3, ChangeLog
<1> QED BY <1>2, <1>4

LEMMA FinishChanges ==
  ASSUME Loop!TypeOK, NEW k \in Loop!Ids, NEW f \in {"stop", "tools", "none"},
         log' = [log EXCEPT ![k].finish = f]
  PROVE  /\ Loop!Ids' = Loop!Ids /\ log' \in Seq(Message(Loop!Ids'))
         /\ \A i \in Loop!Ids : /\ log'[i].role = log[i].role /\ log'[i].input = log[i].input
                                /\ log'[i].saved = log[i].saved
                                /\ i # k => log'[i].finish = log[i].finish
<1> DEFINE m == [log[k] EXCEPT !.finish = f]
<1>1. log[k] \in Message(Loop!Ids)
  BY LogType
<1>2. m \in Message(Loop!Ids) /\ m.role = log[k].role /\ m.input = log[k].input
      /\ m.saved = log[k].saved
  BY <1>1 DEF Message
<1>3. log' = [log EXCEPT ![k] = m]
  OBVIOUS
<1> HIDE DEF m
<1>4. /\ Loop!Ids' = Loop!Ids /\ log' \in Seq(Message(Loop!Ids'))
      /\ log'[k] = m /\ \A i \in Loop!Ids \ {k} : log'[i] = log[i]
  BY <1>2, <1>3, ChangeLog
<1> QED BY <1>2, <1>4

\* All turns are saved, so the newest saved one is the newest.
LEMMA LastIsNewest ==
  ASSUME Loop!TypeOK, TurnsAreSaved
  PROVE  /\ \A i \in Loop!Ids : Newest(i) <=> i = Loop!Last("assistant")
         /\ \A i \in Loop!Ids : Loop!Turn(i) => Loop!Last("assistant") \in Loop!Ids
         /\ Loop!Last("assistant") # 0 => Loop!Last("assistant") \in Loop!Ids
<1> DEFINE a == Loop!Last("assistant")
<1>1. a \in Nat /\ (a # 0 => a \in Loop!Saved("assistant")) /\ \A i \in Loop!Saved("assistant") : i <= a
  BY LastIs
<1>2. \A i \in Loop!Ids : Loop!Turn(i) <=> i \in Loop!Saved("assistant")
  BY DEF Loop!Turn, Loop!Saved, TurnsAreSaved
<1>3. Loop!Ids \subseteq Nat \ {0}
  BY LogType
<1>4. Loop!Saved("assistant") \subseteq Loop!Ids
  BY DEF Loop!Saved
<1> HIDE DEF a
<1>5. \A i \in Loop!Ids : Loop!Turn(i) => a \in Loop!Ids
  BY <1>1, <1>2, <1>3, <1>4
<1>6. ASSUME NEW i \in Loop!Ids PROVE Newest(i) <=> i = a
  <2>1. ASSUME Newest(i) PROVE i = a
    BY <1>1, <1>2, <1>3, <1>4, <2>1 DEF Newest
  <2>2. ASSUME i = a PROVE Newest(i)
    BY <1>1, <1>2, <1>3, <1>4, <2>2 DEF Newest
  <2> QED BY <2>1, <2>2
<1> QED BY <1>1, <1>4, <1>5, <1>6 DEF a

-----------------------------------------------------------------------------
(* The steps *)

\* No step changes who wrote a message, its input, or a finish reason.
Kept ==
    \A i \in Loop!Ids :
        /\ i \in Loop!Ids'
        /\ log'[i].role = log[i].role /\ log'[i].input = log[i].input
        /\ log[i].saved => log'[i].saved
        /\ log[i].finish # "none" => log'[i].finish = log[i].finish

\* The turn that ends is the newest, and had no finish reason.
LEMMA EndOfTurn ==
  ASSUME Loop!TypeOK, TurnsAreSaved, StreamIsNewest, loop = "stream"
  PROVE  /\ Loop!Last("assistant") \in Loop!Ids /\ Newest(Loop!Last("assistant"))
         /\ log[Loop!Last("assistant")].finish = "none"
<1>1. PICK i \in Loop!Ids : Newest(i) /\ log[i].finish = "none"
  BY DEF StreamIsNewest
<1> QED BY <1>1, LastIsNewest

\* The ways in which a step changes the log.
LogSteps ==
    \/ log' = log
    \/ log' = Append(log, Loop!UserMessage) /\ loop' = loop
    \/ Loop!StartTurn
    \/ \E k \in Loop!Ids : log[k].role = "user" /\ log' = [log EXCEPT ![k].saved = TRUE]
                    /\ (loop' = loop \/ (loop = "idle" /\ loop' = "top"))
    \/ /\ loop = "stream" /\ loop' \in {"top", "idle"}
       /\ \E f \in {"stop", "tools", "none"} :
             log' = [log EXCEPT ![Loop!Last("assistant")].finish = f]

LEMMA NextLog == ASSUME LoopInv, Loop!Next PROVE LogSteps
<1>1. ASSUME NEW p \in Prompts, Loop!CreateUserMessage(p) PROVE LogSteps
  BY <1>1 DEF Loop!CreateUserMessage, LogSteps
<1>2. ASSUME NEW p \in Prompts, Loop!SaveAndLoop(p) \/ Loop!SaveOnly(p) PROVE LogSteps
  <2>1. uid[p] \in Loop!Ids /\ log[uid[p]].role = "user"
    BY <1>2 DEF LoopInv, PromptsHaveMessages, Loop!SaveAndLoop, Loop!SaveOnly
  <2> QED BY <1>2, <2>1 DEF Loop!SaveAndLoop, Loop!SaveOnly, LogSteps
<1>3. CASE Loop!TurnContinues \/ Loop!TurnBreaks
  BY <1>3 DEF Loop!TurnContinues, Loop!TurnBreaks, Loop!Return, Loop!End, LogSteps
<1> QED
  BY <1>1, <1>2, <1>3 DEF Loop!Next, Loop!LoopStep, Loop!ReadAndExit, Loop!ReadAndGoOn, Loop!Throw, Loop!Cancel, LogSteps

LEMMA Added ==
  ASSUME Loop!TypeOK
  PROVE  Loop!UserMessage \in Message(Loop!Ids) /\ Loop!AssistantMessage(view) \in Message(Loop!Ids)
BY DEF Loop!TypeOK, Loop!UserMessage, Loop!AssistantMessage, Message

LEMMA NextKeeps == ASSUME LoopInv, Loop!Next PROVE Kept /\ log' \in Seq(Message(Loop!Ids'))
<1>1. Loop!TypeOK
  BY DEF LoopInv, Loop!PromptsAnswered
<1>2. CASE log' = log
  BY <1>1, <1>2, LogType DEF Kept, Loop!Ids
<1>3. CASE log' = Append(log, Loop!UserMessage)
  <2>1. \A i \in Loop!Ids : i \in Loop!Ids' /\ log'[i] = log[i]
    BY <1>1, <1>3, AppendLog, Added
  <2> QED BY <1>1, <1>3, <2>1, AppendLog, Added DEF Kept
<1>4. CASE Loop!StartTurn
  <2>1. log' = Append(log, Loop!AssistantMessage(view))
    BY <1>4 DEF Loop!StartTurn
  <2>2. \A i \in Loop!Ids : i \in Loop!Ids' /\ log'[i] = log[i]
    BY <1>1, <2>1, AppendLog, Added
  <2> QED BY <1>1, <2>1, <2>2, AppendLog, Added DEF Kept
<1>5. ASSUME NEW k \in Loop!Ids, log' = [log EXCEPT ![k].saved = TRUE]
      PROVE  Kept /\ log' \in Seq(Message(Loop!Ids'))
  BY <1>1, <1>5, SaveChanges DEF Kept
<1>6. ASSUME loop = "stream", NEW f \in {"stop", "tools", "none"},
             log' = [log EXCEPT ![Loop!Last("assistant")].finish = f]
      PROVE  Kept /\ log' \in Seq(Message(Loop!Ids'))
  <2> DEFINE a == Loop!Last("assistant")
  <2>1. a \in Loop!Ids /\ log[a].finish = "none"
    BY <1>1, <1>6, EndOfTurn DEF LoopInv
  <2> HIDE DEF a
  <2>2. log' = [log EXCEPT ![a].finish = f]
    BY <1>6 DEF a
  <2> QED BY <1>1, <2>1, <2>2, FinishChanges DEF Kept
<1> QED BY <1>2, <1>3, <1>4, <1>5, <1>6, NextLog DEF LogSteps

LEMMA NextLoopTypeOK == ASSUME LoopInv, Loop!Next PROVE Loop!TypeOK'
<1> USE DEF Loop!TypeOK
<1>1. Loop!TypeOK /\ Loop!Ids \subseteq Loop!Ids' /\ log' \in Seq(Message(Loop!Ids'))
  BY NextKeeps DEF LoopInv, Loop!PromptsAnswered, Kept
<1>2. uid' \in [Prompts -> Loop!Ids' \cup {0}]
  <2>1. ASSUME NEW p \in Prompts, Loop!CreateUserMessage(p) PROVE Len(log) + 1 \in Loop!Ids'
    BY <1>1, <2>1, AppendLog, Added DEF Loop!CreateUserMessage
  <2>2. uid' = uid \/ \E p \in Prompts : Loop!CreateUserMessage(p) /\ uid' = [uid EXCEPT ![p] = Len(log) + 1]
    BY DEF Loop!Next, Loop!CreateUserMessage, Loop!SaveAndLoop, Loop!SaveOnly, Loop!LoopStep, Loop!ReadAndExit, Loop!ReadAndGoOn,
       Loop!StartTurn, Loop!Throw, Loop!TurnContinues, Loop!TurnBreaks, Loop!Cancel
  <2> QED BY <1>1, <2>1, <2>2
<1>3. Loop!LastAssistant \in Loop!Ids \cup {0}
  BY <1>1, LastIs DEF Loop!LastAssistant, Loop!Saved
<1>4. answer' \in [Prompts -> Loop!Ids' \cup {0}]
  BY <1>1, <1>3 DEF Loop!Next, Loop!CreateUserMessage, Loop!SaveAndLoop, Loop!SaveOnly, Loop!LoopStep, Loop!ReadAndExit,
     Loop!ReadAndGoOn, Loop!StartTurn, Loop!Throw, Loop!TurnContinues, Loop!TurnBreaks, Loop!Cancel, Loop!Return
<1>5. place' \in [Prompts -> {"new", "resolving", "noReply", "waiting", "answered",
                          "broken", "failed", "cancelled"}]
  BY <1>1 DEF Loop!Next, Loop!CreateUserMessage, Loop!SaveAndLoop, Loop!SaveOnly, Loop!LoopStep, Loop!ReadAndExit,
     Loop!ReadAndGoOn, Loop!StartTurn, Loop!Throw, Loop!TurnContinues, Loop!TurnBreaks, Loop!Cancel, Loop!Return, Loop!End
<1>6. loop' \in {"idle", "top", "read", "stream"} /\ view' \subseteq Loop!Ids'
  BY <1>1 DEF Loop!Next, Loop!CreateUserMessage, Loop!SaveAndLoop, Loop!SaveOnly, Loop!LoopStep, Loop!ReadAndExit,
     Loop!ReadAndGoOn, Loop!StartTurn, Loop!Throw, Loop!TurnContinues, Loop!TurnBreaks, Loop!Cancel, Loop!Return, Loop!End, Loop!Saved
<1> QED BY <1>1, <1>2, <1>4, <1>5, <1>6 DEF Message

\* A call makes its message, then saves it, then waits.
LEMMA NextPrompts == ASSUME LoopInv, Loop!Next PROVE PromptsHaveMessages'
<1>1. Loop!TypeOK /\ Kept /\ PromptsHaveMessages
  BY NextKeeps DEF LoopInv, Loop!PromptsAnswered
<1> USE DEF Loop!TypeOK
<1>2. ASSUME NEW p \in Prompts, Loop!CreateUserMessage(p) PROVE PromptsHaveMessages'
  <2>1. Len(log) + 1 \in Loop!Ids' /\ log'[Len(log) + 1].role = "user"
    BY <1>1, <1>2, AppendLog, Added DEF Loop!CreateUserMessage, Loop!UserMessage
  <2>2. uid' = [uid EXCEPT ![p] = Len(log) + 1] /\ place' = [place EXCEPT ![p] = "resolving"]
    BY <1>2 DEF Loop!CreateUserMessage
  <2> QED BY <1>1, <2>1, <2>2 DEF Kept, PromptsHaveMessages
<1>3. ASSUME NEW p \in Prompts, Loop!SaveAndLoop(p) \/ Loop!SaveOnly(p) PROVE PromptsHaveMessages'
  <2>1. uid[p] \in Loop!Ids /\ log[uid[p]].role = "user" /\ uid' = uid
        /\ log' = [log EXCEPT ![uid[p]].saved = TRUE]
    BY <1>1, <1>3 DEF PromptsHaveMessages, Loop!SaveAndLoop, Loop!SaveOnly
  <2>2. log'[uid[p]].saved
    BY <1>1, <2>1, SaveChanges
  <2>3. \A q \in Prompts \ {p} : place'[q] = place[q]
    BY <1>1, <1>3 DEF Loop!SaveAndLoop, Loop!SaveOnly
  <2> QED BY <1>1, <2>1, <2>2, <2>3 DEF Kept, PromptsHaveMessages
<1>4. CASE uid' = uid /\ \A q \in Prompts : place[q] \in {"new", "resolving"} => place'[q] = place[q]
  BY <1>1, <1>4 DEF Kept, PromptsHaveMessages
<1>5. Loop!LoopStep \/ Loop!Cancel => uid' = uid /\ \A q \in Prompts : place[q] \in {"new", "resolving"} => place'[q] = place[q]
  BY DEF Loop!LoopStep, Loop!ReadAndExit, Loop!ReadAndGoOn, Loop!StartTurn, Loop!Throw, Loop!TurnContinues, Loop!TurnBreaks, Loop!Cancel,
     Loop!Return, Loop!End, Loop!Waiting
<1> QED BY <1>2, <1>3, <1>4, <1>5 DEF Loop!Next

\* Who becomes answered waited when the loop found nothing left to answer.
LEMMA NextAnswered ==
  ASSUME LoopInv, Loop!Next, NEW p \in Prompts, place'[p] = "answered"
  PROVE  /\ uid'[p] = uid[p]
         /\ \/ place[p] = "answered" /\ answer'[p] = answer[p]
            \/ place[p] = "waiting" /\ Loop!ExitCheck /\ log' = log /\ answer'[p] = Loop!LastAssistant
<1>1. Loop!TypeOK
  BY DEF LoopInv, Loop!PromptsAnswered
<1> USE DEF Loop!TypeOK
<1>2. ASSUME NEW q \in Prompts, Loop!CreateUserMessage(q) \/ Loop!SaveAndLoop(q) \/ Loop!SaveOnly(q)
      PROVE  place[p] = "answered" /\ UNCHANGED <<uid[p], answer>>
  BY <1>1, <1>2 DEF Loop!CreateUserMessage, Loop!SaveAndLoop, Loop!SaveOnly
<1>3. CASE Loop!ReadAndExit
  BY <1>1, <1>3 DEF Loop!ReadAndExit, Loop!Return, Loop!End, Loop!Waiting
<1>4. CASE Loop!ReadAndGoOn \/ Loop!StartTurn \/ Loop!TurnContinues
  BY <1>1, <1>4 DEF Loop!ReadAndGoOn, Loop!StartTurn, Loop!TurnContinues
<1>5. CASE Loop!Throw \/ Loop!TurnBreaks \/ Loop!Cancel
  BY <1>1, <1>5 DEF Loop!Throw, Loop!TurnBreaks, Loop!Cancel, Loop!Return, Loop!End, Loop!Waiting
<1> QED BY <1>2, <1>3, <1>4, <1>5 DEF Loop!Next, Loop!LoopStep

\* The turn that the exit check finds is newer than what waits.
LEMMA ExitAnswers ==
  ASSUME LoopInv, Loop!ExitCheck, NEW p \in Prompts, place[p] = "waiting"
  PROVE  /\ Loop!LastAssistant \in Loop!Ids /\ Loop!Turn(Loop!LastAssistant)
         /\ log[Loop!LastAssistant].finish = "stop" /\ Loop!LastAssistant > uid[p]
<1>1. Loop!TypeOK
  BY DEF LoopInv, Loop!PromptsAnswered
<1>2. uid[p] \in Loop!Saved("user")
  BY DEF LoopInv, PromptsHaveMessages, Loop!Saved
<1>3. Loop!Last("user") \in Nat /\ Loop!Last("assistant") \in Nat /\ uid[p] <= Loop!Last("user") /\ uid[p] \in Nat
  BY <1>1, <1>2, LastIs, LogType DEF Loop!Saved
<1>4. Loop!Last("assistant") \in Loop!Saved("assistant")
  BY <1>1, LastIs DEF Loop!ExitCheck
<1> QED BY <1>3, <1>4 DEF Loop!ExitCheck, Loop!LastAssistant, Loop!Saved, Loop!Turn

LEMMA NextAnswers == ASSUME LoopInv, Loop!Next PROVE Loop!OnlyOvertakenLost' /\ Loop!AnswerFollowsPrompt'
<1>1. Kept /\ Loop!TypeOK /\ Loop!OnlyOvertakenLost /\ Loop!AnswerFollowsPrompt
  BY NextKeeps DEF LoopInv, Loop!PromptsAnswered
<1> SUFFICES ASSUME NEW p \in Prompts, place'[p] = "answered"
             PROVE  /\ Loop!Seen(p)' \/ Loop!Overtaken(p)'
                    /\ answer'[p] > uid'[p] /\ log'[answer'[p]].finish = "stop"
  BY DEF Loop!OnlyOvertakenLost, Loop!AnswerFollowsPrompt
<1>2. CASE place[p] = "answered" /\ answer'[p] = answer[p] /\ uid'[p] = uid[p]
  <2>1. Loop!Seen(p)' \/ Loop!Overtaken(p)'
    BY <1>1, <1>2 DEF Loop!OnlyOvertakenLost, Loop!Seen, Loop!Overtaken, Kept, Loop!Turn
  <2>2. answer[p] \in Loop!Ids /\ log[answer[p]].finish = "stop" /\ answer[p] > uid[p]
    <3>1. answer[p] > uid[p] /\ log[answer[p]].finish = "stop"
      BY <1>1, <1>2 DEF Loop!AnswerFollowsPrompt
    <3>2. answer[p] \in Loop!Ids \cup {0} /\ uid[p] \in Loop!Ids \cup {0}
      BY <1>1 DEF Loop!TypeOK
    <3>3. Loop!Ids = 1 .. Len(log) /\ Len(log) \in Nat
      BY <1>1, LogType
    <3>4. answer[p] # 0
      BY <3>1, <3>2, <3>3
    <3> QED BY <3>1, <3>2, <3>4
  <2> QED BY <1>1, <1>2, <2>1, <2>2 DEF Kept
<1>3. CASE /\ uid'[p] = uid[p] /\ place[p] = "waiting" /\ Loop!ExitCheck /\ log' = log
           /\ answer'[p] = Loop!LastAssistant
  BY <1>3, ExitAnswers DEF Loop!Seen, Loop!Overtaken, Loop!Turn, Loop!Ids
<1> QED BY <1>2, <1>3, NextAnswered

\* The turns of a step that starts none are those before it.
LEMMA SameTurns ==
  ASSUME LoopInv, Loop!Next, ~Loop!StartTurn
  PROVE  \A i \in Loop!Ids' : Loop!Turn(i)' => i \in Loop!Ids /\ Loop!Turn(i)
<1>1. Loop!TypeOK
  BY DEF LoopInv, Loop!PromptsAnswered
<1>2. CASE log' = log
  BY <1>2 DEF Loop!Ids, Loop!Turn
<1>3. CASE log' = Append(log, Loop!UserMessage)
  <2>1. Loop!Ids' = Loop!Ids \cup {Len(log) + 1} /\ log'[Len(log) + 1].role = "user"
    BY <1>1, <1>3, AppendLog, Added DEF Loop!UserMessage
  <2> QED BY <2>1, NextKeeps DEF Kept, Loop!Turn
<1>4. ASSUME NEW k \in Loop!Ids, log' = [log EXCEPT ![k].saved = TRUE] PROVE Loop!Ids' = Loop!Ids
  BY <1>1, <1>4, SaveChanges
<1>5. ASSUME loop = "stream", NEW f \in {"stop", "tools", "none"},
             log' = [log EXCEPT ![Loop!Last("assistant")].finish = f]
      PROVE  Loop!Ids' = Loop!Ids
  <2> DEFINE a == Loop!Last("assistant")
  <2>1. a \in Loop!Ids
    BY <1>1, <1>5, EndOfTurn DEF LoopInv
  <2>2. log' = [log EXCEPT ![a].finish = f]
    BY <1>5
  <2> HIDE DEF a
  <2> QED BY <1>1, <2>1, <2>2, FinishChanges
<1>6. CASE Loop!Ids' = Loop!Ids
  BY <1>6, NextKeeps DEF Kept, Loop!Turn
<1> QED BY <1>2, <1>3, <1>4, <1>5, <1>6, NextLog DEF LogSteps

\* What StartTurn adds.
LEMMA TurnAdded ==
  ASSUME Loop!TypeOK, Loop!StartTurn
  PROVE  /\ Loop!Ids' = Loop!Ids \cup {Len(log) + 1} /\ Len(log) + 1 \notin Loop!Ids
         /\ \A i \in Loop!Ids : i < Len(log) + 1 /\ log'[i] = log[i]
         /\ log'[Len(log) + 1] = Loop!AssistantMessage(view)
BY AppendLog, Added DEF Loop!StartTurn

LEMMA NextTurnsSaved == ASSUME LoopInv, Loop!Next PROVE TurnsAreSaved'
<1>1. Loop!TypeOK /\ Kept /\ TurnsAreSaved
  BY NextKeeps DEF LoopInv, Loop!PromptsAnswered
<1>2. CASE ~Loop!StartTurn
  BY <1>1, <1>2, SameTurns DEF TurnsAreSaved, Kept
<1>3. CASE Loop!StartTurn
  <2>1. ASSUME NEW i \in Loop!Ids PROVE (Loop!Turn(i) => log[i].saved /\ \A u \in log[i].input : u < i)'
    BY <1>1, <1>3, TurnAdded DEF TurnsAreSaved, Loop!Turn
  <2>2. log'[Len(log) + 1].saved /\ log'[Len(log) + 1].input = view
    BY <1>1, <1>3, TurnAdded DEF Loop!AssistantMessage
  <2>3. \A u \in view : u < Len(log) + 1
    BY <1>1, <1>3, TurnAdded DEF Loop!TypeOK
  <2> QED BY <1>1, <1>3, <2>1, <2>2, <2>3, TurnAdded DEF TurnsAreSaved
<1> QED BY <1>2, <1>3

\* Only the newest turn, which streams, gets a finish reason.
LEMMA OlderFinish ==
  ASSUME LoopInv, Loop!Next, NEW i \in Loop!Ids, NEW j \in Loop!Ids, Loop!Turn(i), Loop!Turn(j), i < j
  PROVE  log'[i].finish = log[i].finish
<1>1. Loop!TypeOK
  BY DEF LoopInv, Loop!PromptsAnswered
<1>2. CASE log' = log
  BY <1>2
<1>3. ASSUME NEW m \in Message(Loop!Ids), log' = Append(log, m) PROVE log'[i] = log[i]
  BY <1>1, <1>3, AppendLog
<1>4. ASSUME NEW k \in Loop!Ids, log' = [log EXCEPT ![k].saved = TRUE]
      PROVE  log'[i].finish = log[i].finish
  BY <1>1, <1>4, SaveChanges
<1>5. ASSUME loop = "stream", NEW f \in {"stop", "tools", "none"},
             log' = [log EXCEPT ![Loop!Last("assistant")].finish = f]
      PROVE  log'[i].finish = log[i].finish
  <2> DEFINE a == Loop!Last("assistant")
  <2>1. a \in Loop!Ids /\ Newest(a)
    BY <1>1, <1>5, EndOfTurn DEF LoopInv
  <2>2. log' = [log EXCEPT ![a].finish = f]
    BY <1>5
  <2> HIDE DEF a
  <2>3. i # a
    BY <1>1, <2>1, LogType DEF Newest
  <2> QED BY <1>1, <2>1, <2>2, <2>3, FinishChanges
<1> QED
  BY <1>1, <1>2, <1>3, <1>4, <1>5, NextLog, Added DEF LogSteps, Loop!StartTurn

\* Between two turns there is none.
Consecutive(i, j) ==
    /\ Loop!Turn(i) /\ Loop!Turn(j) /\ i < j
    /\ \A k \in (i + 1)..(j - 1) : ~Loop!Turn(k)

\* The input of a turn holds a message of the user that no turn before it had.
HasNew(j) ==
    \E u \in log[j].input :
        /\ log[u].role = "user"
        /\ \A t \in Loop!Ids : Loop!Turn(t) /\ t < j => u \notin log[t].input

LEMMA NextNoEmptyTurn == ASSUME LoopInv, Loop!Next PROVE Loop!NoEmptyTurn'
<1>1. Loop!TypeOK /\ Kept /\ Loop!NoEmptyTurn /\ TurnsAreSaved
  BY NextKeeps DEF LoopInv, Loop!PromptsAnswered
<1>2. Loop!Ids \subseteq Nat
  BY <1>1, LogType
<1> SUFFICES ASSUME NEW i \in Loop!Ids', NEW j \in Loop!Ids', Consecutive(i, j)', log'[i].finish = "stop"
             PROVE  HasNew(j)'
  BY DEF Loop!NoEmptyTurn, Consecutive, HasNew
<1>3. CASE ~Loop!StartTurn
  <2>1. i \in Loop!Ids /\ j \in Loop!Ids /\ Loop!Turn(i) /\ Loop!Turn(j) /\ i < j
    BY <1>3, SameTurns DEF Consecutive
  <2>2. Consecutive(i, j) /\ log[i].finish = "stop"
    <3>1. \A k \in (i + 1)..(j - 1) : k \in Loop!Ids
      BY <1>1, <2>1, LogType
    <3>2. \A k \in (i + 1)..(j - 1) : ~Loop!Turn(k)
      BY <1>1, <3>1 DEF Consecutive, Kept, Loop!Turn
    <3> QED BY <2>1, <3>2, OlderFinish DEF Consecutive
  <2>3. HasNew(j)
    BY <1>1, <2>1, <2>2 DEF Loop!NoEmptyTurn, Consecutive, HasNew
  <2>4. PICK u \in log[j].input :
          log[u].role = "user" /\ \A t \in Loop!Ids : Loop!Turn(t) /\ t < j => u \notin log[t].input
    BY <2>3 DEF HasNew
  <2>5. u \in Loop!Ids
    BY <1>1, <2>1, <2>4, LogType DEF Message
  <2>6. u \in log'[j].input /\ log'[u].role = "user"
    BY <1>1, <2>1, <2>4, <2>5 DEF Kept
  <2>7. \A t \in Loop!Ids' : Loop!Turn(t)' /\ t < j => u \notin log'[t].input
    BY <1>1, <1>3, <2>4, SameTurns DEF Kept
  <2> QED BY <2>6, <2>7 DEF HasNew
<1>4. CASE Loop!StartTurn /\ j \in Loop!Ids
  <2>1. /\ i \in Loop!Ids /\ \A k \in Loop!Ids : log'[k] = log[k] /\ k < Len(log) + 1
        /\ Loop!Ids' = Loop!Ids \cup {Len(log) + 1}
    BY <1>1, <1>2, <1>4, TurnAdded, LogType DEF Consecutive
  <2>2. Consecutive(i, j) /\ log[i].finish = "stop"
    <3>1. \A k \in (i + 1)..(j - 1) : k \in Loop!Ids
      BY <1>1, <1>4, <2>1, LogType
    <3> QED BY <1>4, <2>1, <3>1 DEF Consecutive, Loop!Turn
  <2>3. PICK u \in log[j].input :
          log[u].role = "user" /\ \A t \in Loop!Ids : Loop!Turn(t) /\ t < j => u \notin log[t].input
    BY <1>1, <1>4, <2>1, <2>2 DEF Loop!NoEmptyTurn, Consecutive
  <2>4. u \in Loop!Ids
    BY <1>1, <1>4, <2>3, LogType DEF Message
  <2>5. \A t \in Loop!Ids' : Loop!Turn(t)' /\ t < j => u \notin log'[t].input
    <3>1. \A t \in Loop!Ids' : t < j => t \in Loop!Ids
      BY <1>1, <1>2, <1>4, <2>1, LogType
    <3> QED BY <1>4, <2>1, <2>3, <3>1 DEF Loop!Turn
  <2> QED BY <1>4, <2>1, <2>3, <2>4, <2>5 DEF HasNew
<1>5. CASE Loop!StartTurn /\ j \notin Loop!Ids
  <2>1. /\ \A k \in Loop!Ids : log'[k] = log[k] /\ k < Len(log) + 1
        /\ Loop!Ids' = Loop!Ids \cup {Len(log) + 1} /\ j = Len(log) + 1
        /\ log'[j].input = view
    BY <1>1, <1>5, TurnAdded DEF Loop!AssistantMessage
  <2>2. i \in Loop!Ids /\ log[i].finish = "stop" /\ Loop!Turn(i) /\ loop = "read"
    <3>1. i \in Loop!Ids
      BY <1>1, <2>1, LogType DEF Consecutive
    <3> QED BY <1>5, <2>1, <3>1 DEF Consecutive, Loop!StartTurn, Loop!Turn
  <2>3. Newest(i)
    <3> SUFFICES ASSUME NEW t \in Loop!Ids, Loop!Turn(t), ~(t <= i) PROVE FALSE
      BY <2>2 DEF Newest
    <3>1. t \in (i + 1)..(j - 1)
      BY <1>1, <2>1, <2>2, LogType
    <3> QED BY <2>1, <3>1 DEF Consecutive, Loop!Turn
  <2>4. PICK u \in view : log[u].role = "user" /\ u > i
    BY <2>2, <2>3 DEF LoopInv, ReadIsNew
  <2>5. u \in Loop!Ids
    BY <1>1 DEF Loop!TypeOK
  <2>6. ASSUME NEW t \in Loop!Ids', Loop!Turn(t)', t < j PROVE u \notin log'[t].input
    <3>1. t \in Loop!Ids /\ Loop!Turn(t) /\ log'[t] = log[t]
      BY <1>2, <2>1, <2>6 DEF Loop!Turn
    <3>2. t <= i
      BY <2>3, <3>1 DEF Newest
    <3>3. ASSUME u \in log[t].input PROVE FALSE
      <4>1. u < t
        BY <1>1, <3>1, <3>3 DEF TurnsAreSaved
      <4> QED BY <1>2, <2>2, <2>4, <2>5, <3>1, <3>2, <4>1
    <3> QED BY <3>1, <3>3
  <2> QED BY <2>1, <2>4, <2>5, <2>6 DEF HasNew
<1> QED BY <1>3, <1>4, <1>5

\* While a turn is prepared or streams, the others only add and save messages.
LEMMA OnlyPrompts ==
  ASSUME LoopInv, Loop!Next, loop' = loop, loop \in {"read", "stream"}
  PROVE  /\ ~Loop!StartTurn /\ view' = view
         /\ \A i \in Loop!Ids : log'[i].finish = log[i].finish
<1>1. Loop!TypeOK
  BY DEF LoopInv, Loop!PromptsAnswered
<1>2. ~Loop!StartTurn /\ view' = view
  BY DEF Loop!Next, Loop!CreateUserMessage, Loop!SaveAndLoop, Loop!SaveOnly, Loop!LoopStep, Loop!ReadAndExit, Loop!ReadAndGoOn,
     Loop!StartTurn, Loop!Throw, Loop!TurnContinues, Loop!TurnBreaks, Loop!Cancel, Loop!Return, Loop!End
<1>3. ASSUME log' = Append(log, Loop!UserMessage) PROVE \A i \in Loop!Ids : log'[i] = log[i]
  BY <1>1, <1>3, AppendLog, Added
<1>4. ASSUME NEW k \in Loop!Ids, log' = [log EXCEPT ![k].saved = TRUE]
      PROVE  \A i \in Loop!Ids : log'[i].finish = log[i].finish
  BY <1>1, <1>4, SaveChanges
<1> QED BY <1>2, <1>3, <1>4, NextLog DEF LogSteps

LEMMA NextStream == ASSUME LoopInv, Loop!Next PROVE StreamIsNewest'
<1>1. Loop!TypeOK /\ Kept /\ StreamIsNewest
  BY NextKeeps DEF LoopInv, Loop!PromptsAnswered
<1> SUFFICES ASSUME loop' = "stream"
             PROVE  \E i \in Loop!Ids' : Newest(i)' /\ log'[i].finish = "none"
  BY DEF StreamIsNewest
<1>2. CASE Loop!StartTurn
  <2>1. PICK n \in Loop!Ids' : log'[n] = Loop!AssistantMessage(view) /\ \A t \in Loop!Ids' : t <= n
    BY <1>1, <1>2, TurnAdded, LogType
  <2>2. Loop!Turn(n)' /\ log'[n].finish = "none"
    BY <2>1 DEF Loop!Turn, Loop!AssistantMessage
  <2> QED BY <2>1, <2>2 DEF Newest
<1>3. CASE ~Loop!StartTurn
  <2>1. loop = "stream"
    BY <1>3 DEF Loop!Next, Loop!CreateUserMessage, Loop!SaveAndLoop, Loop!SaveOnly, Loop!LoopStep, Loop!ReadAndExit,
       Loop!ReadAndGoOn, Loop!Throw, Loop!TurnContinues, Loop!TurnBreaks, Loop!Cancel, Loop!Return, Loop!End
  <2>2. PICK i \in Loop!Ids : Newest(i) /\ log[i].finish = "none"
    BY <1>1, <2>1 DEF StreamIsNewest
  <2>3. Newest(i)'
    BY <1>1, <1>3, <2>2, SameTurns DEF Newest, Kept, Loop!Turn
  <2> QED BY <1>1, <2>1, <2>2, <2>3, OnlyPrompts DEF Kept
<1> QED BY <1>2, <1>3

LEMMA NextRead == ASSUME LoopInv, Loop!Next PROVE ReadIsNew'
<1>1. Loop!TypeOK /\ Kept /\ ReadIsNew /\ TurnsAreSaved
  BY NextKeeps DEF LoopInv, Loop!PromptsAnswered
<1> SUFFICES ASSUME loop' = "read", NEW i \in Loop!Ids', Newest(i)', log'[i].finish = "stop"
             PROVE  \E u \in view' : log'[u].role = "user" /\ u > i
  BY DEF ReadIsNew
<1>2. CASE Loop!ReadAndGoOn
  <2>1. log' = log /\ view' = Loop!Saved("user") \cup Loop!Saved("assistant") /\ ~Loop!ExitCheck
    BY <1>2 DEF Loop!ReadAndGoOn
  <2>2. i \in Loop!Ids /\ Newest(i) /\ log[i].finish = "stop" /\ log[i].role = "assistant"
    BY <2>1 DEF Newest, Loop!Turn, Loop!Ids
  <2>3. i = Loop!Last("assistant") /\ i \in Nat \ {0}
    BY <1>1, <2>2, LastIsNewest, LogType
  <2>4. ~(Loop!Last("user") < i)
    BY <2>1, <2>2, <2>3 DEF Loop!ExitCheck
  <2>5. Loop!Last("user") \in Nat /\ Loop!Last("user") # 0 /\ Loop!Last("user") \in Loop!Saved("user")
    BY <1>1, <2>3, <2>4, LastIs
  <2>6. log[Loop!Last("user")].role = "user" /\ Loop!Last("user") > i
    BY <2>2, <2>3, <2>4, <2>5 DEF Loop!Saved
  <2> QED BY <2>1, <2>5, <2>6
<1>3. CASE ~Loop!ReadAndGoOn
  <2>1. loop = "read"
    BY <1>3 DEF Loop!Next, Loop!CreateUserMessage, Loop!SaveAndLoop, Loop!SaveOnly, Loop!LoopStep, Loop!ReadAndExit,
       Loop!StartTurn, Loop!Throw, Loop!TurnContinues, Loop!TurnBreaks, Loop!Cancel, Loop!Return, Loop!End
  <2>2. ~Loop!StartTurn /\ view' = view /\ \A k \in Loop!Ids : log'[k].finish = log[k].finish
    BY <2>1, OnlyPrompts
  <2>3. i \in Loop!Ids /\ Loop!Turn(i)
    BY <2>2, SameTurns DEF Newest
  <2>4. Newest(i)
    BY <1>1, <2>3 DEF Newest, Kept, Loop!Turn
  <2>5. PICK u \in view : log[u].role = "user" /\ u > i
    BY <1>1, <2>1, <2>2, <2>3, <2>4 DEF ReadIsNew
  <2>6. u \in Loop!Ids
    BY <1>1 DEF Loop!TypeOK
  <2> QED BY <1>1, <2>2, <2>5, <2>6 DEF Kept
<1> QED BY <1>2, <1>3

LEMMA NextLoopInv == ASSUME LoopInv, [Loop!Next]_loopVars PROVE LoopInv'
<1>1. CASE Loop!Next
  BY <1>1, NextLoopTypeOK, NextPrompts, NextAnswers, NextTurnsSaved, NextNoEmptyTurn, NextStream,
     NextRead DEF LoopInv, Loop!PromptsAnswered
<1>2. CASE UNCHANGED loopVars
  BY <1>2 DEF loopVars, LoopInv, Loop!PromptsAnswered, Loop!TypeOK, Loop!Ids, Loop!OnlyOvertakenLost, Loop!Seen, Loop!Overtaken, Loop!Turn,
     Loop!AnswerFollowsPrompt, Loop!NoEmptyTurn, PromptsHaveMessages, TurnsAreSaved, StreamIsNewest,
     ReadIsNew, Newest
<1> QED BY <1>1, <1>2

THEOREM LoopInvariant == SessionSpec => []LoopInv
<1>1. SessionInit => LoopInv
  BY InitLoopInv, Starts DEF PartsStart
<1>2. LoopInv /\ [SessionNext]_sessionVars => LoopInv'
  BY NextLoopInv, Steps DEF PartsStep
<1> QED BY <1>1, <1>2, PTL DEF SessionSpec

\* runLoop: who is answered is answered by a finished turn, newer than the prompt,
\* that has seen it or was made while its parts were resolved; and the model is
\* called again after a finished turn only for a message it has not seen.
THEOREM Answered == SessionSpec => []PromptsAnswered
<1>1. LoopInv => PromptsAnswered
  BY DEF LoopInv, PromptsAnswered
<1> QED BY <1>1, LoopInvariant, PTL

-----------------------------------------------------------------------------
(* One turn of a session, for any number of tool calls, texts and retries, *)
(* however it ends: its calls are settled and stay so, what was shown is   *)
(* saved, what was answered is patched, and it goes on only when all was   *)
(* answered and nothing blocks it.                                         *)

\* No snapshot is not a snapshot; the stream is asked for at least once.
Sensible == NoSnapshot \notin SUBSET Calls /\ MaxAttempts \in Nat \ {0}

\* Nothing has gone wrong with the stream so far.
Sound ==
    \/ phase = "stream"
    \/ /\ phase \in {"cleanup", "wait"}
       /\ turn.error = "none" /\ ~turn.needsCompaction /\ ~turn.stopped

\* The tools whose events the stream has yet to bring.
Awaited == {c \in Calls : tool[c] \in {"executing", "returned", "threw", "rejected"}}

\* Only a stream that may be asked for again is retried.
RetriesAreLeft == phase = "retry" => attempt < MaxAttempts

\* What is shown is open, until the turn is cleaned up.
TextsAreOpen ==
    /\ \A t \in Texts : text[t] = "shown" => t \in open
    /\ phase \in {"wait", "done"} => open = {}

\* A call is tracked until it is settled, and belongs to the stream that made it.
CallsAreTracked ==
    /\ phase = "done" => toolcalls = {}
    /\ \A c \in Calls :
        /\ part[c] \in {"pending", "running"} => c \in toolcalls
        /\ part[c] \in {"none", "pending"} => tool[c] = "none"
        /\ tool[c] = "cut" => part[c] # "completed"
        /\ since[c] <= attempt
        /\ c \in Awaited =>
              phase = "stream" /\ part[c] = "running" /\ c \in toolcalls /\ since[c] = attempt

\* While nothing has gone wrong, the calls of the stream are either under way or
\* settled; when it has ended, or a step is finished, all of them are settled.
StreamIsAnswered ==
    /\ Sound => \A c \in Calls : since[c] = attempt => tool[c] # "cut" /\ (tool[c] = "over" => c \notin toolcalls)
    /\ handling = "snapshot" => Turn!Answered
    /\ Sound /\ phase # "stream" => Turn!Answered

\* A snapshot is older than what the calls of the stream write.
SnapshotIsOlder ==
    /\ phase \in {"wait", "done"} => snapshot = NoSnapshot
    /\ snapshot # NoSnapshot => snapshot \subseteq wrote
    /\ \A c \in Calls :
        /\ tool[c] = "none" => c \notin wrote
        /\ phase = "stream" /\ since[c] = attempt /\ tool[c] # "over" => snapshot # NoSnapshot
        /\ c \in Awaited => c \notin snapshot

\* What was answered is patched, or will be with the snapshot there is.
PatchIsDue ==
    \A c \in Calls : part[c] = "completed" /\ tool[c] = "over" /\ c \in wrote =>
        c \in patched \/ (snapshot # NoSnapshot /\ c \notin snapshot)

\* A refusal blocks where it has to; the turn's result comes last.
ResultIsLast ==
    /\ turn.result # "none" => phase = "done"
    /\ \A c \in Calls :
        /\ part[c] = "aborted" => phase = "done"
        /\ part[c] = "refused" /\ turn.shouldBreak => turn.blocked

TurnInv ==
    /\ Turn!TypeOK
    /\ RetriesAreLeft
    /\ TextsAreOpen
    /\ CallsAreTracked
    /\ StreamIsAnswered
    /\ SnapshotIsOlder
    /\ PatchIsDue
    /\ ResultIsLast
    /\ Turn!ContinueIsAnswered

-----------------------------------------------------------------------------
(* The steps *)

\* A turn starts with nothing shown and no call.
LEMMA InitTurnInv == ASSUME Sensible, Turn!Init PROVE TurnInv
BY DEF Sensible, Turn!Init, TurnInv, Turn!TypeOK, RetriesAreLeft, TextsAreOpen, CallsAreTracked,
       StreamIsAnswered, SnapshotIsOlder, PatchIsDue, ResultIsLast, Turn!ContinueIsAnswered, Sound,
       Awaited, Turn!Answered

\* The types hold, and a retry is within the bound of the attempts.
LEMMA NextTurnTypeOK == ASSUME Sensible, TurnInv, Turn!Next PROVE Turn!TypeOK' /\ RetriesAreLeft'
<1> USE DEF Sensible, TurnInv, Turn!TypeOK, RetriesAreLeft, Turn!Result
<1>1. ASSUME NEW t \in Texts, Turn!TextStart(t) PROVE Turn!TypeOK' /\ RetriesAreLeft'
  BY <1>1 DEF Turn!TextStart, Turn!Reading
<1>2. ASSUME NEW t \in Texts, Turn!TextEnd(t) PROVE Turn!TypeOK' /\ RetriesAreLeft'
  BY <1>2 DEF Turn!TextEnd, Turn!Reading
<1>3. ASSUME NEW t \in Texts, Turn!TextSave(t) PROVE Turn!TypeOK' /\ RetriesAreLeft'
  BY <1>3 DEF Turn!TextSave
<1>4. ASSUME NEW c \in Calls, Turn!ToolInputStart(c) PROVE Turn!TypeOK' /\ RetriesAreLeft'
  BY <1>4 DEF Turn!ToolInputStart, Turn!Reading
<1>5. ASSUME NEW c \in Calls, Turn!ToolCall(c) PROVE Turn!TypeOK' /\ RetriesAreLeft'
  BY <1>5 DEF Turn!ToolCall, Turn!Reading
<1>6. ASSUME NEW c \in Calls, Turn!ToolResult(c) PROVE Turn!TypeOK' /\ RetriesAreLeft'
  BY <1>6 DEF Turn!ToolResult, Turn!Reading, Turn!Completed
<1>7. ASSUME NEW c \in Calls, Turn!ToolError(c) PROVE Turn!TypeOK' /\ RetriesAreLeft'
  BY <1>7 DEF Turn!ToolError, Turn!Reading
<1>8. ASSUME NEW c \in Calls, Turn!Write(c) PROVE Turn!TypeOK' /\ RetriesAreLeft'
  BY <1>8 DEF Turn!Write
<1>9. ASSUME NEW c \in Calls, Turn!Return(c) PROVE Turn!TypeOK' /\ RetriesAreLeft'
  BY <1>9 DEF Turn!Return
<1>10. ASSUME NEW c \in Calls, Turn!Throw(c) PROVE Turn!TypeOK' /\ RetriesAreLeft'
  BY <1>10 DEF Turn!Throw
<1>11. ASSUME NEW c \in Calls, Turn!ReturnCut(c) PROVE Turn!TypeOK' /\ RetriesAreLeft'
  BY <1>11 DEF Turn!ReturnCut, Turn!Completed
<1>12. ASSUME NEW c \in Calls, Turn!ThrowCut(c) PROVE Turn!TypeOK' /\ RetriesAreLeft'
  BY <1>12 DEF Turn!ThrowCut
<1>13. ASSUME Turn!Allowed PROVE Turn!TypeOK' /\ RetriesAreLeft'
  BY <1>13 DEF Turn!Allowed
<1>14. ASSUME Turn!StartStep PROVE Turn!TypeOK' /\ RetriesAreLeft'
  BY <1>14 DEF Turn!StartStep, Turn!Reading
<1>15. ASSUME Turn!FinishStep PROVE Turn!TypeOK' /\ RetriesAreLeft'
  BY <1>15 DEF Turn!FinishStep, Turn!Reading
<1>16. ASSUME Turn!FinishStepPatch PROVE Turn!TypeOK' /\ RetriesAreLeft'
  BY <1>16 DEF Turn!FinishStepPatch, Turn!Patch
<1>17. ASSUME Turn!Finish PROVE Turn!TypeOK' /\ RetriesAreLeft'
  BY <1>17 DEF Turn!Finish, Turn!Reading
<1>18. ASSUME Turn!Fail PROVE Turn!TypeOK' /\ RetriesAreLeft'
  BY <1>18 DEF Turn!Fail, Turn!Reading, Turn!Cut
<1>19. ASSUME Turn!Retry PROVE Turn!TypeOK' /\ RetriesAreLeft'
  BY <1>19 DEF Turn!Retry
<1>20. ASSUME Turn!Halt PROVE Turn!TypeOK' /\ RetriesAreLeft'
  BY <1>20 DEF Turn!Halt, Turn!Cut
<1>21. ASSUME Turn!Stop PROVE Turn!TypeOK' /\ RetriesAreLeft'
  BY <1>21 DEF Turn!Stop, Turn!Cut
<1>22. ASSUME Turn!CleanTexts PROVE Turn!TypeOK' /\ RetriesAreLeft'
  BY <1>22 DEF Turn!CleanTexts, Turn!Patch
<1>23. ASSUME Turn!CleanCalls PROVE Turn!TypeOK' /\ RetriesAreLeft'
  BY <1>23 DEF Turn!CleanCalls, Turn!Result
<1> QED BY <1>1, <1>2, <1>3, <1>4, <1>5, <1>6, <1>7, <1>8, <1>9, <1>10, <1>11, <1>12, <1>13,
   <1>14, <1>15, <1>16, <1>17, <1>18, <1>19, <1>20, <1>21, <1>22, <1>23 DEF Turn!Next, Turn!Cleanup

\* A text is opened when it is shown, and closed when it is saved or lost.
LEMMA NextTextsAreOpen == ASSUME Sensible, TurnInv, Turn!Next PROVE TextsAreOpen'
<1> USE DEF TurnInv, Turn!TypeOK, TextsAreOpen
<1>1. ASSUME NEW t \in Texts, Turn!TextStart(t) PROVE TextsAreOpen'
  BY <1>1 DEF Turn!TextStart, Turn!Reading
<1>2. ASSUME NEW t \in Texts, Turn!TextEnd(t) PROVE TextsAreOpen'
  BY <1>2 DEF Turn!TextEnd, Turn!Reading
<1>3. ASSUME NEW t \in Texts, Turn!TextSave(t) PROVE TextsAreOpen'
  BY <1>3 DEF Turn!TextSave
<1>4. ASSUME NEW c \in Calls, Turn!ToolInputStart(c) PROVE TextsAreOpen'
  BY <1>4 DEF Turn!ToolInputStart, Turn!Reading
<1>5. ASSUME NEW c \in Calls, Turn!ToolCall(c) PROVE TextsAreOpen'
  BY <1>5 DEF Turn!ToolCall, Turn!Reading
<1>6. ASSUME NEW c \in Calls, Turn!ToolResult(c) PROVE TextsAreOpen'
  BY <1>6 DEF Turn!ToolResult, Turn!Reading, Turn!Completed
<1>7. ASSUME NEW c \in Calls, Turn!ToolError(c) PROVE TextsAreOpen'
  BY <1>7 DEF Turn!ToolError, Turn!Reading
<1>8. ASSUME NEW c \in Calls, Turn!Write(c) PROVE TextsAreOpen'
  BY <1>8 DEF Turn!Write
<1>9. ASSUME NEW c \in Calls, Turn!Return(c) PROVE TextsAreOpen'
  BY <1>9 DEF Turn!Return
<1>10. ASSUME NEW c \in Calls, Turn!Throw(c) PROVE TextsAreOpen'
  BY <1>10 DEF Turn!Throw
<1>11. ASSUME NEW c \in Calls, Turn!ReturnCut(c) PROVE TextsAreOpen'
  BY <1>11 DEF Turn!ReturnCut, Turn!Completed
<1>12. ASSUME NEW c \in Calls, Turn!ThrowCut(c) PROVE TextsAreOpen'
  BY <1>12 DEF Turn!ThrowCut
<1>13. ASSUME Turn!Allowed PROVE TextsAreOpen'
  BY <1>13 DEF Turn!Allowed
<1>14. ASSUME Turn!StartStep PROVE TextsAreOpen'
  BY <1>14 DEF Turn!StartStep, Turn!Reading
<1>15. ASSUME Turn!FinishStep PROVE TextsAreOpen'
  BY <1>15 DEF Turn!FinishStep, Turn!Reading
<1>16. ASSUME Turn!FinishStepPatch PROVE TextsAreOpen'
  BY <1>16 DEF Turn!FinishStepPatch, Turn!Patch
<1>17. ASSUME Turn!Finish PROVE TextsAreOpen'
  BY <1>17 DEF Turn!Finish, Turn!Reading
<1>18. ASSUME Turn!Fail PROVE TextsAreOpen'
  BY <1>18 DEF Turn!Fail, Turn!Reading, Turn!Cut
<1>19. ASSUME Turn!Retry PROVE TextsAreOpen'
  BY <1>19 DEF Turn!Retry
<1>20. ASSUME Turn!Halt PROVE TextsAreOpen'
  BY <1>20 DEF Turn!Halt, Turn!Cut
<1>21. ASSUME Turn!Stop PROVE TextsAreOpen'
  BY <1>21 DEF Turn!Stop, Turn!Cut
<1>22. ASSUME Turn!CleanTexts PROVE TextsAreOpen'
  BY <1>22 DEF Turn!CleanTexts, Turn!Patch
<1>23. ASSUME Turn!CleanCalls PROVE TextsAreOpen'
  BY <1>23 DEF Turn!CleanCalls, Turn!Result
<1> QED BY <1>1, <1>2, <1>3, <1>4, <1>5, <1>6, <1>7, <1>8, <1>9, <1>10, <1>11, <1>12, <1>13,
   <1>14, <1>15, <1>16, <1>17, <1>18, <1>19, <1>20, <1>21, <1>22, <1>23 DEF Turn!Next, Turn!Cleanup

\* A call leaves ctx.toolcalls as its part gets its final state.
LEMMA NextCallsAreTracked == ASSUME Sensible, TurnInv, Turn!Next PROVE CallsAreTracked'
<1> USE DEF Sensible, TurnInv, Turn!TypeOK, CallsAreTracked, Awaited
<1>1. ASSUME NEW t \in Texts, Turn!TextStart(t) PROVE CallsAreTracked'
  BY <1>1 DEF Turn!TextStart, Turn!Reading
<1>2. ASSUME NEW t \in Texts, Turn!TextEnd(t) PROVE CallsAreTracked'
  BY <1>2 DEF Turn!TextEnd, Turn!Reading
<1>3. ASSUME NEW t \in Texts, Turn!TextSave(t) PROVE CallsAreTracked'
  BY <1>3 DEF Turn!TextSave
<1>4. ASSUME NEW c \in Calls, Turn!ToolInputStart(c) PROVE CallsAreTracked'
  BY <1>4 DEF Turn!ToolInputStart, Turn!Reading
<1>5. ASSUME NEW c \in Calls, Turn!ToolCall(c) PROVE CallsAreTracked'
  BY <1>5 DEF Turn!ToolCall, Turn!Reading
<1>6. ASSUME NEW c \in Calls, Turn!ToolResult(c) PROVE CallsAreTracked'
  BY <1>6 DEF Turn!ToolResult, Turn!Reading, Turn!Completed
<1>7. ASSUME NEW c \in Calls, Turn!ToolError(c) PROVE CallsAreTracked'
  BY <1>7 DEF Turn!ToolError, Turn!Reading
<1>8. ASSUME NEW c \in Calls, Turn!Write(c) PROVE CallsAreTracked'
  BY <1>8 DEF Turn!Write
<1>9. ASSUME NEW c \in Calls, Turn!Return(c) PROVE CallsAreTracked'
  BY <1>9 DEF Turn!Return
<1>10. ASSUME NEW c \in Calls, Turn!Throw(c) PROVE CallsAreTracked'
  BY <1>10 DEF Turn!Throw
<1>11. ASSUME NEW c \in Calls, Turn!ReturnCut(c) PROVE CallsAreTracked'
  BY <1>11 DEF Turn!ReturnCut, Turn!Completed
<1>12. ASSUME NEW c \in Calls, Turn!ThrowCut(c) PROVE CallsAreTracked'
  BY <1>12 DEF Turn!ThrowCut
<1>13. ASSUME Turn!Allowed PROVE CallsAreTracked'
  BY <1>13 DEF Turn!Allowed
<1>14. ASSUME Turn!StartStep PROVE CallsAreTracked'
  BY <1>14 DEF Turn!StartStep, Turn!Reading
<1>15. ASSUME Turn!FinishStep PROVE CallsAreTracked'
  BY <1>15 DEF Turn!FinishStep, Turn!Reading
<1>16. ASSUME Turn!FinishStepPatch PROVE CallsAreTracked'
  BY <1>16 DEF Turn!FinishStepPatch, Turn!Patch, StreamIsAnswered, Turn!Answered
<1>17. ASSUME Turn!Finish PROVE CallsAreTracked'
  BY <1>17 DEF Turn!Finish, Turn!Reading, StreamIsAnswered, Turn!Answered
<1>18. ASSUME Turn!Fail PROVE CallsAreTracked'
  BY <1>18 DEF Turn!Fail, Turn!Reading, Turn!Cut
<1>19. ASSUME Turn!Retry PROVE CallsAreTracked'
  BY <1>19 DEF Turn!Retry
<1>20. ASSUME Turn!Halt PROVE CallsAreTracked'
  BY <1>20 DEF Turn!Halt, Turn!Cut
<1>21. ASSUME Turn!Stop PROVE CallsAreTracked'
  BY <1>21 DEF Turn!Stop, Turn!Cut
<1>22. ASSUME Turn!CleanTexts PROVE CallsAreTracked'
  BY <1>22 DEF Turn!CleanTexts, Turn!Patch
<1>23. ASSUME Turn!CleanCalls PROVE CallsAreTracked'
  BY <1>23 DEF Turn!CleanCalls, Turn!Result
<1> QED BY <1>1, <1>2, <1>3, <1>4, <1>5, <1>6, <1>7, <1>8, <1>9, <1>10, <1>11, <1>12, <1>13,
   <1>14, <1>15, <1>16, <1>17, <1>18, <1>19, <1>20, <1>21, <1>22, <1>23 DEF Turn!Next, Turn!Cleanup

\* A stream that ends by itself has brought the end of each of its calls.
LEMMA NextStreamIsAnswered == ASSUME Sensible, TurnInv, Turn!Next PROVE StreamIsAnswered'
<1> USE DEF Sensible, TurnInv, Turn!TypeOK, CallsAreTracked, StreamIsAnswered, Awaited, Sound, Turn!Answered
<1>1. ASSUME NEW t \in Texts, Turn!TextStart(t) PROVE StreamIsAnswered'
  BY <1>1 DEF Turn!TextStart, Turn!Reading
<1>2. ASSUME NEW t \in Texts, Turn!TextEnd(t) PROVE StreamIsAnswered'
  BY <1>2 DEF Turn!TextEnd, Turn!Reading
<1>3. ASSUME NEW t \in Texts, Turn!TextSave(t) PROVE StreamIsAnswered'
  BY <1>3 DEF Turn!TextSave
<1>4. ASSUME NEW c \in Calls, Turn!ToolInputStart(c) PROVE StreamIsAnswered'
  BY <1>4 DEF Turn!ToolInputStart, Turn!Reading
<1>5. ASSUME NEW c \in Calls, Turn!ToolCall(c) PROVE StreamIsAnswered'
  BY <1>5 DEF Turn!ToolCall, Turn!Reading
<1>6. ASSUME NEW c \in Calls, Turn!ToolResult(c) PROVE StreamIsAnswered'
  BY <1>6 DEF Turn!ToolResult, Turn!Reading, Turn!Completed
<1>7. ASSUME NEW c \in Calls, Turn!ToolError(c) PROVE StreamIsAnswered'
  BY <1>7 DEF Turn!ToolError, Turn!Reading
<1>8. ASSUME NEW c \in Calls, Turn!Write(c) PROVE StreamIsAnswered'
  BY <1>8 DEF Turn!Write
<1>9. ASSUME NEW c \in Calls, Turn!Return(c) PROVE StreamIsAnswered'
  BY <1>9 DEF Turn!Return
<1>10. ASSUME NEW c \in Calls, Turn!Throw(c) PROVE StreamIsAnswered'
  BY <1>10 DEF Turn!Throw
<1>11. ASSUME NEW c \in Calls, Turn!ReturnCut(c) PROVE StreamIsAnswered'
  BY <1>11 DEF Turn!ReturnCut, Turn!Completed
<1>12. ASSUME NEW c \in Calls, Turn!ThrowCut(c) PROVE StreamIsAnswered'
  BY <1>12 DEF Turn!ThrowCut
<1>13. ASSUME Turn!Allowed PROVE StreamIsAnswered'
  BY <1>13 DEF Turn!Allowed
<1>14. ASSUME Turn!StartStep PROVE StreamIsAnswered'
  BY <1>14 DEF Turn!StartStep, Turn!Reading
<1>15. ASSUME Turn!FinishStep PROVE StreamIsAnswered'
  BY <1>15 DEF Turn!FinishStep, Turn!Reading
<1>16. ASSUME Turn!FinishStepPatch PROVE StreamIsAnswered'
  BY <1>16 DEF Turn!FinishStepPatch, Turn!Patch
<1>17. ASSUME Turn!Finish PROVE StreamIsAnswered'
  BY <1>17 DEF Turn!Finish, Turn!Reading
<1>18. ASSUME Turn!Fail PROVE StreamIsAnswered'
  BY <1>18 DEF Turn!Fail, Turn!Reading, Turn!Cut
<1>19. ASSUME Turn!Retry PROVE StreamIsAnswered'
  BY <1>19 DEF Turn!Retry
<1>20. ASSUME Turn!Halt PROVE StreamIsAnswered'
  BY <1>20 DEF Turn!Halt, Turn!Cut
<1>21. ASSUME Turn!Stop PROVE StreamIsAnswered'
  BY <1>21 DEF Turn!Stop, Turn!Cut
<1>22. ASSUME Turn!CleanTexts PROVE StreamIsAnswered'
  BY <1>22 DEF Turn!CleanTexts, Turn!Patch
<1>23. ASSUME Turn!CleanCalls PROVE StreamIsAnswered'
  BY <1>23 DEF Turn!CleanCalls, Turn!Result
<1> QED BY <1>1, <1>2, <1>3, <1>4, <1>5, <1>6, <1>7, <1>8, <1>9, <1>10, <1>11, <1>12, <1>13,
   <1>14, <1>15, <1>16, <1>17, <1>18, <1>19, <1>20, <1>21, <1>22, <1>23 DEF Turn!Next, Turn!Cleanup

\* A snapshot is taken before the calls of its step write, and lasts until they are answered.
LEMMA NextSnapshotIsOlder == ASSUME Sensible, TurnInv, Turn!Next PROVE SnapshotIsOlder'
<1> USE DEF Sensible, TurnInv, Turn!TypeOK, CallsAreTracked, SnapshotIsOlder, StreamIsAnswered, Awaited, Turn!Answered
<1>1. ASSUME NEW t \in Texts, Turn!TextStart(t) PROVE SnapshotIsOlder'
  BY <1>1 DEF Turn!TextStart, Turn!Reading
<1>2. ASSUME NEW t \in Texts, Turn!TextEnd(t) PROVE SnapshotIsOlder'
  BY <1>2 DEF Turn!TextEnd, Turn!Reading
<1>3. ASSUME NEW t \in Texts, Turn!TextSave(t) PROVE SnapshotIsOlder'
  BY <1>3 DEF Turn!TextSave
<1>4. ASSUME NEW c \in Calls, Turn!ToolInputStart(c) PROVE SnapshotIsOlder'
  BY <1>4 DEF Turn!ToolInputStart, Turn!Reading
<1>5. ASSUME NEW c \in Calls, Turn!ToolCall(c) PROVE SnapshotIsOlder'
  BY <1>5 DEF Turn!ToolCall, Turn!Reading
<1>6. ASSUME NEW c \in Calls, Turn!ToolResult(c) PROVE SnapshotIsOlder'
  BY <1>6 DEF Turn!ToolResult, Turn!Reading, Turn!Completed
<1>7. ASSUME NEW c \in Calls, Turn!ToolError(c) PROVE SnapshotIsOlder'
  BY <1>7 DEF Turn!ToolError, Turn!Reading
<1>8. ASSUME NEW c \in Calls, Turn!Write(c) PROVE SnapshotIsOlder'
  BY <1>8 DEF Turn!Write
<1>9. ASSUME NEW c \in Calls, Turn!Return(c) PROVE SnapshotIsOlder'
  BY <1>9 DEF Turn!Return
<1>10. ASSUME NEW c \in Calls, Turn!Throw(c) PROVE SnapshotIsOlder'
  BY <1>10 DEF Turn!Throw
<1>11. ASSUME NEW c \in Calls, Turn!ReturnCut(c) PROVE SnapshotIsOlder'
  BY <1>11 DEF Turn!ReturnCut, Turn!Completed
<1>12. ASSUME NEW c \in Calls, Turn!ThrowCut(c) PROVE SnapshotIsOlder'
  BY <1>12 DEF Turn!ThrowCut
<1>13. ASSUME Turn!Allowed PROVE SnapshotIsOlder'
  BY <1>13 DEF Turn!Allowed
<1>14. ASSUME Turn!StartStep PROVE SnapshotIsOlder'
  BY <1>14 DEF Turn!StartStep, Turn!Reading
<1>15. ASSUME Turn!FinishStep PROVE SnapshotIsOlder'
  BY <1>15 DEF Turn!FinishStep, Turn!Reading
<1>16. ASSUME Turn!FinishStepPatch PROVE SnapshotIsOlder'
  BY <1>16 DEF Turn!FinishStepPatch, Turn!Patch
<1>17. ASSUME Turn!Finish PROVE SnapshotIsOlder'
  BY <1>17 DEF Turn!Finish, Turn!Reading
<1>18. ASSUME Turn!Fail PROVE SnapshotIsOlder'
  BY <1>18 DEF Turn!Fail, Turn!Reading, Turn!Cut
<1>19. ASSUME Turn!Retry PROVE SnapshotIsOlder'
  BY <1>19 DEF Turn!Retry
<1>20. ASSUME Turn!Halt PROVE SnapshotIsOlder'
  BY <1>20 DEF Turn!Halt, Turn!Cut
<1>21. ASSUME Turn!Stop PROVE SnapshotIsOlder'
  BY <1>21 DEF Turn!Stop, Turn!Cut
<1>22. ASSUME Turn!CleanTexts PROVE SnapshotIsOlder'
  BY <1>22 DEF Turn!CleanTexts, Turn!Patch
<1>23. ASSUME Turn!CleanCalls PROVE SnapshotIsOlder'
  BY <1>23 DEF Turn!CleanCalls, Turn!Result
<1> QED BY <1>1, <1>2, <1>3, <1>4, <1>5, <1>6, <1>7, <1>8, <1>9, <1>10, <1>11, <1>12, <1>13,
   <1>14, <1>15, <1>16, <1>17, <1>18, <1>19, <1>20, <1>21, <1>22, <1>23 DEF Turn!Next, Turn!Cleanup

\* The patch is made before the snapshot is forgotten.
LEMMA NextPatchIsDue == ASSUME Sensible, TurnInv, Turn!Next PROVE PatchIsDue'
<1> USE DEF Sensible, TurnInv, Turn!TypeOK, CallsAreTracked, SnapshotIsOlder, PatchIsDue, Awaited
<1>1. ASSUME NEW t \in Texts, Turn!TextStart(t) PROVE PatchIsDue'
  BY <1>1 DEF Turn!TextStart, Turn!Reading
<1>2. ASSUME NEW t \in Texts, Turn!TextEnd(t) PROVE PatchIsDue'
  BY <1>2 DEF Turn!TextEnd, Turn!Reading
<1>3. ASSUME NEW t \in Texts, Turn!TextSave(t) PROVE PatchIsDue'
  BY <1>3 DEF Turn!TextSave
<1>4. ASSUME NEW c \in Calls, Turn!ToolInputStart(c) PROVE PatchIsDue'
  BY <1>4 DEF Turn!ToolInputStart, Turn!Reading
<1>5. ASSUME NEW c \in Calls, Turn!ToolCall(c) PROVE PatchIsDue'
  BY <1>5 DEF Turn!ToolCall, Turn!Reading
<1>6. ASSUME NEW c \in Calls, Turn!ToolResult(c) PROVE PatchIsDue'
  BY <1>6 DEF Turn!ToolResult, Turn!Reading, Turn!Completed
<1>7. ASSUME NEW c \in Calls, Turn!ToolError(c) PROVE PatchIsDue'
  BY <1>7 DEF Turn!ToolError, Turn!Reading
<1>8. ASSUME NEW c \in Calls, Turn!Write(c) PROVE PatchIsDue'
  BY <1>8 DEF Turn!Write
<1>9. ASSUME NEW c \in Calls, Turn!Return(c) PROVE PatchIsDue'
  BY <1>9 DEF Turn!Return
<1>10. ASSUME NEW c \in Calls, Turn!Throw(c) PROVE PatchIsDue'
  BY <1>10 DEF Turn!Throw
<1>11. ASSUME NEW c \in Calls, Turn!ReturnCut(c) PROVE PatchIsDue'
  BY <1>11 DEF Turn!ReturnCut, Turn!Completed
<1>12. ASSUME NEW c \in Calls, Turn!ThrowCut(c) PROVE PatchIsDue'
  BY <1>12 DEF Turn!ThrowCut
<1>13. ASSUME Turn!Allowed PROVE PatchIsDue'
  BY <1>13 DEF Turn!Allowed
<1>14. ASSUME Turn!StartStep PROVE PatchIsDue'
  BY <1>14 DEF Turn!StartStep, Turn!Reading
<1>15. ASSUME Turn!FinishStep PROVE PatchIsDue'
  BY <1>15 DEF Turn!FinishStep, Turn!Reading
<1>16. ASSUME Turn!FinishStepPatch PROVE PatchIsDue'
  BY <1>16 DEF Turn!FinishStepPatch, Turn!Patch
<1>17. ASSUME Turn!Finish PROVE PatchIsDue'
  BY <1>17 DEF Turn!Finish, Turn!Reading
<1>18. ASSUME Turn!Fail PROVE PatchIsDue'
  BY <1>18 DEF Turn!Fail, Turn!Reading, Turn!Cut
<1>19. ASSUME Turn!Retry PROVE PatchIsDue'
  BY <1>19 DEF Turn!Retry
<1>20. ASSUME Turn!Halt PROVE PatchIsDue'
  BY <1>20 DEF Turn!Halt, Turn!Cut
<1>21. ASSUME Turn!Stop PROVE PatchIsDue'
  BY <1>21 DEF Turn!Stop, Turn!Cut
<1>22. ASSUME Turn!CleanTexts PROVE PatchIsDue'
  BY <1>22 DEF Turn!CleanTexts, Turn!Patch
<1>23. ASSUME Turn!CleanCalls PROVE PatchIsDue'
  BY <1>23 DEF Turn!CleanCalls, Turn!Result
<1> QED BY <1>1, <1>2, <1>3, <1>4, <1>5, <1>6, <1>7, <1>8, <1>9, <1>10, <1>11, <1>12, <1>13,
   <1>14, <1>15, <1>16, <1>17, <1>18, <1>19, <1>20, <1>21, <1>22, <1>23 DEF Turn!Next, Turn!Cleanup

\* The calls that are aborted, and the result, come with the last step of cleanup.
LEMMA NextResultIsLast == ASSUME Sensible, TurnInv, Turn!Next PROVE ResultIsLast'
<1> USE DEF TurnInv, Turn!TypeOK, CallsAreTracked, ResultIsLast, Turn!Result
<1>1. ASSUME NEW t \in Texts, Turn!TextStart(t) PROVE ResultIsLast'
  BY <1>1 DEF Turn!TextStart, Turn!Reading
<1>2. ASSUME NEW t \in Texts, Turn!TextEnd(t) PROVE ResultIsLast'
  BY <1>2 DEF Turn!TextEnd, Turn!Reading
<1>3. ASSUME NEW t \in Texts, Turn!TextSave(t) PROVE ResultIsLast'
  BY <1>3 DEF Turn!TextSave
<1>4. ASSUME NEW c \in Calls, Turn!ToolInputStart(c) PROVE ResultIsLast'
  BY <1>4 DEF Turn!ToolInputStart, Turn!Reading
<1>5. ASSUME NEW c \in Calls, Turn!ToolCall(c) PROVE ResultIsLast'
  BY <1>5 DEF Turn!ToolCall, Turn!Reading
<1>6. ASSUME NEW c \in Calls, Turn!ToolResult(c) PROVE ResultIsLast'
  BY <1>6 DEF Turn!ToolResult, Turn!Reading, Turn!Completed
<1>7. ASSUME NEW c \in Calls, Turn!ToolError(c) PROVE ResultIsLast'
  BY <1>7 DEF Turn!ToolError, Turn!Reading
<1>8. ASSUME NEW c \in Calls, Turn!Write(c) PROVE ResultIsLast'
  BY <1>8 DEF Turn!Write
<1>9. ASSUME NEW c \in Calls, Turn!Return(c) PROVE ResultIsLast'
  BY <1>9 DEF Turn!Return
<1>10. ASSUME NEW c \in Calls, Turn!Throw(c) PROVE ResultIsLast'
  BY <1>10 DEF Turn!Throw
<1>11. ASSUME NEW c \in Calls, Turn!ReturnCut(c) PROVE ResultIsLast'
  BY <1>11 DEF Turn!ReturnCut, Turn!Completed
<1>12. ASSUME NEW c \in Calls, Turn!ThrowCut(c) PROVE ResultIsLast'
  BY <1>12 DEF Turn!ThrowCut
<1>13. ASSUME Turn!Allowed PROVE ResultIsLast'
  BY <1>13 DEF Turn!Allowed
<1>14. ASSUME Turn!StartStep PROVE ResultIsLast'
  BY <1>14 DEF Turn!StartStep, Turn!Reading
<1>15. ASSUME Turn!FinishStep PROVE ResultIsLast'
  BY <1>15 DEF Turn!FinishStep, Turn!Reading
<1>16. ASSUME Turn!FinishStepPatch PROVE ResultIsLast'
  BY <1>16 DEF Turn!FinishStepPatch, Turn!Patch
<1>17. ASSUME Turn!Finish PROVE ResultIsLast'
  BY <1>17 DEF Turn!Finish, Turn!Reading
<1>18. ASSUME Turn!Fail PROVE ResultIsLast'
  BY <1>18 DEF Turn!Fail, Turn!Reading, Turn!Cut
<1>19. ASSUME Turn!Retry PROVE ResultIsLast'
  BY <1>19 DEF Turn!Retry
<1>20. ASSUME Turn!Halt PROVE ResultIsLast'
  BY <1>20 DEF Turn!Halt, Turn!Cut
<1>21. ASSUME Turn!Stop PROVE ResultIsLast'
  BY <1>21 DEF Turn!Stop, Turn!Cut
<1>22. ASSUME Turn!CleanTexts PROVE ResultIsLast'
  BY <1>22 DEF Turn!CleanTexts, Turn!Patch
<1>23. ASSUME Turn!CleanCalls PROVE ResultIsLast'
  BY <1>23 DEF Turn!CleanCalls, Turn!Result
<1> QED BY <1>1, <1>2, <1>3, <1>4, <1>5, <1>6, <1>7, <1>8, <1>9, <1>10, <1>11, <1>12, <1>13,
   <1>14, <1>15, <1>16, <1>17, <1>18, <1>19, <1>20, <1>21, <1>22, <1>23 DEF Turn!Next, Turn!Cleanup

\* Only a stream that ended by itself, with no refusal that blocks, goes on.
LEMMA NextContinueIsAnswered == ASSUME Sensible, TurnInv, Turn!Next PROVE Turn!ContinueIsAnswered'
<1> USE DEF TurnInv, Turn!TypeOK, CallsAreTracked, StreamIsAnswered, ResultIsLast, Turn!ContinueIsAnswered, Sound, Turn!Answered, Turn!Result
<1>1. ASSUME NEW t \in Texts, Turn!TextStart(t) PROVE Turn!ContinueIsAnswered'
  BY <1>1 DEF Turn!TextStart, Turn!Reading
<1>2. ASSUME NEW t \in Texts, Turn!TextEnd(t) PROVE Turn!ContinueIsAnswered'
  BY <1>2 DEF Turn!TextEnd, Turn!Reading
<1>3. ASSUME NEW t \in Texts, Turn!TextSave(t) PROVE Turn!ContinueIsAnswered'
  BY <1>3 DEF Turn!TextSave
<1>4. ASSUME NEW c \in Calls, Turn!ToolInputStart(c) PROVE Turn!ContinueIsAnswered'
  BY <1>4 DEF Turn!ToolInputStart, Turn!Reading
<1>5. ASSUME NEW c \in Calls, Turn!ToolCall(c) PROVE Turn!ContinueIsAnswered'
  BY <1>5 DEF Turn!ToolCall, Turn!Reading
<1>6. ASSUME NEW c \in Calls, Turn!ToolResult(c) PROVE Turn!ContinueIsAnswered'
  BY <1>6 DEF Turn!ToolResult, Turn!Reading, Turn!Completed
<1>7. ASSUME NEW c \in Calls, Turn!ToolError(c) PROVE Turn!ContinueIsAnswered'
  BY <1>7 DEF Turn!ToolError, Turn!Reading
<1>8. ASSUME NEW c \in Calls, Turn!Write(c) PROVE Turn!ContinueIsAnswered'
  BY <1>8 DEF Turn!Write
<1>9. ASSUME NEW c \in Calls, Turn!Return(c) PROVE Turn!ContinueIsAnswered'
  BY <1>9 DEF Turn!Return
<1>10. ASSUME NEW c \in Calls, Turn!Throw(c) PROVE Turn!ContinueIsAnswered'
  BY <1>10 DEF Turn!Throw
<1>11. ASSUME NEW c \in Calls, Turn!ReturnCut(c) PROVE Turn!ContinueIsAnswered'
  BY <1>11 DEF Turn!ReturnCut, Turn!Completed
<1>12. ASSUME NEW c \in Calls, Turn!ThrowCut(c) PROVE Turn!ContinueIsAnswered'
  BY <1>12 DEF Turn!ThrowCut
<1>13. ASSUME Turn!Allowed PROVE Turn!ContinueIsAnswered'
  BY <1>13 DEF Turn!Allowed
<1>14. ASSUME Turn!StartStep PROVE Turn!ContinueIsAnswered'
  BY <1>14 DEF Turn!StartStep, Turn!Reading
<1>15. ASSUME Turn!FinishStep PROVE Turn!ContinueIsAnswered'
  BY <1>15 DEF Turn!FinishStep, Turn!Reading
<1>16. ASSUME Turn!FinishStepPatch PROVE Turn!ContinueIsAnswered'
  BY <1>16 DEF Turn!FinishStepPatch, Turn!Patch
<1>17. ASSUME Turn!Finish PROVE Turn!ContinueIsAnswered'
  BY <1>17 DEF Turn!Finish, Turn!Reading
<1>18. ASSUME Turn!Fail PROVE Turn!ContinueIsAnswered'
  BY <1>18 DEF Turn!Fail, Turn!Reading, Turn!Cut
<1>19. ASSUME Turn!Retry PROVE Turn!ContinueIsAnswered'
  BY <1>19 DEF Turn!Retry
<1>20. ASSUME Turn!Halt PROVE Turn!ContinueIsAnswered'
  BY <1>20 DEF Turn!Halt, Turn!Cut
<1>21. ASSUME Turn!Stop PROVE Turn!ContinueIsAnswered'
  BY <1>21 DEF Turn!Stop, Turn!Cut
<1>22. ASSUME Turn!CleanTexts PROVE Turn!ContinueIsAnswered'
  BY <1>22 DEF Turn!CleanTexts, Turn!Patch
<1>23. ASSUME Turn!CleanCalls PROVE Turn!ContinueIsAnswered'
  BY <1>23 DEF Turn!CleanCalls, Turn!Result
<1> QED BY <1>1, <1>2, <1>3, <1>4, <1>5, <1>6, <1>7, <1>8, <1>9, <1>10, <1>11, <1>12, <1>13,
   <1>14, <1>15, <1>16, <1>17, <1>18, <1>19, <1>20, <1>21, <1>22, <1>23 DEF Turn!Next, Turn!Cleanup

LEMMA NextTurnInv == ASSUME Sensible, TurnInv, [Turn!Next]_turnVars PROVE TurnInv'
<1>1. CASE Turn!Next
  BY <1>1, NextTurnTypeOK, NextTextsAreOpen, NextCallsAreTracked, NextStreamIsAnswered,
     NextSnapshotIsOlder, NextPatchIsDue, NextResultIsLast, NextContinueIsAnswered DEF TurnInv
<1>2. CASE UNCHANGED turnVars
  BY <1>2 DEF turnVars, TurnInv, Turn!TypeOK, RetriesAreLeft, TextsAreOpen, CallsAreTracked,
     StreamIsAnswered, SnapshotIsOlder, PatchIsDue, ResultIsLast, Turn!ContinueIsAnswered, Sound,
     Awaited, Turn!Answered
<1> QED BY <1>1, <1>2

-----------------------------------------------------------------------------
(* The theorems *)

\* The invariant that says how the parts, the texts and the patches of a turn
\* follow what its stream and its tools have done (process, handleEvent, cleanup).
THEOREM TurnInvariant == ASSUME Sensible PROVE SessionSpec => []TurnInv
<1>1. SessionInit => TurnInv
  BY InitTurnInv, Starts DEF PartsStart
<1>2. TurnInv /\ [SessionNext]_sessionVars => TurnInv'
  BY NextTurnInv, Steps DEF PartsStep
<1> QED BY <1>1, <1>2, PTL DEF SessionSpec

\* However a turn ends, its calls are settled, what was shown is saved, what was
\* answered is patched, and only a turn with nothing left open goes on (cleanup).
THEOREM Settles == ASSUME Sensible PROVE SessionSpec => []TurnSettles
<1>1. ASSUME TurnInv PROVE Turn!Settled
  BY <1>1 DEF TurnInv, Turn!TypeOK, CallsAreTracked, Turn!Settled
<1>2. ASSUME TurnInv PROVE Turn!ShownIsSaved
  BY <1>2 DEF TurnInv, TextsAreOpen, Turn!ShownIsSaved
<1>3. ASSUME TurnInv PROVE Turn!AnsweredIsPatched
  BY <1>3 DEF TurnInv, SnapshotIsOlder, PatchIsDue, Turn!AnsweredIsPatched
<1>4. TurnInv => TurnSettles
  BY <1>1, <1>2, <1>3 DEF TurnInv, TurnSettles, Turn!TurnSettles
<1> QED BY <1>4, TurnInvariant, PTL

\* A step of a turn that is over: a tool that was cut still runs, and can neither
\* settle its call again nor bring a text (completeToolCall).
LEMMA DoneStays == ASSUME TurnInv, Turn!Next, phase = "done" PROVE UNCHANGED <<part, text>>
<1>1. toolcalls = {}
  BY DEF TurnInv, CallsAreTracked
<1>2. ASSUME NEW t \in Texts, Turn!TextStart(t) \/ Turn!TextEnd(t) \/ Turn!TextSave(t) PROVE FALSE
  BY <1>2 DEF Turn!TextStart, Turn!TextEnd, Turn!TextSave, Turn!Reading
<1>3. ASSUME NEW c \in Calls,
             Turn!ToolInputStart(c) \/ Turn!ToolCall(c) \/ Turn!ToolResult(c) \/ Turn!ToolError(c)
      PROVE  FALSE
  BY <1>3 DEF Turn!ToolInputStart, Turn!ToolCall, Turn!ToolResult, Turn!ToolError, Turn!Reading
<1>4. ASSUME \/ Turn!Allowed \/ Turn!StartStep \/ Turn!FinishStep \/ Turn!FinishStepPatch
             \/ Turn!Finish \/ Turn!Fail \/ Turn!Retry \/ Turn!Halt \/ Turn!Stop \/ Turn!Cleanup
      PROVE  FALSE
  BY <1>4 DEF Turn!Allowed, Turn!StartStep, Turn!FinishStep, Turn!FinishStepPatch, Turn!Finish, Turn!Fail, Turn!Retry, Turn!Halt, Turn!Stop,
     Turn!Cleanup, Turn!CleanTexts, Turn!CleanCalls, Turn!Reading
<1>5. ASSUME NEW c \in Calls, Turn!Write(c) \/ Turn!Return(c) \/ Turn!Throw(c) \/ Turn!ReturnCut(c) \/ Turn!ThrowCut(c)
      PROVE  UNCHANGED <<part, text>>
  BY <1>1, <1>5 DEF Turn!Write, Turn!Return, Turn!Throw, Turn!ReturnCut, Turn!ThrowCut, Turn!Completed
<1> QED BY <1>2, <1>3, <1>4, <1>5 DEF Turn!Next

\* What a turn has left stays, whatever its tools do later.
THEOREM Stays == ASSUME Sensible PROVE SessionSpec => Turn!FinalStays
<1>1. TurnInv /\ [SessionNext]_sessionVars => [phase = "done" => UNCHANGED <<part, text>>]_turnVars
  BY DoneStays, Steps DEF PartsStep, turnVars
<1> QED BY <1>1, TurnInvariant, PTL DEF SessionSpec, Turn!FinalStays, Turn!vars, turnVars

-----------------------------------------------------------------------------
(* Questions, their tool calls and their dialogs, for any number of        *)
(* questions, clients and choices, whenever clients come and go, calls are *)
(* aborted and the instance is disposed.                                   *)

\* What the user chooses, a rejection and no answer yet can be told apart.
Distinct == NoAnswer \notin Asking!Results /\ Asking!Rejected \notin Choices

\* A reply that is under way finds the deferred empty, and so does a new question.
OneReply ==
    \A q \in Questions :
        /\ replying[q] # NoAnswer => deferred[q] = NoAnswer
        /\ asker[q] = "new" => deferred[q] = NoAnswer /\ replying[q] = NoAnswer

\* An event that tells the end of a question tells what the tool gets.
Told ==
    \A v \in Viewers : \A i \in DOMAIN inbox[v] :
        inbox[v][i].type = "closed" =>
            /\ inbox[v][i].result \in Asking!Results
            /\ inbox[v][i].result \in {deferred[inbox[v][i].question], replying[inbox[v][i].question]}

\* Nothing about a question comes after its end.
EndIsLast ==
    \A v \in Viewers : \A i, j \in DOMAIN inbox[v] :
        i < j /\ inbox[v][i].question = inbox[v][j].question => inbox[v][i].type = "asked"

Replied(q) == {replying[q], deferred[q]} \cap Choices # {}

\* Who has yet to hear of an answered question will hear of its end.
EndComes ==
    \A q \in Questions : \A v \in audience[q] : \A i \in DOMAIN inbox[v] :
        Replied(q) /\ inbox[v][i].question = q => Asking!Closing(v, q) # {}

AskInv ==
    /\ Asking!TypeOK
    /\ Asking!PendingIsWaited
    /\ OneReply
    /\ Told
    /\ EndIsLast
    /\ EndComes
    /\ Asking!DialogsMatch

-----------------------------------------------------------------------------
(* The events under way. *)

LEMMA AppendFacts ==
  ASSUME NEW s \in Seq(Asking!Events), NEW e \in Asking!Events
  PROVE  /\ Append(s, e) \in Seq(Asking!Events) /\ Len(s) + 1 \notin DOMAIN s
         /\ DOMAIN Append(s, e) = DOMAIN s \cup {Len(s) + 1}
         /\ \A i \in DOMAIN s : Append(s, e)[i] = s[i] /\ i < Len(s) + 1
         /\ Append(s, e)[Len(s) + 1] = e
<1>1. Len(s) \in Nat /\ DOMAIN s = 1 .. Len(s)
  BY LenProperties
<1>2. /\ Append(s, e) \in Seq(Asking!Events) /\ Len(Append(s, e)) = Len(s) + 1
      /\ \A i \in 1 .. Len(s) : Append(s, e)[i] = s[i]
      /\ Append(s, e)[Len(s) + 1] = e
  BY AppendProperties
<1>3. DOMAIN Append(s, e) = 1 .. Len(s) + 1
  BY <1>1, <1>2, LenProperties
<1> QED BY <1>1, <1>2, <1>3

LEMMA TailFacts ==
  ASSUME NEW s \in Seq(Asking!Events), s # <<>>
  PROVE  /\ Tail(s) \in Seq(Asking!Events) /\ Head(s) \in Asking!Events /\ Head(s) = s[1] /\ 1 \in DOMAIN s
         /\ DOMAIN s \subseteq Nat
         /\ \A i \in DOMAIN Tail(s) : i \in Nat /\ i + 1 \in DOMAIN s /\ Tail(s)[i] = s[i + 1]
         /\ \A j \in DOMAIN s : j # 1 => j > 1 /\ j - 1 \in DOMAIN Tail(s) /\ s[j] = Tail(s)[j - 1]
<1>1. Len(s) \in Nat /\ DOMAIN s = 1 .. Len(s) /\ Len(s) # 0
  BY LenProperties, EmptySeq
<1>2. /\ Head(s) \in Asking!Events /\ Tail(s) \in Seq(Asking!Events) /\ Len(Tail(s)) = Len(s) - 1
      /\ \A i \in 1 .. Len(Tail(s)) : Tail(s)[i] = s[i + 1]
  BY HeadTailProperties
<1>3. DOMAIN Tail(s) = 1 .. Len(s) - 1
  BY <1>1, <1>2, LenProperties
<1>4. Head(s) = s[1]
  BY <1>1
<1> QED BY <1>1, <1>2, <1>3, <1>4

LEMMA EventsKnown ==
  ASSUME Asking!TypeOK, NEW v \in Viewers, NEW i \in DOMAIN inbox[v]
  PROVE  inbox[v][i] \in Asking!Events /\ inbox[v][i].question \in Questions
<1>1. inbox[v] \in Seq(Asking!Events)
  BY DEF Asking!TypeOK
<1>2. inbox[v][i] \in Asking!Events
  BY <1>1, ElementOfSeq, LenProperties
<1> QED BY <1>2 DEF Asking!Events

\* An event that is published to those connected comes last.
LEMMA PublishAppends ==
  ASSUME inbox \in [Viewers -> Seq(Asking!Events)], NEW e \in Asking!Events, Asking!Publish(e)
  PROVE  /\ inbox' \in [Viewers -> Seq(Asking!Events)]
         /\ \A v \in Viewers \ connected : inbox'[v] = inbox[v]
         /\ \A v \in connected \cap Viewers : inbox'[v] = Append(inbox[v], e)
<1>1. \A v \in Viewers : inbox[v] \in Seq(Asking!Events) /\ Append(inbox[v], e) \in Seq(Asking!Events)
  BY AppendFacts
<1> QED BY <1>1 DEF Asking!Publish

\* Of a question that is new or pending no end is told.
LEMMA NoEndYet ==
  ASSUME Distinct, Told, Asking!PendingIsWaited, OneReply,
         NEW q \in Questions, q \in pending \/ asker[q] = "new"
  PROVE  \A v \in Viewers : Asking!Closing(v, q) = {}
BY DEF Distinct, Told, Asking!PendingIsWaited, OneReply, Asking!Closing

-----------------------------------------------------------------------------
(* The steps *)

LEMMA InitAskInv == Asking!Init => AskInv
<1> SUFFICES ASSUME Asking!Init PROVE AskInv
  OBVIOUS
<1>1. inbox \in [Viewers -> Seq(Asking!Events)]
  BY EmptySeq DEF Asking!Init
<1>2. \A v \in Viewers : DOMAIN inbox[v] = {}
  BY DEF Asking!Init
<1> QED
  BY <1>1, <1>2 DEF Asking!Init, AskInv, Asking!TypeOK, Asking!PendingIsWaited, OneReply, Told, EndIsLast, EndComes,
     Asking!DialogsMatch

LEMMA EventsTyped ==
  ASSUME NEW q \in Questions, NEW result \in Asking!Results \cup {NoAnswer}, NEW type \in {"asked", "closed"}
  PROVE  [type |-> type, question |-> q, result |-> result] \in Asking!Events
BY DEF Asking!Events

LEMMA NextAskTypeOK == ASSUME AskInv, Asking!Next PROVE Asking!TypeOK'
<1> USE DEF AskInv, Asking!TypeOK
<1>1. ASSUME NEW q \in Questions, Asking!Ask(q) PROVE Asking!TypeOK'
  <2> DEFINE e == [type |-> "asked", question |-> q, result |-> NoAnswer]
  <2>1. e \in Asking!Events /\ Asking!Publish(e)
    BY <1>1, EventsTyped DEF Asking!Ask
  <2> HIDE DEF e
  <2>2. inbox' \in [Viewers -> Seq(Asking!Events)] /\ \A v \in Viewers \ connected : inbox'[v] = inbox[v]
    BY <2>1, PublishAppends
  <2> QED BY <1>1, <2>2 DEF Asking!Ask
<1>2. ASSUME NEW q \in Questions, NEW result \in Asking!Results, Asking!Reply(q, result)
      PROVE  Asking!TypeOK'
  <2> DEFINE e == [type |-> "closed", question |-> q, result |-> result]
  <2>1. e \in Asking!Events /\ Asking!Publish(e)
    BY <1>2, EventsTyped DEF Asking!Reply
  <2> HIDE DEF e
  <2>2. inbox' \in [Viewers -> Seq(Asking!Events)] /\ \A v \in Viewers \ connected : inbox'[v] = inbox[v]
    BY <2>1, PublishAppends
  <2> QED BY <1>2, <2>2 DEF Asking!Reply
<1>3. ASSUME NEW q \in Questions, Asking!Abort(q) \/ Asking!Wait(q) \/ Asking!Give(q) \/ Asking!Return(q)
      PROVE  Asking!TypeOK'
  BY <1>3 DEF Asking!Abort, Asking!Wait, Asking!Give, Asking!Return, Asking!Complete
<1>4. CASE Asking!Dispose
  BY <1>4 DEF Asking!Dispose, Asking!Complete, Asking!Results
<1>5. ASSUME NEW v \in Viewers, Asking!Connect(v) PROVE Asking!TypeOK'
  BY <1>5 DEF Asking!Connect
<1>6. ASSUME NEW v \in Viewers, Asking!Disconnect(v) PROVE Asking!TypeOK'
  <2>1. inbox' \in [Viewers -> Seq(Asking!Events)]
    BY <1>6, EmptySeq DEF Asking!Disconnect
  <2>2. audience' \in [Questions -> SUBSET connected']
    BY <1>6 DEF Asking!Disconnect
  <2> QED BY <1>6, <2>1, <2>2 DEF Asking!Disconnect
<1>7. ASSUME NEW v \in Viewers, Asking!Receive(v) PROVE Asking!TypeOK'
  <2>1. Tail(inbox[v]) \in Seq(Asking!Events) /\ Head(inbox[v]) \in Asking!Events
    BY <1>7, TailFacts DEF Asking!Receive
  <2>2. Asking!Shown(v, Head(inbox[v])) \subseteq Questions
    BY <2>1 DEF Asking!Shown, Asking!Events
  <2> QED BY <1>7, <2>1, <2>2 DEF Asking!Receive
<1> QED BY <1>1, <1>2, <1>3, <1>4, <1>5, <1>6, <1>7 DEF Asking!Next, Asking!ServiceStep

\* The map, the deferreds, the replies and the tool calls keep in step.
LEMMA NextRequests ==
  ASSUME Distinct, AskInv, Asking!Next
  PROVE  Asking!PendingIsWaited' /\ OneReply'
<1> USE DEF AskInv, Asking!TypeOK, Asking!PendingIsWaited, OneReply, Distinct
<1>1. ASSUME NEW q \in Questions, Asking!Ask(q) PROVE Asking!PendingIsWaited' /\ OneReply'
  BY <1>1 DEF Asking!Ask
<1>2. ASSUME NEW q \in Questions, NEW result \in Asking!Results, Asking!Reply(q, result)
      PROVE  Asking!PendingIsWaited' /\ OneReply'
  BY <1>2 DEF Asking!Reply, Asking!MayReply
<1>3. ASSUME NEW q \in Questions, Asking!Abort(q) PROVE Asking!PendingIsWaited' /\ OneReply'
  BY <1>3 DEF Asking!Abort
<1>4. ASSUME NEW q \in Questions, Asking!Wait(q) \/ Asking!Give(q) \/ Asking!Return(q)
      PROVE  Asking!PendingIsWaited' /\ OneReply'
  BY <1>4 DEF Asking!Wait, Asking!Give, Asking!Return, Asking!Complete
<1>5. CASE Asking!Dispose
  BY <1>5 DEF Asking!Dispose, Asking!Complete, Asking!Results
<1>6. CASE UNCHANGED <<pending, asker, deferred, replying>>
  BY <1>6
<1> QED BY <1>1, <1>2, <1>3, <1>4, <1>5, <1>6 DEF Asking!Next, Asking!ServiceStep, Asking!Connect, Asking!Disconnect, Asking!Receive

\* What an event adds for a client that is told.
LEMMA TellsOne ==
  ASSUME AskInv, NEW e \in Asking!Events, Asking!Publish(e), NEW v \in Viewers
  PROVE  \/ inbox'[v] = inbox[v] /\ v \notin connected
         \/ \E n \in Nat :
               /\ v \in connected /\ n \notin DOMAIN inbox[v]
               /\ DOMAIN inbox'[v] = DOMAIN inbox[v] \cup {n} /\ inbox'[v][n] = e
               /\ \A i \in DOMAIN inbox[v] : inbox'[v][i] = inbox[v][i] /\ i < n
<1>1. inbox[v] \in Seq(Asking!Events) /\ Len(inbox[v]) + 1 \in Nat
  BY LenProperties DEF AskInv, Asking!TypeOK
<1>2. CASE v \in connected
  <2>1. inbox'[v] = Append(inbox[v], e)
    BY <1>2, PublishAppends DEF AskInv, Asking!TypeOK
  <2> QED BY <1>1, <1>2, <2>1, AppendFacts
<1>3. CASE v \notin connected
  BY <1>3, PublishAppends DEF AskInv, Asking!TypeOK
<1> QED BY <1>2, <1>3

\* An event comes after all others; after the end of its question none is told.
LEMMA PublishOrder ==
  ASSUME AskInv, NEW e \in Asking!Events, Asking!Publish(e), \A v \in Viewers : Asking!Closing(v, e.question) = {}
  PROVE  EndIsLast'
<1> SUFFICES ASSUME NEW v \in Viewers, NEW i \in DOMAIN inbox'[v], NEW j \in DOMAIN inbox'[v],
                    i < j, inbox'[v][i].question = inbox'[v][j].question
             PROVE  inbox'[v][i].type = "asked"
  BY DEF EndIsLast
<1>1. CASE inbox'[v] = inbox[v]
  BY <1>1 DEF AskInv, EndIsLast
<1>2. ASSUME NEW n \in Nat, n \notin DOMAIN inbox[v],
             DOMAIN inbox'[v] = DOMAIN inbox[v] \cup {n}, inbox'[v][n] = e,
             \A k \in DOMAIN inbox[v] : inbox'[v][k] = inbox[v][k] /\ k < n
      PROVE  inbox'[v][i].type = "asked"
  <2>1. inbox[v] \in Seq(Asking!Events) /\ DOMAIN inbox[v] \subseteq Nat
    BY LenProperties DEF AskInv, Asking!TypeOK
  <2>2. i \in DOMAIN inbox[v] /\ inbox'[v][i] = inbox[v][i]
    BY <1>2, <2>1
  <2>3. inbox[v][i] \in Asking!Events
    BY <2>1, <2>2, ElementOfSeq, LenProperties
  <2>4. CASE j = n
    BY <1>2, <2>2, <2>3, <2>4 DEF Asking!Closing, Asking!Events
  <2>5. CASE j # n
    BY <1>2, <2>2, <2>5 DEF AskInv, EndIsLast
  <2> QED BY <2>4, <2>5
<1> QED BY <1>1, <1>2, TellsOne

LEMMA NextEndIsLast == ASSUME Distinct, AskInv, Asking!Next PROVE EndIsLast'
<1>1. ASSUME NEW q \in Questions, Asking!Ask(q) PROVE EndIsLast'
  <2> DEFINE e == [type |-> "asked", question |-> q, result |-> NoAnswer]
  <2>1. e \in Asking!Events /\ Asking!Publish(e) /\ e.question = q
    BY <1>1, EventsTyped DEF Asking!Ask
  <2>2. \A v \in Viewers : Asking!Closing(v, q) = {}
    BY <1>1, NoEndYet DEF AskInv, Asking!Ask
  <2> HIDE DEF e
  <2> QED BY <2>1, <2>2, PublishOrder
<1>2. ASSUME NEW q \in Questions, NEW result \in Asking!Results, Asking!Reply(q, result) PROVE EndIsLast'
  <2> DEFINE e == [type |-> "closed", question |-> q, result |-> result]
  <2>1. e \in Asking!Events /\ Asking!Publish(e) /\ e.question = q
    BY <1>2, EventsTyped DEF Asking!Reply
  <2>2. \A v \in Viewers : Asking!Closing(v, q) = {}
    BY <1>2, NoEndYet DEF AskInv, Asking!Reply, Asking!MayReply
  <2> HIDE DEF e
  <2> QED BY <2>1, <2>2, PublishOrder
<1>3. ASSUME NEW v \in Viewers, Asking!Disconnect(v) PROVE EndIsLast'
  BY <1>3 DEF Asking!Disconnect, AskInv, Asking!TypeOK, EndIsLast
<1>4. ASSUME NEW v \in Viewers, Asking!Receive(v) PROVE EndIsLast'
  <2>1. inbox[v] \in Seq(Asking!Events) /\ inbox[v] # <<>>
        /\ inbox' = [inbox EXCEPT ![v] = Tail(inbox[v])] /\ inbox \in [Viewers -> Seq(Asking!Events)]
    BY <1>4 DEF Asking!Receive, AskInv, Asking!TypeOK
  <2>2. ASSUME NEW i \in DOMAIN inbox'[v], NEW j \in DOMAIN inbox'[v],
               i < j, inbox'[v][i].question = inbox'[v][j].question
        PROVE  inbox'[v][i].type = "asked"
    <3>1. /\ i \in Nat /\ j \in Nat /\ i + 1 \in DOMAIN inbox[v] /\ j + 1 \in DOMAIN inbox[v]
          /\ inbox'[v][i] = inbox[v][i + 1] /\ inbox'[v][j] = inbox[v][j + 1]
      BY <2>1, TailFacts
    <3>2. i + 1 < j + 1
      BY <2>2, <3>1
    <3> QED BY <2>2, <3>1, <3>2 DEF AskInv, EndIsLast
  <2> QED BY <2>1, <2>2 DEF AskInv, EndIsLast
<1>5. CASE inbox' = inbox
  BY <1>5 DEF AskInv, EndIsLast
<1> QED
  BY <1>1, <1>2, <1>3, <1>4, <1>5 DEF Asking!Next, Asking!ServiceStep, Asking!Wait, Asking!Give, Asking!Return, Asking!Abort, Asking!Dispose, Asking!Connect

LEMMA NextTold == ASSUME Distinct, AskInv, Asking!Next PROVE Told'
<1> USE DEF Told
<1>1. ASSUME NEW q \in Questions, Asking!Ask(q) PROVE Told'
  <2> DEFINE e == [type |-> "asked", question |-> q, result |-> NoAnswer]
  <2>1. e \in Asking!Events /\ Asking!Publish(e) /\ e.type = "asked" /\ UNCHANGED <<deferred, replying>>
    BY <1>1, EventsTyped DEF Asking!Ask
  <2> HIDE DEF e
  <2> QED BY <2>1, TellsOne DEF AskInv
<1>2. ASSUME NEW q \in Questions, NEW result \in Asking!Results, Asking!Reply(q, result) PROVE Told'
  <2> DEFINE e == [type |-> "closed", question |-> q, result |-> result]
  <2>1. /\ e \in Asking!Events /\ Asking!Publish(e) /\ e.question = q /\ e.result = result
        /\ deferred' = deferred /\ replying' = [replying EXCEPT ![q] = result]
    BY <1>2, EventsTyped DEF Asking!Reply
  <2>2. \A v \in Viewers : Asking!Closing(v, q) = {}
    BY <1>2, NoEndYet DEF AskInv, Asking!Reply, Asking!MayReply
  <2> HIDE DEF e
  <2>3. \A v \in Viewers : \A i \in DOMAIN inbox[v] :
          inbox[v][i].type = "closed" => inbox[v][i].question # q
    BY <2>2 DEF Asking!Closing
  <2>4. replying'[q] = result /\ \A p : p # q => replying'[p] = replying[p]
    BY <2>1 DEF AskInv, Asking!TypeOK
  <2> SUFFICES ASSUME NEW v \in Viewers, NEW i \in DOMAIN inbox'[v], inbox'[v][i].type = "closed"
               PROVE  /\ inbox'[v][i].result \in Asking!Results
                      /\ inbox'[v][i].result \in {deferred'[inbox'[v][i].question],
                                                  replying'[inbox'[v][i].question]}
    OBVIOUS
  <2>5. CASE i \in DOMAIN inbox[v] /\ inbox'[v][i] = inbox[v][i]
    BY <2>1, <2>3, <2>4, <2>5 DEF AskInv
  <2>6. CASE inbox'[v][i] = e
    BY <2>1, <2>4, <2>6
  <2> QED BY <2>1, <2>5, <2>6, TellsOne
<1>3. ASSUME NEW v \in Viewers, Asking!Disconnect(v) PROVE Told'
  BY <1>3 DEF Asking!Disconnect, AskInv, Asking!TypeOK
<1>4. ASSUME NEW v \in Viewers, Asking!Receive(v) PROVE Told'
  <2>1. inbox[v] \in Seq(Asking!Events) /\ inbox[v] # <<>> /\ UNCHANGED <<deferred, replying>>
        /\ inbox' = [inbox EXCEPT ![v] = Tail(inbox[v])] /\ inbox \in [Viewers -> Seq(Asking!Events)]
    BY <1>4 DEF Asking!Receive, AskInv, Asking!TypeOK
  <2>2. \A i \in DOMAIN inbox'[v] : i + 1 \in DOMAIN inbox[v] /\ inbox'[v][i] = inbox[v][i + 1]
    BY <2>1, TailFacts
  <2> QED BY <2>1, <2>2 DEF AskInv
<1>5. ASSUME NEW q \in Questions, Asking!Give(q) PROVE Told'
  <2>1. deferred[q] = NoAnswer /\ deferred'[q] = replying[q] /\ inbox' = inbox
        /\ \A p \in Questions \ {q} : deferred'[p] = deferred[p] /\ replying'[p] = replying[p]
    BY <1>5 DEF Asking!Give, Asking!Complete, AskInv, Asking!TypeOK, OneReply
  <2> QED BY <2>1, EventsKnown DEF AskInv, Distinct
<1>6. CASE Asking!Dispose
  <2>1. \A q \in pending, v \in Viewers : Asking!Closing(v, q) = {}
    BY NoEndYet DEF AskInv, Asking!TypeOK
  <2>2. inbox' = inbox /\ replying' = replying /\ \A q \in Questions \ pending : deferred'[q] = deferred[q]
    BY <1>6 DEF Asking!Dispose
  <2> QED BY <2>1, <2>2, EventsKnown DEF AskInv, Asking!Closing
<1>7. CASE UNCHANGED <<inbox, deferred, replying>>
  BY <1>7 DEF AskInv
<1> QED
  BY <1>1, <1>2, <1>3, <1>4, <1>5, <1>6, <1>7 DEF Asking!Next, Asking!ServiceStep, Asking!Wait, Asking!Return, Asking!Abort, Asking!Connect

-----------------------------------------------------------------------------
(* The dialogs of who has been connected since the question was asked. *)

\* The events about a question that are under way to a client.
About(v, q) == {i \in DOMAIN inbox[v] : inbox[v][i].question = q}

\* EndComes and DialogsMatch, of one client and one question.
Follows(v, q) ==
    /\ Replied(q) /\ About(v, q) # {} => Asking!Closing(v, q) # {}
    /\ IF q \in pending THEN (q \in dialogs[v] \/ About(v, q) # {}) /\ Asking!Closing(v, q) = {}
       ELSE Replied(q) => Asking!Closing(v, q) # {} \/ q \notin dialogs[v]

AllFollow == \A q \in Questions : \A v \in audience[q] : Follows(v, q)

LEMMA FollowsIs == AllFollow <=> EndComes /\ Asking!DialogsMatch
BY DEF AllFollow, Follows, EndComes, Asking!DialogsMatch, About, Replied

\* A client that this step sends nothing follows on, if the question is not answered now.
LEMMA FollowsOn ==
  ASSUME AskInv, NEW q \in Questions, NEW v \in audience[q],
         UNCHANGED <<inbox[v], dialogs[v]>>,
         Replied(q)' => Replied(q), q \in pending' <=> q \in pending
  PROVE  Follows(v, q)'
<1>1. Follows(v, q)
  BY FollowsIs DEF AskInv, AllFollow
<1> QED BY <1>1 DEF Follows, About, Asking!Closing

\* Neither does one whose question is gone without an answer.
LEMMA FollowsGone ==
  ASSUME NEW q, NEW v, q \notin pending', ~Replied(q)'
  PROVE  Follows(v, q)'
BY DEF Follows

\* An event changes nothing for the other questions.
LEMMA FollowsOther ==
  ASSUME AskInv, NEW e \in Asking!Events, Asking!Publish(e), NEW q \in Questions, q # e.question,
         NEW v \in audience[q], dialogs' = dialogs,
         UNCHANGED <<deferred[q], replying[q]>>, q \in pending' <=> q \in pending
  PROVE  Follows(v, q)'
<1>1. Follows(v, q) /\ v \in Viewers
  BY FollowsIs DEF AskInv, AllFollow, Asking!TypeOK
<1>2. About(v, q)' = About(v, q) /\ Asking!Closing(v, q)' = Asking!Closing(v, q)
  BY <1>1, TellsOne DEF About, Asking!Closing
<1> QED BY <1>1, <1>2 DEF Follows, Replied

LEMMA AskFollows ==
  ASSUME Distinct, AskInv, NEW p \in Questions, Asking!Ask(p) PROVE AllFollow'
<1> DEFINE e == [type |-> "asked", question |-> p, result |-> NoAnswer]
<1>1. e \in Asking!Events /\ Asking!Publish(e) /\ e.question = p /\ e.type = "asked"
  BY EventsTyped DEF Asking!Ask
<1> HIDE DEF e
<1>2. pending' = pending \cup {p} /\ audience' = [audience EXCEPT ![p] = connected]
      /\ UNCHANGED <<deferred, replying, connected, dialogs>>
  BY DEF Asking!Ask
<1> SUFFICES ASSUME NEW q \in Questions, NEW v \in audience'[q] PROVE Follows(v, q)'
  BY DEF AllFollow
<1>3. CASE q = p
  <2>1. v \in Viewers /\ v \in connected
    BY <1>2, <1>3 DEF AskInv, Asking!TypeOK
  <2>2. Asking!Closing(v, p) = {} /\ ~Replied(p)'
    <3>1. asker[p] = "new" /\ deferred'[p] = NoAnswer /\ replying'[p] = NoAnswer
      BY <1>2 DEF AskInv, Asking!Ask, OneReply
    <3>2. Asking!Closing(v, p) = {}
      BY <2>1, <3>1, NoEndYet DEF AskInv
    <3> QED BY <3>1, <3>2 DEF Replied, Distinct, Asking!Results
  <2>3. About(v, p)' # {} /\ Asking!Closing(v, p)' = {}
    BY <1>1, <2>1, <2>2, TellsOne DEF About, Asking!Closing
  <2> QED BY <1>2, <1>3, <2>2, <2>3 DEF Follows
<1>4. CASE q # p
  <2>1. v \in audience[q]
    BY <1>2, <1>4 DEF AskInv, Asking!TypeOK
  <2> QED BY <1>1, <1>2, <1>4, <2>1, FollowsOther
<1> QED BY <1>3, <1>4

LEMMA ReplyFollows ==
  ASSUME AskInv, NEW p \in Questions, NEW result \in Asking!Results, Asking!Reply(p, result) PROVE AllFollow'
<1> DEFINE e == [type |-> "closed", question |-> p, result |-> result]
<1>1. e \in Asking!Events /\ Asking!Publish(e) /\ e.question = p /\ e.type = "closed"
  BY EventsTyped DEF Asking!Reply
<1> HIDE DEF e
<1>2. pending' = pending \ {p} /\ replying' = [replying EXCEPT ![p] = result]
      /\ UNCHANGED <<deferred, audience, connected, dialogs>>
  BY DEF Asking!Reply
<1> SUFFICES ASSUME NEW q \in Questions, NEW v \in audience[q] PROVE Follows(v, q)'
  BY <1>2 DEF AllFollow
<1>3. CASE q = p
  <2>1. v \in Viewers /\ v \in connected
    BY <1>3 DEF AskInv, Asking!TypeOK
  <2>2. Asking!Closing(v, p)' # {}
    BY <1>1, <2>1, TellsOne DEF Asking!Closing
  <2> QED BY <1>2, <1>3, <2>2 DEF Follows
<1>4. CASE q # p
  <2>1. UNCHANGED <<deferred[q], replying[q]>>
    BY <1>2, <1>4 DEF AskInv, Asking!TypeOK
  <2> QED BY <1>1, <1>2, <1>4, <2>1, FollowsOther
<1> QED BY <1>3, <1>4

\* The client that receives the next event: nothing follows the end of a question.
LEMMA ReceiveFollows ==
  ASSUME AskInv, NEW v \in Viewers, Asking!Receive(v), NEW q \in Questions, v \in audience[q]
  PROVE  Follows(v, q)'
<1> DEFINE s == inbox[v]
           e == Head(s)
<1>1. /\ s \in Seq(Asking!Events) /\ s # <<>> /\ inbox'[v] = Tail(s) /\ dialogs'[v] = Asking!Shown(v, e)
      /\ UNCHANGED <<pending, deferred, replying, audience>>
  BY DEF Asking!Receive, AskInv, Asking!TypeOK
<1>2. /\ e = s[1] /\ 1 \in DOMAIN s /\ e.type \in {"asked", "closed"}
      /\ \A i \in DOMAIN Tail(s) : i \in Nat /\ i + 1 \in DOMAIN s /\ Tail(s)[i] = s[i + 1]
      /\ \A j \in DOMAIN s : j # 1 => j > 1 /\ j - 1 \in DOMAIN Tail(s) /\ s[j] = Tail(s)[j - 1]
  BY <1>1, TailFacts DEF Asking!Events
<1>3. Follows(v, q)
  BY FollowsIs DEF AskInv, AllFollow
<1> HIDE DEF s, e
<1>4. /\ \A i \in About(v, q)' : i + 1 \in About(v, q)
      /\ \A j \in About(v, q) : j # 1 => j - 1 \in About(v, q)'
      /\ 1 \in About(v, q) <=> e.question = q
  BY <1>1, <1>2 DEF About, s
<1>5. /\ \A i \in Asking!Closing(v, q)' : i + 1 \in Asking!Closing(v, q)
      /\ \A j \in Asking!Closing(v, q) : j # 1 => j - 1 \in Asking!Closing(v, q)'
      /\ 1 \in Asking!Closing(v, q) <=> e.question = q /\ e.type = "closed"
  BY <1>1, <1>2 DEF Asking!Closing, s
<1>6. CASE e.question # q
  <2>1. About(v, q)' = {} <=> About(v, q) = {}
    BY <1>4, <1>6
  <2>3. Asking!Closing(v, q)' = {} <=> Asking!Closing(v, q) = {}
    BY <1>5, <1>6
  <2>4. q \in dialogs'[v] <=> q \in dialogs[v]
    BY <1>1, <1>6 DEF Asking!Shown
  <2> QED BY <1>1, <1>3, <2>1, <2>3, <2>4 DEF Follows, Replied
<1>7. CASE e.question = q /\ e.type = "asked"
  <2>1. Asking!Closing(v, q)' = {} <=> Asking!Closing(v, q) = {}
    BY <1>5, <1>7
  <2>2. q \in dialogs'[v] /\ About(v, q) # {}
    BY <1>1, <1>4, <1>7 DEF Asking!Shown
  <2> QED BY <1>1, <1>3, <2>1, <2>2 DEF Follows, Replied
<1>8. CASE e.question = q /\ e.type = "closed"
  <2>1. Asking!Closing(v, q) # {} /\ q \notin dialogs'[v]
    BY <1>1, <1>5, <1>8 DEF Asking!Shown
  <2>2. About(v, q)' = {}
    <3> SUFFICES ASSUME NEW i \in DOMAIN Tail(s), Tail(s)[i].question = q PROVE FALSE
      BY <1>1 DEF About
    <3>1. i + 1 \in DOMAIN s /\ s[i + 1].question = q /\ 1 < i + 1
      BY <1>2, <1>1
    <3>2. s[1].type = "asked"
      BY <1>2, <1>8, <3>1 DEF AskInv, EndIsLast, s
    <3> QED BY <1>2, <1>8, <3>2
  <2> QED BY <1>1, <1>3, <2>1, <2>2 DEF Follows, Replied
<1> QED BY <1>2, <1>6, <1>7, <1>8

LEMMA NextFollows == ASSUME Distinct, AskInv, Asking!Next PROVE AllFollow'
<1>1. ASSUME NEW p \in Questions, Asking!Wait(p) \/ Asking!Return(p) \/ Asking!Abort(p) PROVE AllFollow'
  <2> SUFFICES ASSUME NEW q \in Questions, NEW v \in audience[q] PROVE Follows(v, q)'
    BY <1>1 DEF AllFollow, Asking!Wait, Asking!Return, Asking!Abort
  <2>1. /\ UNCHANGED <<inbox, dialogs, deferred, replying>>
        /\ \/ q \in pending' <=> q \in pending
           \/ q \in pending /\ q \notin pending'
    BY <1>1 DEF Asking!Wait, Asking!Return, Asking!Abort
  <2>2. q \in pending => ~Replied(q)
    BY DEF AskInv, Asking!PendingIsWaited, Replied, Distinct, Asking!Results
  <2> QED BY <2>1, <2>2, FollowsOn, FollowsGone DEF Replied
<1>2. ASSUME NEW p \in Questions, Asking!Give(p) PROVE AllFollow'
  <2> SUFFICES ASSUME NEW q \in Questions, NEW v \in audience[q] PROVE Follows(v, q)'
    BY <1>2 DEF AllFollow, Asking!Give
  <2>1. Replied(q)' => Replied(q)
    BY <1>2 DEF Asking!Give, Asking!Complete, AskInv, Asking!TypeOK, OneReply, Replied, Distinct, Asking!Results
  <2> QED BY <1>2, <2>1, FollowsOn DEF Asking!Give
<1>3. CASE Asking!Dispose
  <2> SUFFICES ASSUME NEW q \in Questions, NEW v \in audience[q] PROVE Follows(v, q)'
    BY <1>3 DEF AllFollow, Asking!Dispose
  <2>1. CASE q \in pending
    <3>1. deferred'[q] = Asking!Rejected /\ replying'[q] = NoAnswer
      BY <1>3, <2>1 DEF Asking!Dispose, Asking!Complete, AskInv, Asking!TypeOK, Asking!PendingIsWaited
    <3> QED BY <1>3, <3>1, FollowsGone DEF Asking!Dispose, Replied, Distinct, Asking!Results
  <2>2. CASE q \notin pending
    BY <1>3, <2>2, FollowsOn DEF Asking!Dispose, Replied
  <2> QED BY <2>1, <2>2
<1>4. ASSUME NEW w \in Viewers, Asking!Connect(w) PROVE AllFollow'
  BY <1>4, FollowsOn DEF AllFollow, Asking!Connect, Replied
<1>5. ASSUME NEW w \in Viewers, Asking!Disconnect(w) PROVE AllFollow'
  <2> SUFFICES ASSUME NEW q \in Questions, NEW v \in audience'[q] PROVE Follows(v, q)'
    BY DEF AllFollow
  <2>1. v \in audience[q] /\ v # w /\ v \in Viewers
    BY <1>5 DEF Asking!Disconnect, AskInv, Asking!TypeOK
  <2>2. UNCHANGED <<inbox[v], dialogs[v], pending, deferred, replying>>
    BY <1>5, <2>1 DEF Asking!Disconnect, AskInv, Asking!TypeOK
  <2> QED BY <2>1, <2>2, FollowsOn DEF Replied
<1>6. ASSUME NEW w \in Viewers, Asking!Receive(w) PROVE AllFollow'
  <2> SUFFICES ASSUME NEW q \in Questions, NEW v \in audience[q] PROVE Follows(v, q)'
    BY <1>6 DEF AllFollow, Asking!Receive
  <2>1. CASE v = w
    BY <1>6, <2>1, ReceiveFollows
  <2>2. CASE v # w
    <3>1. UNCHANGED <<inbox[v], dialogs[v], pending, deferred, replying>>
      BY <1>6, <2>2 DEF Asking!Receive, AskInv, Asking!TypeOK
    <3> QED BY <3>1, FollowsOn DEF Replied
  <2> QED BY <2>1, <2>2
<1> QED
  BY <1>1, <1>2, <1>3, <1>4, <1>5, <1>6, AskFollows, ReplyFollows DEF Asking!Next, Asking!ServiceStep

LEMMA NextAskInv == ASSUME Distinct, AskInv, [Asking!Next]_askVars PROVE AskInv'
<1>1. CASE Asking!Next
  <2>1. EndComes' /\ Asking!DialogsMatch'
    BY <1>1, NextFollows DEF AllFollow, Follows, EndComes, Asking!DialogsMatch, About, Replied
  <2> QED BY <1>1, <2>1, NextAskTypeOK, NextRequests, NextTold, NextEndIsLast DEF AskInv
<1>2. CASE UNCHANGED askVars
  <2>1. Asking!TypeOK' /\ Asking!PendingIsWaited' /\ OneReply' /\ Told' /\ EndIsLast'
    BY <1>2 DEF askVars, AskInv, Asking!TypeOK, Asking!PendingIsWaited, OneReply, Told, EndIsLast
  <2>2. AllFollow'
    BY <1>2, FollowsIs DEF askVars, AskInv, AllFollow, Follows, About, Asking!Closing, Replied
  <2> QED BY <2>1, <2>2 DEF AskInv, AllFollow, Follows, EndComes, Asking!DialogsMatch, About, Replied
<1> QED BY <1>1, <1>2

THEOREM AskInvariant == ASSUME Distinct PROVE SessionSpec => []AskInv
<1>1. SessionInit => AskInv
  BY InitAskInv, Starts DEF PartsStart
<1>2. AskInv /\ [SessionNext]_sessionVars => AskInv'
  BY NextAskInv, Steps DEF PartsStep
<1> QED BY <1>1, <1>2, PTL DEF SessionSpec

\* A client is told one end of a question: the events tell it in order.
LEMMA OneEnd == ASSUME AskInv PROVE Asking!OneAnswerTold
<1> SUFFICES ASSUME NEW v \in Viewers, NEW q \in Questions
             PROVE  /\ \A i, j \in Asking!Closing(v, q) : i = j
                    /\ \A i \in Asking!Closing(v, q) : inbox[v][i].result \in {deferred[q], replying[q]}
  BY DEF Asking!OneAnswerTold
<1>1. \A i \in Asking!Closing(v, q) : inbox[v][i].result \in {deferred[q], replying[q]}
  BY DEF AskInv, Told, Asking!Closing
<1>2. ASSUME NEW i \in Asking!Closing(v, q), NEW j \in Asking!Closing(v, q) PROVE i = j
  <2>1. i \in Nat /\ j \in Nat
    BY LenProperties DEF AskInv, Asking!TypeOK, Asking!Closing
  <2>2. ~(i < j) /\ ~(j < i)
    BY DEF AskInv, EndIsLast, Asking!Closing
  <2> QED BY <2>1, <2>2
<1> QED BY <1>1, <1>2

\* ask, reply, reject and the dialogs: what is pending is waited for, the clients
\* that stay connected hear of one end, the one the tool gets, and show a question
\* until it is answered.
THEOREM Settled == ASSUME Distinct PROVE SessionSpec => []QuestionsSettle
<1>1. AskInv => QuestionsSettle
  BY OneEnd DEF AskInv, QuestionsSettle, Asking!QuestionsSettle
<1> QED BY <1>1, AskInvariant, PTL

-----------------------------------------------------------------------------
(* Reverts, for any number of messages and files. *)

Saved == [id : Nat, role : {"user", "assistant"}, before : Undo!Snapshots, changed : SUBSET Files]

Reverts == [messageID : Nat, asked : Nat, snapshot : Undo!Snapshots]

RevertConstants == MaxMessages \in Nat /\ None \notin Undo!Snapshots /\ None \notin Reverts

\* What a call of revert has read and taken.
CallType ==
    /\ op.asked \in Nat /\ op.messageID \in Nat /\ op.patches \subseteq Saved
    /\ op.snapshot \in Undo!Snapshots \/ (op.at = "read" /\ op.snapshot = None)

\* Every answer comes after a prompt, also when a revert has removed what followed.
PromptsFirst ==
    /\ \A m \in messages : \E x \in messages : x.role = "user" /\ x.id <= m.id
    /\ busy => messages # {}

\* The snapshot is the one of the first revert.
CallInStep ==
    /\ ~busy
    /\ op.at = "restored" \/ op.patches = Undo!From(messages, op.asked)
    /\ op.at = "read" => op.snapshot = IF revert = None THEN None ELSE revert.snapshot
    /\ op.at \in {"tracked", "undone"} => op.snapshot = original
    /\ op.at = "undone" => \A f \in Files : Undo!Naming(f, op.patches) # {} =>
                              files[f] = Undo!First(Undo!Naming(f, op.patches)).before[f]

UndoInv ==
    /\ Undo!TypeOK
    /\ op.at = "idle" => op = Undo!NoOp
    /\ op.at \notin {"idle", "restored"} => CallType
    /\ revert = None \/ revert \in Reverts
    /\ PromptsFirst
    /\ quiet /\ op.at # "idle" => CallInStep
    /\ quiet /\ revert # None => ~busy /\ revert.snapshot = original
    /\ Undo!EffectsUndone
    /\ Undo!ContentRestored

LEMMA InitUndoInv == ASSUME RevertConstants, Undo!Init PROVE UndoInv
<1>1. messages = {} /\ nextId = 1 /\ busy = FALSE /\ revert = None /\ op = Undo!NoOp /\ quiet = TRUE
  BY DEF Undo!Init
<1>2. files \in Undo!Snapshots /\ original = files
  BY DEF Undo!Init, Undo!Snapshots, Undo!Contents, RevertConstants
<1>3. op.at = "idle"
  BY <1>1 DEF Undo!NoOp
<1>4. nextId \in 1..MaxMessages + 1
  BY <1>1 DEF RevertConstants
<1>5. Undo!TypeOK
  BY <1>1, <1>2, <1>3, <1>4 DEF Undo!TypeOK
<1> QED BY <1>1, <1>3, <1>5 DEF UndoInv, PromptsFirst, Undo!EffectsUndone, Undo!Reverted, Undo!ContentRestored

LEMMA FirstIs ==
  ASSUME NEW S \in SUBSET Saved, S # {}
  PROVE  Undo!First(S) \in S /\ \A m \in S : Undo!First(S).id <= m.id
<1> DEFINE Numbered == {m.id : m \in S}
<1>1. Numbered \in SUBSET Nat /\ Numbered # {}
  BY DEF Saved
<1>2. PICK n \in Numbered : \A k \in Numbered : n <= k
  <2> HIDE DEF Numbered
  <2> QED BY <1>1, Numbers!LeastOf
<1>3. PICK m \in S : m.id = n
  OBVIOUS
<1>4. \A x \in S : m.id <= x.id
  BY <1>2, <1>3
<1> QED BY <1>3, <1>4 DEF Undo!First

LEMMA LastIsSaved ==
  ASSUME UndoInv, NEW m \in messages
  PROVE  Undo!LastUser(m) \in Nat
<1> DEFINE S == {x \in Undo!Before(messages, m.id + 1) : x.role = "user"}
           Above == {n \in Nat : \A x \in S : x.id <= n}
<1>1. messages \subseteq Saved /\ m.id \in Nat
  BY DEF UndoInv, Undo!TypeOK, Saved
<1>2. PICK x \in messages : x.role = "user" /\ x.id <= m.id
  BY DEF UndoInv, PromptsFirst
<1>3. x \in S
  BY <1>1, <1>2 DEF Undo!Before, Saved
<1>4. m.id \in Above
  BY <1>1 DEF Undo!Before, Saved
<1>5. S \subseteq Saved
  BY <1>1 DEF Undo!Before
<1> HIDE DEF S
<1>6. PICK n \in Above : \A k \in Above : n <= k
  <2>1. Above \in SUBSET Nat /\ Above # {}
    BY <1>4
  <2> HIDE DEF Above
  <2> QED BY <2>1, Numbers!LeastOf
<1>7. \E y \in S : y.id = n
  <2> SUFFICES ASSUME \A y \in S : y.id # n PROVE FALSE
    OBVIOUS
  <2>1. \A y \in S : y.id \in Nat /\ y.id < n
    BY <1>5, <1>6 DEF Saved
  <2>2. n # 0 /\ n - 1 \in Nat
    BY <1>3, <2>1
  <2>3. n - 1 \in Above
    BY <2>1, <2>2
  <2> QED BY <1>6, <2>2, <2>3
<1>8. \E y \in S : \A z \in S : y.id >= z.id
  BY <1>5, <1>6, <1>7 DEF Saved
<1>9. Undo!Last(S) \in S
  BY <1>8 DEF Undo!Last
<1> QED BY <1>5, <1>9 DEF Undo!LastUser, S, Saved

-----------------------------------------------------------------------------
(* The steps *)

LEMMA NextNumber ==
  ASSUME RevertConstants, UndoInv, nextId <= MaxMessages, NEW role \in {"user", "assistant"}, NEW changed \in SUBSET Files,
         nextId' = nextId + 1, messages' \subseteq messages \cup {Undo!Message(role, changed)}
  PROVE  /\ nextId' \in 1..MaxMessages + 1
         /\ messages' \subseteq [id : 1..nextId' - 1, role : {"user", "assistant"}, before : Undo!Snapshots, changed : SUBSET Files]
<1>1. nextId \in Nat /\ nextId >= 1 /\ MaxMessages \in Nat /\ files \in Undo!Snapshots
  BY DEF UndoInv, Undo!TypeOK, RevertConstants
<1>2. 1..nextId - 1 \subseteq 1..nextId' - 1 /\ nextId \in 1..nextId' - 1
  BY <1>1
<1>3. Undo!Message(role, changed) \in [id : 1..nextId' - 1, role : {"user", "assistant"}, before : Undo!Snapshots, changed : SUBSET Files]
  BY <1>1, <1>2 DEF Undo!Message
<1>4. messages \subseteq [id : 1..nextId' - 1, role : {"user", "assistant"}, before : Undo!Snapshots, changed : SUBSET Files]
  BY <1>2 DEF UndoInv, Undo!TypeOK
<1> QED BY <1>1, <1>3, <1>4

LEMMA AfterPrompt == ASSUME RevertConstants, UndoInv, Undo!Prompt PROVE UndoInv'
<1> DEFINE m == Undo!Message("user", {})
<1>1. /\ nextId <= MaxMessages /\ nextId' = nextId + 1 /\ busy' = TRUE /\ revert' = None
      /\ quiet' = (quiet /\ op = Undo!NoOp) /\ UNCHANGED <<files, op, original>>
  BY DEF Undo!Prompt
<1>2. messages' = Undo!Cleanup \cup {m} /\ Undo!Cleanup \subseteq messages
  BY DEF Undo!Prompt, Undo!Cleanup, Undo!Before
<1>3. m.role = "user" /\ m.id = nextId /\ m.id \in Nat
  BY DEF Undo!Message, UndoInv, Undo!TypeOK
<1> HIDE DEF m
<1>4. Undo!TypeOK'
  <2>1. messages' \subseteq messages \cup {m}
    BY <1>2
  <2>2. /\ nextId' \in 1..MaxMessages + 1
        /\ messages' \subseteq [id : 1..nextId' - 1, role : {"user", "assistant"}, before : Undo!Snapshots, changed : SUBSET Files]
    BY <1>1, <2>1, NextNumber DEF m
  <2> QED BY <1>1, <2>2 DEF UndoInv, Undo!TypeOK
<1>5. PromptsFirst'
  <2>1. ASSUME NEW x \in Undo!Cleanup PROVE \E y \in Undo!Cleanup : y.role = "user" /\ y.id <= x.id
    <3>1. PICK y \in messages : y.role = "user" /\ y.id <= x.id
      BY <1>2, <2>1 DEF UndoInv, PromptsFirst
    <3>2. x.id \in Nat /\ y.id \in Nat
      BY <1>2, <2>1, <3>1 DEF UndoInv, Undo!TypeOK
    <3>3. revert # None => revert.messageID \in Nat
      BY DEF UndoInv, Reverts
    <3>4. y \in Undo!Cleanup
      BY <2>1, <3>1, <3>2, <3>3 DEF Undo!Cleanup, Undo!Before
    <3> QED BY <3>1, <3>4
  <2>2. m.id <= m.id
    BY <1>3
  <2> QED BY <1>2, <1>3, <2>1, <2>2 DEF PromptsFirst
<1>6. quiet' => op' = Undo!NoOp /\ op'.at = "idle"
  <2>1. Undo!NoOp.at = "idle"
    BY DEF Undo!NoOp
  <2>2. quiet' => op' = Undo!NoOp
    BY <1>1, Zenon
  <2> QED BY <2>1, <2>2
<1>7. (op.at \notin {"idle", "restored"} => CallType)'
  BY <1>1 DEF UndoInv, CallType
<1> QED
  BY <1>1, <1>4, <1>5, <1>6, <1>7 DEF UndoInv, Undo!EffectsUndone, Undo!Reverted, Undo!ContentRestored

LEMMA AfterStep == ASSUME RevertConstants, UndoInv, Undo!Step PROVE UndoInv'
<1>1. /\ busy /\ nextId <= MaxMessages /\ nextId' = nextId + 1 /\ quiet' = (quiet /\ op = Undo!NoOp)
      /\ UNCHANGED <<busy, revert, op, original>>
  BY DEF Undo!Step
<1>2. PICK changed \in (SUBSET Files) \ {{}} :
        /\ files' \in [Files -> {nextId, Absent} \cup {files[f] : f \in Files}]
        /\ messages' = messages \cup {Undo!Message("assistant", changed)}
  BY DEF Undo!Step
<1>3. files' \in Undo!Snapshots
  <2>1. nextId \in 0..MaxMessages
    BY <1>1 DEF UndoInv, Undo!TypeOK, RevertConstants
  <2>2. {nextId, Absent} \cup {files[f] : f \in Files} \subseteq Undo!Contents
    BY <2>1 DEF UndoInv, Undo!TypeOK, Undo!Snapshots, Undo!Contents
  <2> QED BY <1>2, <2>2 DEF Undo!Snapshots
<1> DEFINE m == Undo!Message("assistant", changed)
<1>4. m.id = nextId
  BY DEF Undo!Message
<1> HIDE DEF m
<1>5. Undo!TypeOK'
  <2>1. /\ nextId' \in 1..MaxMessages + 1
        /\ messages' \subseteq [id : 1..nextId' - 1, role : {"user", "assistant"}, before : Undo!Snapshots, changed : SUBSET Files]
    BY <1>1, <1>2, NextNumber
  <2> QED BY <1>1, <1>3, <2>1 DEF UndoInv, Undo!TypeOK
<1>6. PromptsFirst'
  <2>1. PICK x \in messages : x.role = "user"
    BY <1>1 DEF UndoInv, PromptsFirst
  <2>2. x.id <= m.id
    BY <1>4, <2>1 DEF UndoInv, Undo!TypeOK
  <2>3. messages' = messages \cup {m}
    BY <1>2 DEF m
  <2> QED BY <2>1, <2>2, <2>3 DEF UndoInv, PromptsFirst
<1>7. quiet' => op' = Undo!NoOp /\ op'.at = "idle" /\ revert' = None
  <2>1. Undo!NoOp.at = "idle"
    BY DEF Undo!NoOp
  <2>2. quiet' => quiet /\ op' = Undo!NoOp
    BY <1>1, Zenon
  <2>3. quiet => revert = None
    BY <1>1 DEF UndoInv
  <2>4. revert' = revert
    BY <1>1
  <2> QED BY <2>1, <2>2, <2>3, <2>4
<1>8. (op.at \notin {"idle", "restored"} => CallType)'
  BY <1>1 DEF UndoInv, CallType
<1> QED
  BY <1>1, <1>5, <1>6, <1>7, <1>8 DEF UndoInv, Undo!EffectsUndone, Undo!Reverted, Undo!ContentRestored

LEMMA AfterEnd == ASSUME RevertConstants, UndoInv, Undo!LoopEnds PROVE UndoInv'
<1>1. busy' = FALSE /\ UNCHANGED <<messages, nextId, files, revert, op, original, quiet>>
  BY DEF Undo!LoopEnds
<1>2. Undo!TypeOK' /\ PromptsFirst' /\ Undo!EffectsUndone' /\ Undo!ContentRestored'
  BY <1>1 DEF UndoInv, Undo!TypeOK, PromptsFirst, Undo!EffectsUndone, Undo!Reverted, Undo!ContentRestored
<1>3. (op.at \notin {"idle", "restored"} => CallType)' /\ (quiet /\ op.at # "idle" => CallInStep)'
  BY <1>1 DEF UndoInv, CallType, CallInStep
<1> QED BY <1>1, <1>2, <1>3 DEF UndoInv

LEMMA AfterRead == ASSUME RevertConstants, UndoInv, Undo!RevertRead PROVE UndoInv'
<1>1. /\ op = Undo!NoOp /\ ~busy /\ quiet' = (quiet \/ revert = None)
      /\ UNCHANGED <<messages, nextId, busy, files, revert, original>>
  BY DEF Undo!RevertRead
<1>2. PICK m \in messages :
        op' = [at |-> "read", asked |-> m.id, messageID |-> Undo!LastUser(m),
               patches |-> Undo!From(messages, m.id), snapshot |-> IF revert = None THEN None ELSE revert.snapshot]
  BY DEF Undo!RevertRead
<1>3. /\ op'.at = "read" /\ op'.asked = m.id /\ op'.messageID = Undo!LastUser(m)
      /\ op'.patches = Undo!From(messages, m.id) /\ op'.snapshot = IF revert = None THEN None ELSE revert.snapshot
  BY <1>2
<1>4. Undo!LastUser(m) \in Nat /\ m.id \in Nat /\ Undo!From(messages, m.id) \subseteq Saved
  BY LastIsSaved DEF UndoInv, Undo!TypeOK, Undo!From, Saved
<1>5. CallType'
  <2>1. op'.snapshot \in Undo!Snapshots \/ op'.snapshot = None
    BY <1>3 DEF UndoInv, Reverts
  <2> QED BY <1>3, <1>4, <2>1 DEF CallType
<1>6. CallInStep'
  <2>1. Undo!From(messages, m.id)' = Undo!From(messages, m.id)
    BY <1>1 DEF Undo!From
  <2> QED BY <1>1, <1>3 DEF CallInStep, Undo!From
<1>7. Undo!TypeOK' /\ PromptsFirst'
  BY <1>1, <1>3 DEF UndoInv, Undo!TypeOK, PromptsFirst
<1>8. op' # Undo!NoOp
  BY <1>3 DEF Undo!NoOp
<1>9. quiet' /\ revert' # None => ~busy' /\ revert'.snapshot = original'
  BY <1>1 DEF UndoInv
<1> QED
  BY <1>1, <1>3, <1>5, <1>6, <1>7, <1>8, <1>9 DEF UndoInv, Undo!EffectsUndone, Undo!Reverted, Undo!ContentRestored

\* checkout-index writes contents.
LEMMA Restored ==
  ASSUME UndoInv, NEW saved \in Undo!Snapshots, Undo!Restore(saved)
  PROVE  /\ files' \in Undo!Snapshots
         /\ \A f \in Files : saved[f] # Absent => files'[f] = saved[f]
BY DEF Undo!Restore, Undo!Snapshots, UndoInv, Undo!TypeOK

LEMMA AfterTrack == ASSUME RevertConstants, UndoInv, Undo!RevertTrack PROVE UndoInv'
<1>1. op.at = "read" /\ UNCHANGED <<messages, nextId, busy, revert, quiet>>
  BY DEF Undo!RevertTrack
<1>2. CallType
  BY <1>1 DEF UndoInv
<1>3. /\ op'.at = "tracked" /\ op'.asked = op.asked /\ op'.messageID = op.messageID /\ op'.patches = op.patches
      /\ files' \in Undo!Snapshots /\ original' \in Undo!Snapshots /\ op'.snapshot \in Undo!Snapshots
      /\ quiet => op'.snapshot = original' /\ (revert # None => revert.snapshot = original')
  <2>4. quiet => CallInStep
    BY <1>1 DEF UndoInv
  <2>1. CASE op.snapshot = None
    <3>1. op' = [op EXCEPT !.at = "tracked", !.snapshot = files] /\ original' = files /\ UNCHANGED files
      BY <2>1 DEF Undo!RevertTrack
    <3>2. files \in Undo!Snapshots
      BY DEF UndoInv, Undo!TypeOK
    <3>3. quiet => revert = None
      BY <2>1, <2>4, <1>1 DEF CallInStep, RevertConstants, UndoInv, Reverts
    <3> QED BY <3>1, <3>2, <3>3
  <2>2. CASE op.snapshot # None
    <3>1. op' = [op EXCEPT !.at = "tracked"] /\ Undo!Restore(op.snapshot) /\ UNCHANGED original
      BY <2>2 DEF Undo!RevertTrack
    <3>2. op.snapshot \in Undo!Snapshots /\ original \in Undo!Snapshots
      BY <1>2, <2>2 DEF CallType, UndoInv, Undo!TypeOK
    <3>3. files' \in Undo!Snapshots
      BY <3>1, <3>2, Restored
    <3>4. quiet => op.snapshot = original /\ (revert # None => revert.snapshot = original)
      BY <2>2, <2>4, <1>1 DEF CallInStep, UndoInv
    <3> QED BY <3>1, <3>2, <3>3, <3>4
  <2> QED BY <2>1, <2>2
<1>4. CallType'
  BY <1>2, <1>3 DEF CallType
<1>5. quiet => CallInStep'
  BY <1>1, <1>3 DEF UndoInv, CallInStep, Undo!From
<1>6. Undo!TypeOK' /\ PromptsFirst'
  BY <1>1, <1>3 DEF UndoInv, Undo!TypeOK, PromptsFirst
<1>7. op' # Undo!NoOp
  BY <1>3 DEF Undo!NoOp
<1> QED
  BY <1>1, <1>3, <1>4, <1>5, <1>6, <1>7 DEF UndoInv, Undo!EffectsUndone, Undo!Reverted, Undo!ContentRestored

LEMMA AfterFiles == ASSUME RevertConstants, UndoInv, Undo!RevertFiles PROVE UndoInv'
<1>1. /\ op.at = "tracked" /\ files' = [f \in Files |-> Undo!Undone(f, op.patches)]
      /\ op' = [op EXCEPT !.at = "undone"]
      /\ UNCHANGED <<messages, nextId, busy, revert, original, quiet>>
  BY DEF Undo!RevertFiles
<1>2. CallType
  BY <1>1 DEF UndoInv
<1>3. /\ op'.at = "undone" /\ op'.asked = op.asked /\ op'.messageID = op.messageID
      /\ op'.patches = op.patches /\ op'.snapshot = op.snapshot
  BY <1>1
<1>4. ASSUME NEW f \in Files
      PROVE  /\ Undo!Undone(f, op.patches) \in Undo!Contents
             /\ Undo!Naming(f, op.patches) # {} => Undo!Undone(f, op.patches) = Undo!First(Undo!Naming(f, op.patches)).before[f]
  <2>1. Undo!Naming(f, op.patches) \in SUBSET Saved
    BY <1>2 DEF CallType, Undo!Naming
  <2>2. Undo!Naming(f, op.patches) # {} => Undo!First(Undo!Naming(f, op.patches)) \in Saved
    BY <2>1, FirstIs
  <2>3. files[f] \in Undo!Contents
    BY DEF UndoInv, Undo!TypeOK, Undo!Snapshots
  <2> QED BY <2>2, <2>3 DEF Undo!Undone, Saved, Undo!Snapshots
<1>5. files' \in Undo!Snapshots
  BY <1>1, <1>4 DEF Undo!Snapshots
<1>6. \A f \in Files : Undo!Naming(f, op.patches) # {} => files'[f] = Undo!First(Undo!Naming(f, op.patches)).before[f]
  BY <1>1, <1>4
<1>7. CallType'
  BY <1>1, <1>2, <1>3 DEF CallType
<1>8. quiet => CallInStep'
  BY <1>1, <1>3, <1>6 DEF UndoInv, CallInStep, Undo!From, Undo!First, Undo!Naming
<1>9. Undo!TypeOK' /\ PromptsFirst'
  BY <1>1, <1>3, <1>5 DEF UndoInv, Undo!TypeOK, PromptsFirst
<1>10. op' # Undo!NoOp
  BY <1>3 DEF Undo!NoOp
<1> QED
  BY <1>1, <1>3, <1>7, <1>8, <1>9, <1>10 DEF UndoInv, Undo!EffectsUndone, Undo!Reverted, Undo!ContentRestored

LEMMA AfterRevertSave == ASSUME RevertConstants, UndoInv, Undo!RevertSave PROVE UndoInv'
<1>1. /\ op.at = "undone" /\ revert' = [messageID |-> op.messageID, asked |-> op.asked, snapshot |-> op.snapshot]
      /\ op' = Undo!NoOp /\ UNCHANGED <<messages, nextId, busy, files, original, quiet>>
  BY DEF Undo!RevertSave
<1>2. CallType /\ op'.at = "idle"
  BY <1>1 DEF UndoInv, Undo!NoOp
<1>3. revert' \in Reverts /\ revert'.asked = op.asked /\ revert'.snapshot = op.snapshot
  BY <1>1, <1>2 DEF CallType, Reverts
<1>4. quiet => CallInStep
  BY <1>1 DEF UndoInv
<1>5. Undo!EffectsUndone'
  <2>1. quiet => \A f \in Files : Undo!Naming(f, op.patches) # {} =>
                              files[f] = Undo!First(Undo!Naming(f, op.patches)).before[f]
    BY <1>1, <1>4 DEF CallInStep
  <2>2. quiet => op.patches = Undo!From(messages', revert'.asked)
    BY <1>1, <1>3, <1>4 DEF CallInStep
  <2> QED BY <1>1, <2>1, <2>2 DEF Undo!EffectsUndone, Undo!Reverted
<1>6. Undo!TypeOK' /\ PromptsFirst'
  BY <1>1, <1>2 DEF UndoInv, Undo!TypeOK, PromptsFirst
<1>7. quiet => ~busy /\ revert'.snapshot = original
  BY <1>1, <1>3, <1>4 DEF CallInStep
<1> QED
  BY <1>1, <1>2, <1>3, <1>5, <1>6, <1>7 DEF UndoInv, Undo!ContentRestored

LEMMA AfterUnrevert == ASSUME RevertConstants, UndoInv, Undo!Unrevert PROVE UndoInv'
<1>1. /\ op = Undo!NoOp /\ ~busy /\ revert # None /\ Undo!Restore(revert.snapshot) /\ op' = [at |-> "restored"]
      /\ UNCHANGED <<messages, nextId, busy, revert, original, quiet>>
  BY DEF Undo!Unrevert
<1>2. op'.at = "restored" /\ revert.snapshot \in Undo!Snapshots
  BY <1>1 DEF UndoInv, Reverts
<1>3. files' \in Undo!Snapshots /\ \A f \in Files : revert.snapshot[f] # Absent => files'[f] = revert.snapshot[f]
  BY <1>1, <1>2, Restored
<1>4. Undo!ContentRestored'
  BY <1>1, <1>3 DEF UndoInv, Undo!ContentRestored
<1>5. Undo!TypeOK' /\ PromptsFirst'
  BY <1>1, <1>2, <1>3 DEF UndoInv, Undo!TypeOK, PromptsFirst
<1>6. op' # Undo!NoOp
  BY <1>2 DEF Undo!NoOp
<1>7. CallInStep'
  BY <1>1, <1>2 DEF CallInStep
<1> QED
  BY <1>1, <1>2, <1>4, <1>5, <1>6, <1>7 DEF UndoInv, Undo!EffectsUndone, Undo!Reverted

LEMMA AfterClear == ASSUME RevertConstants, UndoInv, Undo!ClearRevert PROVE UndoInv'
<1>1. op.at = "restored" /\ revert' = None /\ op' = Undo!NoOp /\ UNCHANGED <<messages, nextId, busy, files, original, quiet>>
  BY DEF Undo!ClearRevert
<1>2. op'.at = "idle"
  BY <1>1 DEF Undo!NoOp
<1>3. Undo!TypeOK' /\ PromptsFirst'
  BY <1>1, <1>2 DEF UndoInv, Undo!TypeOK, PromptsFirst
<1> QED BY <1>1, <1>2, <1>3 DEF UndoInv, Undo!EffectsUndone, Undo!Reverted, Undo!ContentRestored

LEMMA NextUndoInv == ASSUME RevertConstants, UndoInv, [Undo!Next]_undoVars PROVE UndoInv'
<1>1. CASE UNCHANGED undoVars
  <2>1. Undo!TypeOK' /\ PromptsFirst' /\ Undo!EffectsUndone' /\ Undo!ContentRestored'
    BY <1>1 DEF undoVars, UndoInv, Undo!TypeOK, PromptsFirst, Undo!EffectsUndone, Undo!Reverted, Undo!ContentRestored
  <2>2. (op.at \notin {"idle", "restored"} => CallType)' /\ (quiet /\ op.at # "idle" => CallInStep)'
    BY <1>1 DEF undoVars, UndoInv, CallType, CallInStep
  <2> QED BY <1>1, <2>1, <2>2 DEF undoVars, UndoInv
<1>2. CASE Undo!Next
  BY <1>2, AfterPrompt, AfterStep, AfterEnd, AfterRead, AfterTrack, AfterFiles, AfterRevertSave, AfterUnrevert, AfterClear DEF Undo!Next
<1> QED BY <1>1, <1>2

\* A prompt removes just what is reverted, and its own message is new.
LEMMA StepKeepsOlder ==
  ASSUME RevertConstants, UndoInv, Undo!Next
  PROVE  messages' # messages /\ revert # None /\ revert' = None =>
           \A m \in messages : m \in messages' <=> m.id < revert.messageID
<1> SUFFICES ASSUME messages' # messages, revert # None, revert' = None, NEW m \in messages
             PROVE  m \in messages' <=> m.id < revert.messageID
  OBVIOUS
<1>1. Undo!Prompt
  BY DEF Undo!Next, Undo!Step, Undo!LoopEnds, Undo!RevertRead, Undo!RevertTrack, Undo!RevertFiles, Undo!RevertSave,
         Undo!Unrevert, Undo!ClearRevert
<1>2. messages' = Undo!Before(messages, revert.messageID) \cup {Undo!Message("user", {})}
  BY <1>1 DEF Undo!Prompt, Undo!Cleanup
<1>3. m # Undo!Message("user", {})
  <2>1. m.id \in 1..nextId - 1 /\ nextId \in Nat
    BY DEF UndoInv, Undo!TypeOK
  <2> QED BY <2>1 DEF Undo!Message
<1> QED BY <1>2, <1>3 DEF Undo!Before

LEMMA InvIsExact == ASSUME UndoInv PROVE Undo!RevertIsExact
BY DEF UndoInv, Undo!RevertIsExact

\* session/revert.ts: what reverted messages did to the files is undone as long as they are
\* reverted, and the content the files had before comes back with unrevert.
THEOREM RevertsAreExact == ASSUME RevertConstants PROVE SessionSpec => []RevertIsExact
<1>1. SessionInit => UndoInv
  BY InitUndoInv, Starts DEF PartsStart
<1>2. UndoInv /\ [SessionNext]_sessionVars => UndoInv'
  BY NextUndoInv, Steps DEF PartsStep
<1>3. UndoInv => RevertIsExact
  BY InvIsExact DEF RevertIsExact
<1> QED BY <1>1, <1>2, <1>3, PTL DEF SessionSpec

\* A prompt after a revert goes on from before the message it went back to.
LEMMA KeepsOlder == ASSUME RevertConstants PROVE SessionSpec => Undo!KeptIsOlder
<1>1. SessionInit => UndoInv
  BY InitUndoInv, Starts DEF PartsStart
<1>2. UndoInv /\ [SessionNext]_sessionVars => UndoInv'
  BY NextUndoInv, Steps DEF PartsStep
<1>3. ASSUME UndoInv, [Undo!Next]_undoVars
      PROVE  [messages' # messages /\ revert # None /\ revert' = None =>
                \A m \in messages : m \in messages' <=> m.id < revert.messageID]_undoVars
  BY <1>3, StepKeepsOlder
<1>4. [SessionNext]_sessionVars => [Undo!Next]_undoVars
  BY Steps DEF PartsStep
<1> QED BY <1>1, <1>2, <1>3, <1>4, PTL DEF SessionSpec, Undo!KeptIsOlder, Undo!rvars, undoVars

-----------------------------------------------------------------------------
(* Compaction, for any number of messages, prompts, requests and tails:    *)
(* what a turn is not shown is in the newest summary, and a run does not   *)
(* end with the summary it asked for itself.                               *)

ShortConstants == MaxCalls \in Nat

Records == [kind : Short!Asks \cup {"compaction", "turn", "summary"}, of : Nat, parent : Nat,
            finish : {"none", "tools", "stop", "error"}, error : BOOLEAN,
            tail : Nat, auto : BOOLEAN, overflow : BOOLEAN, covers : SUBSET Nat]

SoundRow(m, i) ==
    /\ m.of <= i /\ m.parent < i /\ m.tail < i /\ m.covers \subseteq 1..i
    /\ m.kind = "summary" => m.finish # "tools"
    /\ m.overflow => m.auto

SoundRows(l) == l \in Seq(Records) /\ \A i \in 1..Len(l) : SoundRow(l[i], i)

Rows == 1..Len(msgs)
Ordinary(i) == msgs[i].kind \notin {"compaction", "summary"}
Ended(i) == msgs[i].finish # "none"

\* The message j is the message i, or the repeated prompt in whose place i was left out.
StandsFor(j, i) == j = i \/ (msgs[j].kind = "replay" /\ msgs[j].of <= i /\ i < j)

Summaries == Short!Completed(DOMAIN msgs)

\* What the model is shown of the session: the messages, and what is in the newest summary.
Presented == Short!Shown \cup Short!Told(Summaries)

AllPresented == \A i \in Rows : Ordinary(i) => \E j \in Presented : StandsFor(j, i)

\* A request is newer than the summaries before its own.
Ordered == \A s, c \in Summaries : c < s => c < msgs[s].parent

\* A prompt comes between a summary and a turn, or the request that a turn has made.
Between ==
    \A t \in Rows : msgs[t].kind = "turn" \/ msgs[t].overflow =>
        \A s \in Rows : msgs[s].kind = "summary" /\ Ended(s) /\ s < t =>
            \E x \in s + 1..t - 1 : msgs[x].kind \in Short!Asks

TailsLate == \A i \in Rows : msgs[i].tail # 0 => \E a \in i + 1..Len(msgs) : ~Short!IsUser(a)

\* Up to the message n, the user has written after every answer that has no end.
Followed(n) == \A b \in 1..n : ~Short!IsUser(b) /\ ~Ended(b) => \E u \in b + 1..n : Short!IsUser(u)

AtTop ==
    /\ Len(msgs) # 0 /\ Followed(Len(msgs))
    /\ Short!Turn # 0 /\ msgs[Short!Turn].kind = "summary" /\ msgs[Short!Turn].auto =>
           \E u \in Short!Turn + 1..Len(msgs) : Short!IsUser(u)

\* Prompts and requests of the user have come since.
Later(i) == msgs[i].kind \in {"prompt", "compaction"} /\ ~msgs[i].overflow

\* The loop has read what is shown, up to the message n.
ReadTo(n) ==
    /\ n \in Rows /\ Short!Begin <= n /\ seen = Short!Begin..n
    /\ Followed(n)
    /\ \A i \in n + 1..Len(msgs) : (i = Short!Turn /\ run # "read") \/ Later(i)

AtRead ==
    /\ \E n \in Rows : ReadTo(n)
    /\ ~(/\ Short!Newest(Short!Answers(seen)) # 0
         /\ msgs[Short!Newest(Short!Answers(seen))].finish \in {"stop", "error"}
         /\ Short!Newest(Short!Users(seen)) < Short!Newest(Short!Answers(seen)))

AtStream ==
    /\ \E n \in Rows : ReadTo(n) /\ n < Short!Turn
    /\ msgs[Short!Turn].kind = "turn" /\ ~Ended(Short!Turn)

TailStart == IF task.tail = 0 THEN task.parent ELSE task.tail

AtCompact ==
    /\ task \in [request : Rows, parent : Rows, replay : {0} \cup Rows, tail : Nat]
    /\ ReadTo(task.parent) /\ Short!IsUser(task.parent) /\ task.parent < Short!Turn
    /\ msgs[Short!Turn].kind = "summary" /\ ~Ended(Short!Turn) /\ msgs[Short!Turn].parent = task.parent
    /\ msgs[Short!Turn].auto \/ task.replay # 0 => msgs[task.request].auto
    /\ msgs[task.parent].tail = 0
    /\ \A b \in Rows : ~Short!IsUser(b) /\ Ended(b) => b < task.parent
    /\ msgs[task.parent].kind = "compaction" =>
         /\ task.tail < task.parent
         /\ \A i \in 1..task.parent : Ordinary(i) =>
              \/ \E j \in msgs[Short!Turn].covers \cup (TailStart..task.parent) : StandsFor(j, i)
              \/ (task.replay # 0 /\ msgs[task.replay].of <= i)

ShortInv ==
    /\ SoundRows(msgs)
    /\ run \in {"idle", "top", "read", "stream", "compact"} /\ calls \in 0..MaxCalls
    /\ seen \subseteq Rows
    /\ run # "compact" => task = Short!NoTask
    /\ AllPresented /\ Ordered /\ Between /\ TailsLate
    /\ run = "top" => AtTop
    /\ run = "read" => AtRead
    /\ run = "stream" => AtStream
    /\ run = "compact" => AtCompact

LEMMA InitShortInv == ASSUME ShortConstants, Short!Init PROVE ShortInv
<1>1. msgs = <<>> /\ run = "idle" /\ seen = {} /\ task = Short!NoTask /\ calls = 0
  BY DEF Short!Init
<1>2. Rows = {} /\ Len(msgs) = 0 /\ DOMAIN msgs = {} /\ SoundRows(msgs)
  BY <1>1 DEF Rows, SoundRows
<1>3. AllPresented /\ Between /\ TailsLate
  BY <1>2 DEF AllPresented, Between, TailsLate
<1>4. Ordered
  BY <1>2 DEF Ordered, Summaries, Short!Completed
<1> QED BY <1>1, <1>2, <1>3, <1>4 DEF ShortInv, ShortConstants

-----------------------------------------------------------------------------
(* The newest of some messages. *)

LEMMA NewestIs ==
  ASSUME NEW n \in Nat, NEW S \in SUBSET (1..n)
  PROVE  /\ Short!Newest(S) \in 0..n
         /\ Short!Newest(S) # 0 => Short!Newest(S) \in S
         /\ \A i \in S : i <= Short!Newest(S)
         /\ S # {} => Short!Newest(S) \in S
<1> DEFINE T == {0} \cup S
<1>1. Numbers!IsFiniteSet(T) /\ T \subseteq Nat /\ T # {}
  <2>1. Numbers!IsFiniteSet(1..n)
    BY Numbers!FS_Interval
  <2>2. Numbers!IsFiniteSet(S)
    BY <2>1, Numbers!FS_Subset
  <2>3. Numbers!IsFiniteSet(S \cup {0})
    BY <2>2, Numbers!FS_AddElement
  <2>4. T = S \cup {0} /\ T \subseteq Nat /\ T # {}
    OBVIOUS
  <2> HIDE DEF T
  <2> QED BY <2>3, <2>4
<1>2. Short!Newest(S) = Numbers!Max(T)
  BY DEF Short!Newest, Short!Max, Numbers!Max
<1>3. Short!Newest(S) \in T /\ \A y \in T : y <= Short!Newest(S)
  <2> HIDE DEF T
  <2> QED BY <1>1, <1>2, Numbers!MaxOf
<1>4. PICK x : x = Short!Newest(S)
  OBVIOUS
<1>5. x \in T /\ \A i \in S : i <= x
  BY <1>3, <1>4
<1>6. (x = 0 \/ x \in S) /\ x \in 0..n
  BY <1>5
<1>7. ASSUME NEW i \in S PROVE x # 0
  <2>1. i \in 1..n /\ i <= x
    BY <1>5
  <2> QED BY <2>1
<1> QED BY <1>4, <1>5, <1>6, <1>7

LEMMA RowTypes ==
  ASSUME NEW l, SoundRows(l)
  PROVE  /\ Len(l) \in Nat /\ DOMAIN l = 1..Len(l)
         /\ \A i \in 1..Len(l) : l[i] \in Records /\ SoundRow(l[i], i)
<1>1. l \in Seq(Records)
  BY DEF SoundRows
<1>2. Len(l) \in Nat /\ DOMAIN l = 1..Len(l)
  BY <1>1, LenProperties
<1>3. \A i \in 1..Len(l) : l[i] \in Records
  BY <1>1, ElementOfSeq
<1> QED BY <1>2, <1>3 DEF SoundRows

\* The list k is l with the message m added, or in place of another.
Adds(k, l, m) == k = Append(l, m)
Puts(k, l, i, m) == k = [l EXCEPT ![i] = m]

LEMMA RowChanged ==
  ASSUME NEW l, SoundRows(l), NEW t \in 1..Len(l), NEW m \in Records, SoundRow(m, t),
         NEW k, Puts(k, l, t, m)
  PROVE  SoundRows(k) /\ Len(k) = Len(l) /\ k[t] = m /\ \A i \in 1..Len(l) : i # t => k[i] = l[i]
<1>1. PICK n \in Nat : n = Len(l)
  BY RowTypes
<1>2. DOMAIN l = 1..n /\ \A i \in 1..n : l[i] \in Records /\ SoundRow(l[i], i)
  BY <1>1, RowTypes
<1>3. k = [i \in 1..n |-> IF i = t THEN m ELSE l[i]]
  BY <1>2 DEF Puts
<1>4. k \in Seq(Records) /\ Len(k) = n
  BY <1>1, ExceptSeq DEF SoundRows, Puts
<1>5. k[t] = m /\ \A i \in 1..n : i # t => k[i] = l[i]
  BY <1>1, <1>3
<1>6. \A i \in 1..n : SoundRow(k[i], i)
  BY <1>1, <1>2, <1>5
<1> QED BY <1>1, <1>4, <1>5, <1>6 DEF SoundRows

LEMMA RowAdded ==
  ASSUME NEW l, SoundRows(l), NEW n, n = Len(l) + 1, NEW m \in Records, SoundRow(m, n), NEW k, Adds(k, l, m)
  PROVE  SoundRows(k) /\ Len(k) = n /\ k[n] = m /\ \A i \in 1..Len(l) : k[i] = l[i]
<1>1. Len(l) \in Nat
  BY RowTypes
<1>2. l \in Seq(Records) /\ \A i \in 1..Len(l) : SoundRow(l[i], i)
  BY DEF SoundRows
<1>3. k \in Seq(Records) /\ Len(k) = n /\ k[n] = m /\ \A i \in 1..Len(l) : k[i] = l[i]
  BY <1>1, <1>2, AppendProperties DEF Adds
<1>4. \A i \in 1..n : SoundRow(k[i], i)
  BY <1>1, <1>2, <1>3
<1> QED BY <1>1, <1>3, <1>4 DEF SoundRows

\* The rows of the messages.
LEMMA RowsAre ==
  ASSUME SoundRows(msgs)
  PROVE  /\ Len(msgs) \in Nat /\ DOMAIN msgs = Rows /\ Rows = 1..Len(msgs)
         /\ \A i \in Rows : msgs[i] \in Records /\ SoundRow(msgs[i], i)
BY RowTypes DEF Rows

LEMMA TurnIs ==
  ASSUME SoundRows(msgs)
  PROVE  /\ Short!Turn \in 0..Len(msgs)
         /\ Short!Turn # 0 => Short!Turn \in Rows /\ ~Short!IsUser(Short!Turn)
         /\ \A a \in Rows : ~Short!IsUser(a) => a <= Short!Turn
<1>1. Short!Answers(DOMAIN msgs) \in SUBSET (1..Len(msgs)) /\ Len(msgs) \in Nat
  BY RowsAre DEF Short!Answers
<1>2. Short!Answers(DOMAIN msgs) = {i \in Rows : ~Short!IsUser(i)}
  BY RowsAre DEF Short!Answers
<1> QED BY <1>1, <1>2, NewestIs, RowsAre DEF Short!Turn

\* The newest summary, and where the shown messages begin.
NewestSummary(c) ==
    /\ c \in Summaries /\ \A s \in Summaries : s <= c
    /\ Short!Newest(Summaries) = c /\ Short!Told(Summaries) = msgs[c].covers
    /\ Short!Begin = IF msgs[msgs[c].parent].tail = 0 THEN msgs[c].parent ELSE msgs[msgs[c].parent].tail

LEMMA SummariesAre ==
  ASSUME SoundRows(msgs)
  PROVE  /\ Summaries \subseteq Rows
         /\ \A s \in Summaries : /\ msgs[s].kind = "summary" /\ Ended(s) /\ ~Short!IsUser(s)
                                 /\ msgs[s].parent \in Rows /\ msgs[s].parent < s
                                 /\ msgs[msgs[s].parent].kind = "compaction"
<1>1. \A s \in Rows : msgs[s].parent < s
  BY RowsAre DEF SoundRow
<1> QED BY <1>1, RowsAre DEF Summaries, Short!Completed, Short!Done, Ended, Short!IsUser, Short!Asks

LEMMA BeginIs ==
  ASSUME SoundRows(msgs), Ordered
  PROVE  /\ Summaries = {} => Short!Begin = 1 /\ Short!Told(Summaries) = {}
         /\ Summaries # {} => \E c \in Summaries : NewestSummary(c) /\ Short!Begin <= msgs[c].parent
         /\ Short!Begin \in 1..Len(msgs) + 1
         /\ Short!Told(Summaries) \subseteq Rows
<1>1. CASE Summaries = {}
  <2>1. Short!Begin = 1 /\ Short!Told(Summaries) = {}
    BY <1>1 DEF Short!Begin, Short!Told, Summaries
  <2> QED BY <1>1, <2>1, RowsAre
<1>2. CASE Summaries # {}
  <2>1. Summaries \in SUBSET (1..Len(msgs)) /\ Len(msgs) \in Nat
    BY SummariesAre, RowsAre
  <2>2. PICK c \in Summaries : c = Short!Newest(Summaries) /\ \A s \in Summaries : s <= c
    BY <1>2, <2>1, NewestIs
  <2>3. msgs[c].parent \in Rows /\ msgs[c].parent < c /\ c \in Rows
    BY SummariesAre
  <2> DEFINE P == {msgs[s].parent : s \in Summaries}
  <2>4. Short!Newest(P) = msgs[c].parent
    <3>1. P \in SUBSET (1..Len(msgs)) /\ msgs[c].parent \in P
      BY SummariesAre, RowsAre
    <3>2. PICK q : q = Short!Newest(P)
      OBVIOUS
    <3>3. q \in P /\ \A i \in P : i <= q
      <4> HIDE DEF P
      <4> QED BY <3>1, <3>2, <2>1, NewestIs
    <3>4. PICK s \in Summaries : q = msgs[s].parent
      BY <3>3
    <3>5. s \in Nat /\ c \in Nat /\ q \in Nat /\ q < s /\ msgs[c].parent <= q /\ s <= c
      BY <2>1, <2>2, <3>1, <3>3, <3>4, SummariesAre, RowsAre
    <3>6. s < c => s < msgs[c].parent
      BY DEF Ordered
    <3>7. s = c
      BY <3>5, <3>6, <2>3, RowsAre
    <3> QED BY <3>2, <3>4, <3>7
  <2>5. Short!Begin = IF msgs[msgs[c].parent].tail = 0 THEN msgs[c].parent ELSE msgs[msgs[c].parent].tail
    BY <1>2, <2>4 DEF Short!Begin, Summaries
  <2>6. Short!Told(Summaries) = msgs[c].covers
    BY <1>2, <2>2 DEF Short!Told
  <2>7. msgs[msgs[c].parent].tail \in Nat /\ msgs[msgs[c].parent].tail < msgs[c].parent
    BY <2>3, RowsAre DEF Records, SoundRow
  <2>8. Short!Begin \in 1..msgs[c].parent
    BY <2>3, <2>5, <2>7, RowsAre
  <2>9. msgs[c].covers \subseteq 1..c /\ 1..c \subseteq Rows
    BY <2>3, RowsAre DEF SoundRow
  <2>10. NewestSummary(c)
    BY <2>2, <2>5, <2>6 DEF NewestSummary
  <2>11. Short!Begin \in 1..Len(msgs) + 1 /\ Short!Begin <= msgs[c].parent
    BY <2>1, <2>3, <2>8, RowsAre
  <2> QED BY <1>2, <2>6, <2>9, <2>10, <2>11
<1> QED BY <1>1, <1>2

-----------------------------------------------------------------------------
(* What a step keeps of the messages there are. *)

SameRow(i) ==
    /\ msgs'[i].kind = msgs[i].kind /\ msgs'[i].of = msgs[i].of /\ msgs'[i].parent = msgs[i].parent
    /\ msgs'[i].covers = msgs[i].covers
    /\ msgs'[i].auto = msgs[i].auto /\ msgs'[i].overflow = msgs[i].overflow

\* Messages are added, without an end, and only the ends and the tails of others change.
Extends ==
    /\ SoundRows(msgs') /\ Len(msgs) <= Len(msgs')
    /\ \A i \in Rows : SameRow(i)
    /\ \A i \in Len(msgs) + 1..Len(msgs') : msgs'[i].finish = "none" /\ msgs'[i].tail = 0

LEMMA MoreRows ==
  ASSUME SoundRows(msgs), Extends
  PROVE  /\ Len(msgs') \in Nat /\ DOMAIN msgs' = Rows' /\ Rows' = 1..Len(msgs') /\ Rows \subseteq Rows'
         /\ Rows' = Rows \cup (Len(msgs) + 1..Len(msgs'))
         /\ \A i \in Rows : (Short!IsUser(i)' <=> Short!IsUser(i)) /\ (Ordinary(i)' <=> Ordinary(i))
<1>1. Len(msgs) \in Nat /\ Rows = 1..Len(msgs)
  BY RowsAre
<1>2. Len(msgs') \in Nat /\ DOMAIN msgs' = 1..Len(msgs') /\ Len(msgs) <= Len(msgs')
  BY RowTypes DEF Extends
<1>3. \A i \in Rows : msgs'[i].kind = msgs[i].kind
  BY DEF Extends, SameRow
<1>4. Rows' = 1..Len(msgs')
  BY DEF Rows
<1>5. \A i \in Rows : Short!IsUser(i)' <=> Short!IsUser(i)
  BY <1>3 DEF Short!IsUser
<1>6. \A i \in Rows : Ordinary(i)' <=> Ordinary(i)
  BY <1>3 DEF Ordinary
<1> QED BY <1>1, <1>2, <1>4, <1>5, <1>6

\* No message becomes a summary, or ceases to be one.
LEMMA SameSummaries ==
  ASSUME SoundRows(msgs), Ordered, Extends,
         \A i \in Rows : msgs[i].parent \in Rows /\ msgs[msgs[i].parent].kind = "compaction" =>
            (Short!Done(i)' <=> Short!Done(i)),
         \A c \in Summaries : msgs'[msgs[c].parent].tail = msgs[msgs[c].parent].tail
  PROVE  Summaries' = Summaries /\ Short!Begin' = Short!Begin /\ Short!Told(Summaries)' = Short!Told(Summaries)
<1>1. \A i \in Rows' \ Rows : ~Short!Done(i)'
  BY MoreRows DEF Extends, Short!Done
<1>2. \A i \in Rows : msgs[i].parent < i /\ msgs[i].parent \in Nat /\ i \in Nat
  BY RowsAre DEF SoundRow, Records
<1>3. \A i \in Rows : msgs[i].parent \in Rows' => msgs[i].parent \in Rows
  BY <1>2, MoreRows, RowsAre
<1>4. Summaries' = {i \in Rows' : Short!Done(i)' /\ msgs'[i].parent \in Rows' /\ msgs'[msgs'[i].parent].kind = "compaction"}
  BY MoreRows DEF Summaries, Short!Completed
<1>5. Summaries = {i \in Rows : Short!Done(i) /\ msgs[i].parent \in Rows /\ msgs[msgs[i].parent].kind = "compaction"}
  BY RowsAre DEF Summaries, Short!Completed
<1>6. \A i \in Rows : msgs'[i].parent = msgs[i].parent /\ msgs'[i].kind = msgs[i].kind /\ i \in Rows'
  BY MoreRows DEF Extends, SameRow
<1>7. Summaries' = Summaries
  <2>1. ASSUME NEW i \in Summaries' PROVE i \in Summaries
    BY <1>1, <1>3, <1>4, <1>5, <1>6, <2>1
  <2>2. ASSUME NEW i \in Summaries PROVE i \in Summaries'
    BY <1>4, <1>5, <1>6, <2>2
  <2> QED BY <2>1, <2>2
<1>8. CASE Summaries = {}
  <2>1. Short!Told(Summaries)' = {} /\ Short!Begin' = 1
    BY <1>7, <1>8 DEF Short!Told, Short!Begin, Summaries
  <2> QED BY <1>7, <1>8, <2>1, BeginIs
<1>9. CASE Summaries # {}
  <2>1. PICK c \in Summaries : NewestSummary(c)
    BY <1>9, BeginIs
  <2>2. Short!Newest(Summaries)' = c
    BY <1>7, <2>1 DEF NewestSummary, Short!Newest, Short!Max
  <2>3. c \in Rows /\ msgs'[c].covers = msgs[c].covers
    BY SummariesAre DEF Extends, SameRow
  <2>4. Short!Told(Summaries)' = Short!Told(Summaries)
    BY <1>7, <1>9, <2>1, <2>2, <2>3 DEF NewestSummary, Short!Told
  <2> DEFINE P == {msgs[s].parent : s \in Summaries}
  <2>5. {msgs'[s].parent : s \in Summaries'} = P
    BY <1>6, <1>7, SummariesAre
  <2>6. Short!Begin = LET q == Short!Newest(P) IN IF msgs[q].tail = 0 THEN q ELSE msgs[q].tail
    BY <1>9 DEF Short!Begin, Summaries
  <2>7. Short!Begin' = LET q == Short!Newest(P) IN IF msgs'[q].tail = 0 THEN q ELSE msgs'[q].tail
    <3>1. Short!Begin' = LET q == Short!Newest({msgs'[s].parent : s \in Summaries'})
                         IN IF msgs'[q].tail = 0 THEN q ELSE msgs'[q].tail
      <4>1. Summaries' # {}
        BY <1>7, <1>9
      <4> QED BY <4>1 DEF Short!Begin, Summaries, Short!Newest, Short!Max
    <3> HIDE DEF P
    <3> QED BY <2>5, <3>1
  <2>8. P \in SUBSET (1..Len(msgs)) /\ P # {} /\ Len(msgs) \in Nat
    BY <1>9, SummariesAre, RowsAre
  <2>9. Short!Newest(P) \in P
    <3> HIDE DEF P
    <3> QED BY <2>8, NewestIs
  <2>10. msgs'[Short!Newest(P)].tail = msgs[Short!Newest(P)].tail
    BY <2>9
  <2> HIDE DEF P
  <2>11. Short!Begin' = Short!Begin
    BY <2>6, <2>7, <2>10
  <2> QED BY <1>7, <2>4, <2>11
<1> QED BY <1>8, <1>9

LEMMA StillPresented ==
  ASSUME SoundRows(msgs), Ordered, AllPresented, Extends,
         Summaries' = Summaries, Short!Begin' = Short!Begin, Short!Told(Summaries)' = Short!Told(Summaries)
  PROVE  AllPresented' /\ Ordered'
<1>1. Short!Told(Summaries) \subseteq Rows /\ Short!Begin \in 1..Len(msgs) + 1 /\ Len(msgs) \in Nat /\ Len(msgs') \in Nat
  BY BeginIs, RowsAre, MoreRows
<1>2. Len(msgs) <= Len(msgs')
  BY DEF Extends
<1>3. Presented' = (Short!Begin..Len(msgs')) \cup Short!Told(Summaries)
  BY DEF Presented, Short!Shown
<1>4. Presented = (Short!Begin..Len(msgs)) \cup Short!Told(Summaries)
  BY DEF Presented, Short!Shown
<1>5. Presented \subseteq Presented' /\ Presented \subseteq Rows
  BY <1>1, <1>2, <1>3, <1>4, RowsAre
<1>6. ASSUME NEW i \in Rows', Ordinary(i)' PROVE \E j \in Presented' : StandsFor(j, i)'
  <2>1. CASE i \in Rows
    <3>1. PICK j \in Presented : StandsFor(j, i)
      BY <1>6, <2>1, MoreRows DEF AllPresented
    <3>2. j \in Rows /\ msgs'[j].kind = msgs[j].kind /\ msgs'[j].of = msgs[j].of
      BY <1>5 DEF Extends, SameRow
    <3> QED BY <1>5, <3>1, <3>2 DEF StandsFor
  <2>2. CASE i \notin Rows
    <3>1. i \in Short!Begin..Len(msgs')
      BY <1>1, <2>2, MoreRows
    <3> QED BY <1>3, <3>1 DEF StandsFor
  <2> QED BY <2>1, <2>2
<1>7. Ordered'
  <2>1. \A s \in Summaries : msgs'[s].parent = msgs[s].parent
    BY SummariesAre DEF Extends, SameRow
  <2> QED BY <2>1 DEF Ordered
<1> QED BY <1>6, <1>7 DEF AllPresented

LEMMA StillBetween ==
  ASSUME SoundRows(msgs), Between, Extends,
         \A s \in Rows : msgs[s].kind = "summary" /\ Ended(s)' /\ ~Ended(s) =>
            \A t \in Rows : t > s => msgs[t].kind # "turn" /\ ~msgs[t].overflow,
         \A t \in Rows' \ Rows : msgs'[t].kind = "turn" \/ msgs'[t].overflow =>
            \A s \in Rows : msgs[s].kind = "summary" /\ Ended(s)' =>
               \E x \in s + 1..Len(msgs) : msgs[x].kind \in Short!Asks
  PROVE  Between'
<1> SUFFICES ASSUME NEW t \in Rows', msgs'[t].kind = "turn" \/ msgs'[t].overflow,
                    NEW s \in Rows', msgs'[s].kind = "summary" /\ Ended(s)' /\ s < t
             PROVE  \E x \in s + 1..t - 1 : msgs'[x].kind \in Short!Asks
  BY DEF Between
<1>1. Rows = 1..Len(msgs) /\ Len(msgs) \in Nat /\ Rows' = Rows \cup (Len(msgs) + 1..Len(msgs')) /\ Len(msgs') \in Nat
  BY RowsAre, MoreRows
<1>2. s \in Rows
  BY <1>1 DEF Extends, Ended
<1>3. \A i \in Rows : msgs'[i].kind = msgs[i].kind /\ msgs'[i].overflow = msgs[i].overflow
  BY DEF Extends, SameRow
<1>4. CASE t \in Rows
  <2>1. msgs[t].kind = "turn" \/ msgs[t].overflow
    BY <1>3, <1>4
  <2>2. msgs[s].kind = "summary" /\ Ended(s)
    BY <1>1, <1>2, <1>3, <1>4, <2>1
  <2>3. PICK x \in s + 1..t - 1 : msgs[x].kind \in Short!Asks
    BY <1>2, <1>4, <2>1, <2>2 DEF Between
  <2>4. x \in Rows
    BY <1>1, <1>2, <1>4
  <2> QED BY <1>3, <2>3, <2>4
<1>5. CASE t \notin Rows
  <2>1. PICK x \in s + 1..Len(msgs) : msgs[x].kind \in Short!Asks
    BY <1>2, <1>3, <1>5
  <2>2. x \in Rows /\ x \in s + 1..t - 1
    BY <1>1, <1>2, <1>5
  <2> QED BY <1>3, <2>1, <2>2
<1> QED BY <1>4, <1>5

LEMMA StillLate ==
  ASSUME SoundRows(msgs), TailsLate, Extends,
         \A i \in Rows : msgs'[i].tail # msgs[i].tail => \E a \in i + 1..Len(msgs) : ~Short!IsUser(a)
  PROVE  TailsLate'
<1> SUFFICES ASSUME NEW i \in Rows', msgs'[i].tail # 0 PROVE \E a \in i + 1..Len(msgs') : ~Short!IsUser(a)'
  BY DEF TailsLate
<1>1. Rows = 1..Len(msgs) /\ Len(msgs) \in Nat /\ Rows' = Rows \cup (Len(msgs) + 1..Len(msgs')) /\ Len(msgs') \in Nat
  BY RowsAre, MoreRows
<1>2. i \in Rows
  BY <1>1 DEF Extends
<1>3. PICK a \in i + 1..Len(msgs) : ~Short!IsUser(a)
  BY <1>2 DEF TailsLate
<1>4. a \in Rows /\ a \in i + 1..Len(msgs')
  BY <1>1, <1>2 DEF Extends
<1> QED BY <1>3, <1>4, MoreRows

LEMMA TurnStays ==
  ASSUME SoundRows(msgs), Extends, \A i \in Rows' \ Rows : Short!IsUser(i)'
  PROVE  Short!Turn' = Short!Turn
<1>1. Short!Answers(DOMAIN msgs)' = {i \in Rows' : ~Short!IsUser(i)'}
  BY MoreRows DEF Short!Answers
<1>2. Short!Answers(DOMAIN msgs) = {i \in Rows : ~Short!IsUser(i)}
  BY RowsAre DEF Short!Answers
<1>3. Short!Answers(DOMAIN msgs)' = Short!Answers(DOMAIN msgs)
  BY <1>1, <1>2, MoreRows
<1> QED BY <1>3 DEF Short!Turn, Short!Newest, Short!Max

LEMMA TurnIsAdded ==
  ASSUME SoundRows(msgs), Extends, NEW n, n = Len(msgs) + 1, Len(msgs') = n, ~Short!IsUser(n)'
  PROVE  Short!Turn' = n
<1> DEFINE S == {i \in Rows' : ~Short!IsUser(i)'}
<1>1. n \in Nat /\ n \in 1..n
  BY RowsAre
<1>2. S \in SUBSET (1..n) /\ n \in S
  BY <1>1, MoreRows
<1>3. Short!Answers(DOMAIN msgs)' = S
  BY MoreRows DEF Short!Answers
<1>4. Short!Turn' = Short!Newest(S)
  BY <1>3 DEF Short!Turn, Short!Newest, Short!Max
<1> HIDE DEF S
<1>5. PICK q : q = Short!Newest(S)
  OBVIOUS
<1>6. q \in 0..n /\ n <= q
  BY <1>1, <1>2, <1>5, NewestIs
<1> QED BY <1>1, <1>4, <1>5, <1>6

\* A message without an end is added.
LEMMA AppendKeeps ==
  ASSUME ShortInv, NEW n, n = Len(msgs) + 1, NEW m \in Records, SoundRow(m, n), m.finish = "none", m.tail = 0,
         msgs' = Append(msgs, m),
         m.kind = "turn" \/ m.overflow =>
            \A s \in Rows : msgs[s].kind = "summary" /\ Ended(s) =>
               \E x \in s + 1..Len(msgs) : msgs[x].kind \in Short!Asks
  PROVE  /\ Extends /\ SoundRows(msgs') /\ Len(msgs') = n /\ msgs'[n] = m
         /\ \A i \in Rows : msgs'[i] = msgs[i]
         /\ Summaries' = Summaries /\ Short!Begin' = Short!Begin /\ Short!Told(Summaries)' = Short!Told(Summaries)
         /\ AllPresented' /\ Ordered' /\ Between' /\ TailsLate'
<1>1. SoundRows(msgs)
  BY DEF ShortInv
<1>2. Len(msgs) \in Nat /\ Rows = 1..Len(msgs)
  BY <1>1, RowsAre
<1>3. SoundRows(msgs') /\ Len(msgs') = n /\ msgs'[n] = m /\ \A i \in Rows : msgs'[i] = msgs[i]
  <2>1. Adds(msgs', msgs, m)
    BY DEF Adds
  <2> QED BY <1>1, <1>2, <2>1, RowAdded
<1>4. \A i \in Rows : SameRow(i)
  BY <1>3 DEF SameRow
<1>5. Extends
  BY <1>2, <1>3, <1>4 DEF Extends
<1>6. \A i \in Rows : (Short!Done(i)' <=> Short!Done(i)) /\ (Ended(i)' <=> Ended(i))
  BY <1>3 DEF Short!Done, Ended
<1>7. \A c \in Summaries : msgs'[msgs[c].parent].tail = msgs[msgs[c].parent].tail
  BY <1>1, <1>3, SummariesAre
<1>8. Summaries' = Summaries /\ Short!Begin' = Short!Begin /\ Short!Told(Summaries)' = Short!Told(Summaries)
  BY <1>1, <1>5, <1>6, <1>7, SameSummaries DEF ShortInv
<1>9. AllPresented' /\ Ordered'
  BY <1>1, <1>5, <1>8, StillPresented DEF ShortInv
<1>10. Between'
  <2>1. \A t \in Rows' \ Rows : msgs'[t] = m
    BY <1>1, <1>2, <1>3, <1>5, MoreRows
  <2> QED BY <1>1, <1>5, <1>6, <2>1, StillBetween DEF ShortInv
<1>11. TailsLate'
  BY <1>1, <1>3, <1>5, StillLate DEF ShortInv
<1> QED BY <1>2, <1>3, <1>5, <1>8, <1>9, <1>10, <1>11

\* What was read stays read when a message is added.
LEMMA StillRead ==
  ASSUME SoundRows(msgs), Extends, NEW n, ReadTo(n), Short!Begin' = Short!Begin, seen' = seen,
         \A i \in Rows : msgs'[i] = msgs[i],
         run # "read" => run' # "read" /\ Short!Turn' = Short!Turn,
         \A i \in Rows' \ Rows : (i = Short!Turn' /\ run' # "read") \/ Later(i)'
  PROVE  ReadTo(n)'
<1>1. Rows = 1..Len(msgs) /\ Len(msgs) \in Nat /\ Rows' = Rows \cup (Len(msgs) + 1..Len(msgs')) /\ Len(msgs') \in Nat
  BY RowsAre, MoreRows
<1>2. n \in Rows /\ n \in Nat /\ 1..n \subseteq Rows
  BY <1>1 DEF ReadTo
<1>3. Followed(n)'
  <2> SUFFICES ASSUME NEW b \in 1..n, ~Short!IsUser(b)', ~Ended(b)' PROVE \E u \in b + 1..n : Short!IsUser(u)'
    BY DEF Followed
  <2>1. ~Short!IsUser(b) /\ ~Ended(b)
    BY <1>2 DEF Short!IsUser, Ended
  <2>2. PICK u \in b + 1..n : Short!IsUser(u)
    BY <2>1 DEF ReadTo, Followed
  <2>3. u \in Rows
    BY <1>2
  <2> QED BY <2>2, <2>3 DEF Short!IsUser
<1>4. ASSUME NEW i \in n + 1..Len(msgs') PROVE (i = Short!Turn' /\ run' # "read") \/ Later(i)'
  <2>1. CASE i \in Rows
    <3>1. i \in n + 1..Len(msgs)
      BY <1>1, <1>2, <2>1
    <3> QED BY <2>1, <3>1 DEF ReadTo, Later
  <2>2. CASE i \notin Rows
    <3>1. i \in Rows'
      BY <1>1, <1>2
    <3> QED BY <2>2, <3>1
  <2> QED BY <2>1, <2>2
<1>5. n \in Rows' /\ Short!Begin' <= n /\ seen' = Short!Begin'..n
  BY <1>1, <1>2 DEF ReadTo
<1> QED BY <1>3, <1>4, <1>5 DEF ReadTo

-----------------------------------------------------------------------------
(* The messages that are added. *)

LEMMA UserRecord ==
  ASSUME NEW kind \in Short!Asks \cup {"compaction"}, NEW of \in Nat, NEW m, m = Short!User(kind, of)
  PROVE  /\ m \in Records /\ m.kind = kind /\ m.of = of /\ m.parent = 0 /\ m.finish = "none"
         /\ m.tail = 0 /\ m.covers = {} /\ ~m.auto /\ ~m.overflow
<1>1. kind \in Short!Asks \cup {"compaction", "turn", "summary"}
  OBVIOUS
<1> QED BY <1>1 DEF Short!User, Records

LEMMA RequestRecord ==
  ASSUME NEW auto \in BOOLEAN, NEW overflow \in BOOLEAN, NEW m, m = Short!Request(auto, overflow)
  PROVE  /\ m \in Records /\ m.kind = "compaction" /\ m.of = 0 /\ m.parent = 0 /\ m.finish = "none"
         /\ m.tail = 0 /\ m.covers = {} /\ (m.auto <=> auto) /\ (m.overflow <=> overflow)
BY DEF Short!Request, Short!User, Records

-----------------------------------------------------------------------------
(* The user writes, or the loop asks for a compaction. *)

LEMMA TopAfterUser ==
  ASSUME SoundRows(msgs), Extends, NEW n, n = Len(msgs'), n = Len(msgs) + 1, Short!IsUser(n)'
  PROVE  AtTop'
<1>1. n \in Nat /\ n # 0 /\ Len(msgs) \in Nat /\ Rows' = 1..n
  BY RowsAre, MoreRows
<1>2. Followed(Len(msgs))'
  <2> SUFFICES ASSUME NEW b \in 1..n, ~Short!IsUser(b)' PROVE \E u \in b + 1..n : Short!IsUser(u)'
    BY DEF Followed
  <2>1. b # n
    OBVIOUS
  <2> QED BY <1>1, <2>1
<1>3. \E u \in Short!Turn' + 1..n : Short!IsUser(u)'
  <2>1. Rows' \ Rows = {n}
    <3>1. Rows = 1..n - 1
      BY <1>1 DEF Rows
    <3> QED BY <1>1, <3>1
  <2>2. Short!Turn' = Short!Turn
    BY <2>1, TurnStays
  <2>3. Short!Turn \in 0..n - 1
    BY <1>1, TurnIs
  <2>4. n \in Short!Turn' + 1..n
    BY <1>1, <2>2, <2>3
  <2> QED BY <2>4
<1> QED BY <1>2, <1>3 DEF AtTop

\* What was known of the messages that were read does not change.
LEMMA StillAtRead ==
  ASSUME SoundRows(msgs), seen \subseteq Rows, Extends, AtRead, run = "read", Short!Begin' = Short!Begin, seen' = seen, run' = run,
         Short!Turn' = Short!Turn, \A i \in Rows : msgs'[i] = msgs[i], \A i \in Rows' \ Rows : Later(i)'
  PROVE  AtRead'
<1>1. PICK n \in Rows : ReadTo(n)
  BY DEF AtRead
<1>2. ReadTo(n)' /\ n \in Rows'
  BY <1>1, StillRead, MoreRows
<1>3. seen \subseteq Rows
  OBVIOUS
<1>4. Short!Answers(seen)' = Short!Answers(seen) /\ Short!Users(seen)' = Short!Users(seen)
  BY <1>3 DEF Short!Answers, Short!Users, Short!IsUser
<1>5. /\ Short!Newest(Short!Answers(seen))' = Short!Newest(Short!Answers(seen))
      /\ Short!Newest(Short!Users(seen))' = Short!Newest(Short!Users(seen))
  BY <1>4 DEF Short!Newest, Short!Max
<1>6. CASE Short!Newest(Short!Answers(seen)) = 0
  BY <1>2, <1>5, <1>6 DEF AtRead
<1>7. CASE Short!Newest(Short!Answers(seen)) # 0
  <2>1. Short!Newest(Short!Answers(seen)) \in Rows
    <3>1. Short!Answers(seen) \in SUBSET (1..Len(msgs)) /\ Len(msgs) \in Nat
      BY <1>3, RowsAre DEF Short!Answers
    <3> QED BY <1>7, <3>1, NewestIs, RowsAre
  <2>2. msgs'[Short!Newest(Short!Answers(seen))].finish = msgs[Short!Newest(Short!Answers(seen))].finish
    BY <2>1
  <2> QED BY <1>2, <1>5, <2>2 DEF AtRead
<1> QED BY <1>6, <1>7

LEMMA StillAtStream ==
  ASSUME SoundRows(msgs), Extends, AtStream, Short!Begin' = Short!Begin, seen' = seen, run' = run,
         Short!Turn' = Short!Turn, \A i \in Rows : msgs'[i] = msgs[i], \A i \in Rows' \ Rows : Later(i)'
  PROVE  AtStream'
<1>1. PICK n \in Rows : ReadTo(n) /\ n < Short!Turn
  BY DEF AtStream
<1>2. ReadTo(n)' /\ n \in Rows'
  BY <1>1, StillRead, MoreRows
<1>3. Short!Turn \in Rows
  BY <1>1, TurnIs, RowsAre
<1>4. msgs'[Short!Turn] = msgs[Short!Turn]
  BY <1>3
<1> QED BY <1>1, <1>2, <1>4 DEF AtStream, Ended

LEMMA StillAtCompact ==
  ASSUME SoundRows(msgs), Extends, AtCompact, Short!Begin' = Short!Begin, seen' = seen, run' = run, task' = task,
         Short!Turn' = Short!Turn, \A i \in Rows : msgs'[i] = msgs[i], \A i \in Rows' \ Rows : Later(i)'
  PROVE  AtCompact'
<1>1. ReadTo(task.parent) /\ task.parent \in Rows /\ task.request \in Rows /\ task.replay \in {0} \cup Rows
  BY DEF AtCompact
<1>2. ReadTo(task.parent)'
  BY <1>1, StillRead
<1>3. Short!Turn \in Rows /\ Rows = 1..Len(msgs) /\ Len(msgs) \in Nat /\ Rows \subseteq Rows'
  BY <1>1, TurnIs, RowsAre, MoreRows DEF AtCompact
<1>4. /\ msgs'[Short!Turn] = msgs[Short!Turn] /\ msgs'[task.parent] = msgs[task.parent]
      /\ msgs'[task.request] = msgs[task.request] /\ (task.replay # 0 => msgs'[task.replay] = msgs[task.replay])
  BY <1>1, <1>3
<1>5. task' \in [request : Rows', parent : Rows', replay : {0} \cup Rows', tail : Nat]
  BY <1>3 DEF AtCompact
<1>6. Short!IsUser(task.parent)'
  BY <1>4 DEF AtCompact, Short!IsUser
<1>7. \A b \in Rows' : ~Short!IsUser(b)' /\ Ended(b)' => b < task.parent
  <2> SUFFICES ASSUME NEW b \in Rows', ~Short!IsUser(b)', Ended(b)' PROVE b < task.parent
    OBVIOUS
  <2>1. b \in Rows
    BY DEF Later, Short!IsUser, Short!Asks
  <2>2. ~Short!IsUser(b) /\ Ended(b)
    BY <2>1 DEF Short!IsUser, Ended
  <2> QED BY <2>1, <2>2 DEF AtCompact
<1>8. ASSUME msgs[task.parent].kind = "compaction", NEW i \in 1..task.parent, Ordinary(i)'
      PROVE  \/ \E j \in msgs'[Short!Turn].covers \cup (TailStart..task.parent) : StandsFor(j, i)'
             \/ (task.replay # 0 /\ msgs'[task.replay].of <= i)
  <2>1. i \in Rows /\ Ordinary(i)
    BY <1>1, <1>3, <1>8 DEF Ordinary
  <2>2. CASE task.replay # 0 /\ msgs[task.replay].of <= i
    BY <1>4, <2>2
  <2>3. CASE \E j \in msgs[Short!Turn].covers \cup (TailStart..task.parent) : StandsFor(j, i)
    <3>1. PICK j \in msgs[Short!Turn].covers \cup (TailStart..task.parent) : StandsFor(j, i)
      BY <2>3
    <3>2. msgs[Short!Turn].covers \subseteq Rows
      <4>1. msgs[Short!Turn].covers \subseteq 1..Short!Turn
        BY <1>3, RowsAre DEF SoundRow
      <4> QED BY <1>3, <4>1
    <3>3. CASE j \in Rows
      BY <1>4, <3>1, <3>3 DEF StandsFor
    <3>4. CASE j \notin Rows
      <4>1. j \in TailStart..task.parent
        BY <3>1, <3>2, <3>4
      <4>2. j <= task.parent /\ j \in Int
        BY <4>1
      <4>3. j = i \/ i < j
        BY <3>1 DEF StandsFor
      <4> QED BY <1>1, <1>3, <2>1, <3>4, <4>2, <4>3
    <3> QED BY <3>3, <3>4
  <2> QED BY <1>8, <2>1, <2>2, <2>3 DEF AtCompact
<1>9. msgs'[task.parent].kind = "compaction" =>
         /\ task.tail < task.parent
         /\ \A i \in 1..task.parent : Ordinary(i)' =>
              \/ \E j \in msgs'[Short!Turn].covers \cup (TailStart'..task.parent) : StandsFor(j, i)'
              \/ (task.replay # 0 /\ msgs'[task.replay].of <= i)
  <2>1. TailStart' = TailStart
    BY DEF TailStart
  <2> QED BY <1>4, <1>8, <2>1 DEF AtCompact
<1>10. /\ task.parent < Short!Turn
       /\ msgs'[Short!Turn].kind = "summary" /\ ~Ended(Short!Turn)' /\ msgs'[Short!Turn].parent = task.parent
       /\ msgs'[task.parent].tail = 0
  BY <1>4 DEF AtCompact, Ended
<1>11. msgs'[Short!Turn].auto \/ task.replay # 0 => msgs'[task.request].auto
  BY <1>4 DEF AtCompact
<1> QED BY <1>2, <1>5, <1>6, <1>7, <1>9, <1>10, <1>11 DEF AtCompact

LEMMA UserWrites ==
  ASSUME ShortInv, NEW n, n = Len(msgs) + 1, NEW m \in Records, SoundRow(m, n), m.finish = "none", m.tail = 0,
         m.kind \in {"prompt", "compaction"}, ~m.overflow, msgs' = Append(msgs, m),
         run' = "top" \/ (run \in {"read", "stream", "compact"} /\ run' = run), run' # "compact" => run # "compact",
         seen' = seen, task' = task, calls' \in 0..MaxCalls
  PROVE  ShortInv'
<1>1. SoundRows(msgs) /\ seen \subseteq Rows
  BY DEF ShortInv
<1>2. /\ Extends /\ SoundRows(msgs') /\ Len(msgs') = n /\ msgs'[n] = m
      /\ \A i \in Rows : msgs'[i] = msgs[i]
      /\ Short!Begin' = Short!Begin
      /\ AllPresented' /\ Ordered' /\ Between' /\ TailsLate'
  <2>1. ~(m.kind = "turn" \/ m.overflow)
    OBVIOUS
  <2> QED BY <2>1, AppendKeeps
<1>3. Rows' \ Rows = {n} /\ Rows \subseteq Rows'
  BY <1>1, <1>2, RowsAre, MoreRows
<1>4. Later(n)' /\ Short!IsUser(n)'
  BY <1>2 DEF Later, Short!IsUser, Short!Asks
<1>5. Short!Turn' = Short!Turn /\ \A i \in Rows' \ Rows : Later(i)'
  BY <1>1, <1>2, <1>3, <1>4, TurnStays
<1>6. run' = "top" => AtTop'
  BY <1>1, <1>2, <1>4, TopAfterUser
<1>7. run' = "read" => AtRead'
  BY <1>1, <1>2, <1>5, StillAtRead DEF ShortInv
<1>8. run' = "stream" => AtStream'
  BY <1>1, <1>2, <1>5, StillAtStream DEF ShortInv
<1>9. run' = "compact" => AtCompact'
  BY <1>1, <1>2, <1>5, StillAtCompact DEF ShortInv
<1>10. run' \in {"top", "read", "stream", "compact"} /\ (run' # "compact" => task' = Short!NoTask) /\ seen' \subseteq Rows'
  BY <1>1, <1>3 DEF ShortInv, Short!NoTask
<1> QED BY <1>2, <1>6, <1>7, <1>8, <1>9, <1>10 DEF ShortInv

LEMMA AfterSave ==
  ASSUME ShortConstants, ShortInv, Short!Prompt \/ \E auto \in BOOLEAN : Short!Summarize(auto)
  PROVE  ShortInv'
<1>1. PICK m : /\ Short!SaveAndLoop(m)
               /\ m = Short!User("prompt", Len(msgs) + 1) \/ \E auto \in BOOLEAN : m = Short!Request(auto, FALSE)
  BY DEF Short!Prompt, Short!Summarize
<1>2. /\ msgs' = Append(msgs, m) /\ run' = (IF run = "idle" THEN "top" ELSE run)
      /\ seen' = seen /\ task' = task /\ calls < MaxCalls /\ calls' = calls + 1
  BY <1>1 DEF Short!SaveAndLoop
<1>3. PICK n \in Nat : n = Len(msgs) + 1
  BY RowsAre DEF ShortInv
<1>4. /\ m \in Records /\ m.kind \in {"prompt", "compaction"} /\ m.of <= n /\ m.parent = 0 /\ m.finish = "none"
      /\ m.tail = 0 /\ m.covers = {} /\ ~m.overflow
  <2>1. CASE m = Short!User("prompt", Len(msgs) + 1)
    <3>1. m = Short!User("prompt", n)
      BY <1>3, <2>1, Zenon
    <3>2. "prompt" \in Short!Asks \cup {"compaction"}
      BY DEF Short!Asks
    <3>3. /\ m \in Records /\ m.kind = "prompt" /\ m.of = n /\ m.parent = 0 /\ m.finish = "none"
          /\ m.tail = 0 /\ m.covers = {} /\ ~m.auto /\ ~m.overflow
      BY <1>3, <3>1, <3>2, UserRecord
    <3> QED BY <3>3
  <2>2. CASE \E auto \in BOOLEAN : m = Short!Request(auto, FALSE)
    <3>1. PICK auto \in BOOLEAN : m = Short!Request(auto, FALSE)
      BY <2>2
    <3>2. /\ m \in Records /\ m.kind = "compaction" /\ m.of = 0 /\ m.parent = 0 /\ m.finish = "none"
          /\ m.tail = 0 /\ m.covers = {} /\ ~m.overflow
      BY <3>1, RequestRecord
    <3> QED BY <3>2
  <2> QED BY <1>1, <2>1, <2>2
<1>5. SoundRow(m, n)
  <2>1. n > 0
    BY <1>3, RowsAre DEF ShortInv
  <2> QED BY <1>4, <2>1 DEF SoundRow
<1>6. calls' \in 0..MaxCalls
  BY <1>2 DEF ShortInv, ShortConstants
<1>7. run' = "top" \/ (run \in {"read", "stream", "compact"} /\ run' = run)
  BY <1>2 DEF ShortInv
<1>8. run' # "compact" => run # "compact"
  BY <1>2
<1> QED BY <1>2, <1>3, <1>4, <1>5, <1>6, <1>7, <1>8, UserWrites

LEMMA AfterCreate == ASSUME ShortInv, Short!CreateAfterTurn PROVE ShortInv'
<1>1. /\ run = "read" /\ run' = "top" /\ msgs' = Append(msgs, Short!Request(TRUE, FALSE))
      /\ seen' = seen /\ task' = task /\ calls' = calls
  BY DEF Short!CreateAfterTurn
<1>2. PICK n \in Nat : n = Len(msgs) + 1 /\ n > 0
  BY RowsAre DEF ShortInv
<1>3. PICK m : m = Short!Request(TRUE, FALSE)
  OBVIOUS
<1>4. /\ m \in Records /\ m.kind = "compaction" /\ m.of = 0 /\ m.parent = 0 /\ m.finish = "none"
      /\ m.tail = 0 /\ m.covers = {} /\ ~m.overflow
  BY <1>3, RequestRecord
<1>5. SoundRow(m, n)
  BY <1>2, <1>4 DEF SoundRow
<1>6. calls' \in 0..MaxCalls
  BY <1>1 DEF ShortInv
<1> QED BY <1>1, <1>2, <1>3, <1>4, <1>5, <1>6, UserWrites

-----------------------------------------------------------------------------
(* The loop reads what is shown, and starts a turn. *)

LEMMA SameMessages ==
  ASSUME ShortInv, msgs' = msgs
  PROVE  /\ SoundRows(msgs') /\ Rows' = Rows /\ Short!Begin' = Short!Begin
         /\ AllPresented' /\ Ordered' /\ Between' /\ TailsLate'
<1>1. SoundRows(msgs) /\ Rows' = Rows /\ Len(msgs) \in Nat
  BY RowsAre DEF ShortInv, Rows
<1>2. Extends
  BY <1>1 DEF Extends, SameRow
<1>3. \A i \in Rows : (Short!Done(i)' <=> Short!Done(i)) /\ (Ended(i)' <=> Ended(i))
  BY DEF Short!Done, Ended
<1>4. Summaries' = Summaries /\ Short!Begin' = Short!Begin /\ Short!Told(Summaries)' = Short!Told(Summaries)
  BY <1>1, <1>2, <1>3, SameSummaries DEF ShortInv
<1>5. AllPresented' /\ Ordered'
  BY <1>1, <1>2, <1>4, StillPresented DEF ShortInv
<1>6. Between'
  BY <1>1, <1>2, <1>3, StillBetween DEF ShortInv
<1>7. TailsLate'
  BY <1>1, <1>2, StillLate DEF ShortInv
<1> QED BY <1>1, <1>4, <1>5, <1>6, <1>7

LEMMA AfterExit == ASSUME ShortInv, Short!Exit PROVE ShortInv'
<1>1. run = "top" /\ run' = "idle" /\ msgs' = msgs /\ seen' = seen /\ task' = task /\ calls' = calls
  BY DEF Short!Exit
<1>2. seen' \subseteq Rows' /\ task' = Short!NoTask' /\ calls' \in 0..MaxCalls
  BY <1>1, SameMessages DEF ShortInv, Short!NoTask
<1> QED BY <1>1, <1>2, SameMessages DEF ShortInv

LEMMA AfterShortRead == ASSUME ShortInv, Short!Read PROVE ShortInv'
<1>1. /\ run = "top" /\ ~Short!ExitCheck /\ seen' = Short!Shown /\ run' = "read"
      /\ msgs' = msgs /\ task' = task /\ calls' = calls
  BY DEF Short!Read
<1>2. PICK n \in Nat : n = Len(msgs) /\ n # 0 /\ Rows = 1..n
  BY <1>1, RowsAre DEF ShortInv, AtTop
<1>3. Short!Begin <= n /\ Short!Begin \in 1..n + 1
  <2>1. Summaries = {} \/ \E c \in Summaries : Short!Begin <= msgs[c].parent /\ msgs[c].parent \in Rows
    BY BeginIs, SummariesAre DEF ShortInv
  <2> QED BY <1>2, <2>1, BeginIs DEF ShortInv
<1>4. seen' = Short!Begin..n /\ seen' \subseteq Rows
  BY <1>1, <1>2, <1>3 DEF Short!Shown
<1>5. ReadTo(n)'
  <2>1. Followed(n)'
    BY <1>1, <1>2 DEF ShortInv, AtTop, Followed, Short!IsUser, Ended
  <2>2. n \in Rows' /\ Short!Begin' = Short!Begin /\ Len(msgs') = n
    BY <1>1, <1>2, SameMessages
  <2> QED BY <1>2, <1>3, <1>4, <2>1, <2>2 DEF ReadTo
<1>6. AtRead'
  <2>1. /\ Short!Answers(seen)' = Short!Answers(Short!Shown) /\ Short!Users(seen)' = Short!Users(Short!Shown)
    BY <1>1 DEF Short!Answers, Short!Users, Short!IsUser
  <2>2. /\ Short!Newest(Short!Answers(seen))' = Short!Newest(Short!Answers(Short!Shown))
        /\ Short!Newest(Short!Users(seen))' = Short!Newest(Short!Users(Short!Shown))
    BY <2>1 DEF Short!Newest, Short!Max
  <2>3. ~(/\ Short!Newest(Short!Answers(Short!Shown)) # 0
          /\ msgs[Short!Newest(Short!Answers(Short!Shown))].finish \in {"stop", "error"}
          /\ Short!Newest(Short!Users(Short!Shown)) < Short!Newest(Short!Answers(Short!Shown)))
    BY <1>1 DEF Short!ExitCheck
  <2>4. n \in Rows'
    BY <1>2, SameMessages, <1>1
  <2> QED BY <1>1, <1>5, <2>2, <2>3, <2>4 DEF AtRead
<1>7. seen' \subseteq Rows' /\ task' = Short!NoTask' /\ calls' \in 0..MaxCalls
  BY <1>1, <1>4, SameMessages DEF ShortInv, Short!NoTask
<1> QED BY <1>1, <1>6, <1>7, SameMessages DEF ShortInv

\* The messages that were read, when the loop has not yet answered.
LEMMA ReadFacts ==
  ASSUME SoundRows(msgs), Ordered, run = "read", NEW n, ReadTo(n)
  PROVE  /\ n \in Nat /\ n \in Rows /\ seen = Short!Begin..n /\ Short!Begin \in 1..n /\ seen \in SUBSET (1..n)
         /\ \A a \in Rows : ~Short!IsUser(a) => a <= n
         /\ Summaries # {} => \E c \in seen : NewestSummary(c) /\ msgs[c].parent \in seen
<1>1. n \in Rows /\ seen = Short!Begin..n /\ Short!Begin <= n /\ Rows = 1..Len(msgs) /\ Len(msgs) \in Nat
  BY RowsAre DEF ReadTo
<1>2. Short!Begin \in 1..Len(msgs) + 1
  BY BeginIs
<1>3. ASSUME NEW a \in Rows, ~Short!IsUser(a) PROVE a <= n
  <2>1. a \in n + 1..Len(msgs) => Later(a)
    BY DEF ReadTo
  <2>2. ~Later(a)
    BY <1>3 DEF Later, Short!IsUser, Short!Asks
  <2> QED BY <1>1, <2>1, <2>2
<1>4. ASSUME Summaries # {} PROVE \E c \in seen : NewestSummary(c) /\ msgs[c].parent \in seen
  <2>1. PICK c \in Summaries : NewestSummary(c) /\ Short!Begin <= msgs[c].parent
    BY <1>4, BeginIs
  <2>2. c \in Rows /\ msgs[c].parent \in Rows /\ msgs[c].parent < c /\ c <= n
    BY <1>3, SummariesAre
  <2>3. c \in seen /\ msgs[c].parent \in seen
    BY <1>1, <1>2, <2>1, <2>2
  <2> QED BY <2>1, <2>3
<1> QED BY <1>1, <1>2, <1>3, <1>4

\* When no request is pending, a prompt was written after every summary.
LEMMA PromptSince ==
  ASSUME ShortInv, run = "read", Short!Pending = {},
         NEW s \in Rows, msgs[s].kind = "summary" /\ Ended(s)
  PROVE  \E x \in s + 1..Len(msgs) : msgs[x].kind \in Short!Asks
<1>1. PICK n \in Rows : ReadTo(n)
  BY DEF ShortInv, AtRead
<1>2. SoundRows(msgs) /\ Ordered /\ Rows = 1..Len(msgs) /\ Len(msgs) \in Nat
  BY RowsAre DEF ShortInv
<1>3. /\ n \in Nat /\ seen = Short!Begin..n /\ Short!Begin \in 1..n /\ seen \in SUBSET (1..n) /\ seen \subseteq Rows
      /\ \A a \in Rows : ~Short!IsUser(a) => a <= n
      /\ Summaries # {} => \E c \in seen : NewestSummary(c) /\ msgs[c].parent \in seen
  BY <1>1, <1>2, ReadFacts DEF ShortInv
<1> DEFINE S == {i \in Rows : msgs[i].kind = "summary" /\ Ended(i)}
<1>4. PICK z \in S : \A i \in S : i <= z
  <2>1. S \in SUBSET (1..Len(msgs)) /\ S # {}
    BY <1>2
  <2> HIDE DEF S
  <2> QED BY <1>2, <2>1, NewestIs
<1>5. s <= z /\ z \in Rows /\ msgs[z].kind = "summary" /\ Ended(z) /\ ~Short!IsUser(z)
  BY <1>4 DEF Short!IsUser, Short!Asks
<1>6. \A i \in Rows : msgs[i].kind = "summary" /\ Ended(i) => i <= z
  BY <1>4
<1> HIDE DEF S
<1>7. SUFFICES \E x \in z + 1..Len(msgs) : msgs[x].kind \in Short!Asks
  BY <1>2, <1>5
<1>8. z \in seen
  <2>1. Short!Begin <= z
    <3>1. CASE Summaries = {}
      BY <1>2, <1>3, <1>5, <3>1, BeginIs
    <3>2. CASE Summaries # {}
      <4>1. PICK c \in seen : NewestSummary(c)
        BY <1>3, <3>2
      <4>2. c <= z
        BY <1>2, <1>6, <4>1, SummariesAre DEF NewestSummary
      <4> QED BY <1>2, <1>3, <1>5, <4>2
    <3> QED BY <3>1, <3>2
  <2> QED BY <1>2, <1>3, <1>5, <2>1
\* A turn that has ended after it.
<1>9. ASSUME NEW t \in Rows, msgs[t].kind = "turn", z < t PROVE \E x \in z + 1..Len(msgs) : msgs[x].kind \in Short!Asks
  <2>1. PICK x \in z + 1..t - 1 : msgs[x].kind \in Short!Asks
    BY <1>5, <1>9 DEF ShortInv, Between
  <2> QED BY <1>2, <1>5, <2>1
<1>10. \A i \in Rows : msgs[i].kind \in Short!Asks \cup {"compaction", "turn", "summary"}
  BY <1>2, RowsAre DEF Records
<1>11. CASE \E u \in seen : Short!IsUser(u) /\ z < u
  <2>1. PICK u \in seen : Short!IsUser(u) /\ z < u
    BY <1>11
  <2>2. u \in Rows
    BY <1>3
  <2>3. CASE msgs[u].kind \in Short!Asks
    BY <1>2, <1>5, <2>1, <2>2, <2>3
  <2>4. CASE msgs[u].kind \notin Short!Asks
    <3>1. msgs[u].kind = "compaction"
      BY <2>1, <2>4 DEF Short!IsUser
    <3> DEFINE E == {i \in Short!Answers(seen) : msgs[i].finish # "none"}
    <3>2. E \in SUBSET (1..n)
      BY <1>3 DEF Short!Answers
    <3>3. PICK b : b = Short!Newest(E)
      OBVIOUS
    <3>4. Short!LastFinished = b
      BY <3>3 DEF Short!LastFinished
    <3>5. ~(u > b)
      BY <2>1, <3>1, <3>4 DEF Short!Pending
    <3>6. b \in 0..n /\ (b # 0 => b \in E)
      <4> HIDE DEF E
      <4> QED BY <1>3, <3>2, <3>3, NewestIs
    <3>7. u \in Nat /\ u > 0 /\ u <= b
      BY <1>2, <2>2, <3>5, <3>6
    <3>8. b \in E
      BY <3>6, <3>7
    <3>9. b \in Rows /\ ~Short!IsUser(b) /\ Ended(b)
      BY <1>3, <3>8 DEF Short!Answers, Ended
    <3>10. z < b
      BY <1>2, <1>5, <2>1, <3>7, <3>9
    <3>11. msgs[b].kind = "turn"
      <4>1. msgs[b].kind # "summary"
        BY <1>2, <1>5, <1>6, <3>9, <3>10
      <4> QED BY <1>10, <3>9, <4>1 DEF Short!IsUser
    <3> QED BY <1>9, <3>9, <3>10, <3>11
  <2> QED BY <2>3, <2>4
<1>12. CASE ~\E u \in seen : Short!IsUser(u) /\ z < u
  <2>1. Short!Answers(seen) \in SUBSET (1..n) /\ Short!Users(seen) \in SUBSET (1..n) /\ z \in Short!Answers(seen)
    BY <1>3, <1>5, <1>8 DEF Short!Answers, Short!Users
  <2>2. PICK a, v : a = Short!Newest(Short!Answers(seen)) /\ v = Short!Newest(Short!Users(seen))
    OBVIOUS
  <2>3. a \in Short!Answers(seen) /\ z <= a /\ a \in 1..n
    BY <1>3, <2>1, <2>2, NewestIs
  <2>4. v = 0 \/ v \in Short!Users(seen)
    BY <1>3, <2>1, <2>2, NewestIs
  <2>5. v < a
    <3>1. CASE v = 0
      BY <2>3, <3>1
    <3>2. CASE v \in Short!Users(seen)
      <4>1. v \in seen /\ Short!IsUser(v) /\ v \in 1..n
        BY <1>3, <3>2 DEF Short!Users
      <4>2. ~(z < v) /\ v # z
        BY <1>5, <1>12, <4>1
      <4> QED BY <1>2, <1>5, <2>3, <4>1, <4>2
    <3> QED BY <2>4, <3>1, <3>2
  <2>6. msgs[a].finish \notin {"stop", "error"}
    BY <2>2, <2>3, <2>5 DEF ShortInv, AtRead
  <2>7. a \in Rows /\ ~Short!IsUser(a) /\ a \in seen
    BY <1>3, <2>3 DEF Short!Answers
  <2>8. msgs[z].finish \in {"stop", "error"}
    BY <1>2, <1>5, RowsAre DEF Records, SoundRow, Ended
  <2>9. z < a
    BY <1>2, <1>5, <2>3, <2>6, <2>7, <2>8
  <2>10. Ended(a)
    <3> SUFFICES ASSUME ~Ended(a) PROVE FALSE
      OBVIOUS
    <3>1. PICK u \in a + 1..n : Short!IsUser(u)
      BY <1>1, <2>3, <2>7 DEF ReadTo, Followed
    <3>2. u \in seen /\ z < u
      BY <1>2, <1>3, <1>5, <1>8, <2>3, <2>7, <2>9, <3>1
    <3> QED BY <1>12, <3>1, <3>2
  <2>11. msgs[a].kind = "turn"
    <3>1. msgs[a].kind # "summary"
      BY <1>2, <1>5, <1>6, <2>7, <2>9, <2>10
    <3> QED BY <1>10, <2>7, <3>1 DEF Short!IsUser
  <2> QED BY <1>9, <2>7, <2>9, <2>11
<1> QED BY <1>11, <1>12

LEMMA AfterStart == ASSUME ShortInv, Short!StartTurn PROVE ShortInv'
<1>1. /\ run = "read" /\ Short!Pending = {} /\ run' = "stream"
      /\ msgs' = Append(msgs, Short!Assistant("turn", Short!Newest(Short!Users(seen)), {}))
      /\ seen' = seen /\ task' = task /\ calls' = calls
  BY DEF Short!StartTurn
<1>2. PICK n \in Rows : ReadTo(n)
  BY <1>1 DEF ShortInv, AtRead
<1>3. SoundRows(msgs) /\ Ordered /\ Rows = 1..Len(msgs) /\ Len(msgs) \in Nat
  BY RowsAre DEF ShortInv
<1>4. n \in Nat /\ seen \in SUBSET (1..n)
  BY <1>1, <1>2, <1>3, ReadFacts
<1>5. PICK q : q = Short!Newest(Short!Users(seen))
  OBVIOUS
<1>6. q \in 0..n
  <2>1. Short!Users(seen) \in SUBSET (1..n)
    BY <1>4 DEF Short!Users
  <2> QED BY <1>4, <1>5, <2>1, NewestIs
<1>7. PICK m : m = Short!Assistant("turn", q, {})
  OBVIOUS
<1>8. /\ m \in Records /\ m.kind = "turn" /\ m.of = 0 /\ m.parent = q /\ m.finish = "none"
      /\ m.tail = 0 /\ m.covers = {} /\ ~m.overflow
  <2>1. q \in Nat
    BY <1>4, <1>6
  <2> QED BY <1>7, <2>1 DEF Short!Assistant, Short!User, Records
<1>9. PICK k : k = Len(msgs) + 1
  OBVIOUS
<1>10. SoundRow(m, k)
  BY <1>2, <1>3, <1>4, <1>6, <1>8, <1>9 DEF SoundRow
<1>11. msgs' = Append(msgs, m)
  BY <1>1, <1>5, <1>7
<1>12. \A s \in Rows : msgs[s].kind = "summary" /\ Ended(s) => \E x \in s + 1..Len(msgs) : msgs[x].kind \in Short!Asks
  BY <1>1, PromptSince
<1>13. /\ Extends /\ SoundRows(msgs') /\ Len(msgs') = k /\ msgs'[k] = m
       /\ \A i \in Rows : msgs'[i] = msgs[i]
       /\ Short!Begin' = Short!Begin
       /\ AllPresented' /\ Ordered' /\ Between' /\ TailsLate'
  BY <1>8, <1>9, <1>10, <1>11, <1>12, AppendKeeps
<1>14. Rows' \ Rows = {k} /\ Rows \subseteq Rows'
  BY <1>3, <1>9, <1>13, MoreRows
<1>15. Short!Turn' = k
  <2>1. ~Short!IsUser(k)'
    BY <1>8, <1>13 DEF Short!IsUser, Short!Asks
  <2> QED BY <1>3, <1>9, <1>13, <2>1, TurnIsAdded
<1>16. ReadTo(n)'
  BY <1>1, <1>2, <1>3, <1>13, <1>14, <1>15, StillRead
<1>17. AtStream'
  <2>1. n < k /\ n \in Rows'
    BY <1>2, <1>3, <1>9, <1>14
  <2>2. msgs'[Short!Turn'].kind = "turn" /\ ~Ended(Short!Turn)'
    BY <1>8, <1>13, <1>15 DEF Ended
  <2> QED BY <1>15, <1>16, <2>1, <2>2 DEF AtStream
<1>18. seen' \subseteq Rows' /\ task' = Short!NoTask' /\ calls' \in 0..MaxCalls
  BY <1>1, <1>14 DEF ShortInv, Short!NoTask
<1> QED BY <1>1, <1>13, <1>17, <1>18 DEF ShortInv

-----------------------------------------------------------------------------
(* A turn ends. *)

\* The message a is the message b, with an end.
EndsAs(a, b, f, e) ==
    /\ a.kind = b.kind /\ a.of = b.of /\ a.parent = b.parent /\ a.covers = b.covers /\ a.tail = b.tail
    /\ a.auto = b.auto /\ a.overflow = b.overflow
    /\ a.finish = f /\ (a.error <=> e)

LEMMA EndsTurn ==
  ASSUME SoundRows(msgs), Short!Turn \in Rows, NEW f \in {"none", "tools", "stop", "error"}, NEW e \in BOOLEAN,
         msgs[Short!Turn].kind = "summary" => f # "tools", NEW l, l = Short!Ended(f, e)
  PROVE  /\ SoundRows(l) /\ Len(l) = Len(msgs) /\ \A i \in Rows : i # Short!Turn => l[i] = msgs[i]
         /\ EndsAs(l[Short!Turn], msgs[Short!Turn], f, e)
<1>1. PICK t : t = Short!Turn
  OBVIOUS
<1>2. t \in Rows /\ msgs[t] \in Records /\ SoundRow(msgs[t], t) /\ Rows = 1..Len(msgs)
  BY <1>1, RowsAre
<1>3. PICK m : m = [msgs[t] EXCEPT !.finish = f, !.error = e]
  OBVIOUS
<1>4. m \in Records
  BY <1>2, <1>3 DEF Records
<1>5. SoundRow(m, t)
  BY <1>1, <1>2, <1>3 DEF SoundRow, Records
<1>6. Puts(l, msgs, t, m)
  BY <1>1, <1>3 DEF Puts, Short!Ended
<1>7. SoundRows(l) /\ Len(l) = Len(msgs) /\ l[t] = m /\ \A i \in 1..Len(msgs) : i # t => l[i] = msgs[i]
  BY <1>2, <1>4, <1>5, <1>6, RowChanged
<1>8. EndsAs(m, msgs[t], f, e)
  BY <1>2, <1>3 DEF EndsAs, Records
<1> QED BY <1>1, <1>2, <1>7, <1>8

LEMMA StreamFacts ==
  ASSUME ShortInv, run = "stream"
  PROVE  /\ SoundRows(msgs) /\ Short!Turn \in Rows /\ msgs[Short!Turn].kind = "turn"
         /\ \A b \in Rows : ~Short!IsUser(b) /\ ~Ended(b) /\ b # Short!Turn => \E u \in b + 1..Len(msgs) : Short!IsUser(u)
<1>1. PICK n \in Rows : ReadTo(n) /\ n < Short!Turn
  BY DEF ShortInv, AtStream
<1>2. SoundRows(msgs) /\ Rows = 1..Len(msgs) /\ Len(msgs) \in Nat
  BY RowsAre DEF ShortInv
<1>3. Short!Turn \in Rows
  BY <1>1, <1>2, TurnIs
<1>4. ASSUME NEW b \in Rows, ~Short!IsUser(b), ~Ended(b), b # Short!Turn PROVE \E u \in b + 1..Len(msgs) : Short!IsUser(u)
  <2>1. ~Later(b)
    BY <1>4 DEF Later, Short!IsUser, Short!Asks
  <2>2. b \in 1..n
    BY <1>1, <1>2, <1>4, <2>1 DEF ReadTo
  <2>3. PICK u \in b + 1..n : Short!IsUser(u)
    BY <1>1, <1>4, <2>2 DEF ReadTo, Followed
  <2> QED BY <1>2, <2>2, <2>3
<1> QED BY <1>2, <1>3, <1>4 DEF ShortInv, AtStream

\* The end of a turn leaves the summaries alone, also when a request follows.
LEMMA TurnEndKeeps ==
  ASSUME ShortInv, run = "stream", NEW f \in {"none", "tools", "stop"}, NEW e \in BOOLEAN, Extends,
         \A i \in Rows : i # Short!Turn => msgs'[i] = msgs[i],
         EndsAs(msgs'[Short!Turn], msgs[Short!Turn], f, e),
         \A i \in Rows' \ Rows : msgs'[i].kind = "compaction"
  PROVE  SoundRows(msgs') /\ AllPresented' /\ Ordered' /\ Between' /\ TailsLate' /\ Short!Turn' = Short!Turn
<1>1. SoundRows(msgs) /\ Short!Turn \in Rows /\ msgs[Short!Turn].kind = "turn"
  BY StreamFacts
<1>2. PICK t : t = Short!Turn
  OBVIOUS
<1>3. msgs'[t].kind = "turn" /\ msgs'[t].tail = msgs[t].tail
  BY <1>1, <1>2 DEF EndsAs
<1>4. \A i \in Rows : msgs'[i].tail = msgs[i].tail
  BY <1>2, <1>3
<1>5. \A i \in Rows : Short!Done(i)' <=> Short!Done(i)
  BY <1>1, <1>2, <1>3 DEF Short!Done
<1>6. Summaries' = Summaries /\ Short!Begin' = Short!Begin /\ Short!Told(Summaries)' = Short!Told(Summaries)
  <2>1. \A c \in Summaries : msgs'[msgs[c].parent].tail = msgs[msgs[c].parent].tail
    BY <1>1, <1>4, SummariesAre
  <2> QED BY <1>1, <1>5, <2>1, SameSummaries DEF ShortInv
<1>7. AllPresented' /\ Ordered'
  BY <1>1, <1>6, StillPresented DEF ShortInv
<1>8. Between'
  <2>1. \A s \in Rows : msgs[s].kind = "summary" => s # t /\ (Ended(s)' <=> Ended(s))
    BY <1>1, <1>2 DEF Ended
  <2>2. ASSUME NEW s \in Rows, msgs[s].kind = "summary", Ended(s)
        PROVE  \E x \in s + 1..Len(msgs) : msgs[x].kind \in Short!Asks
    <3>1. ~Short!IsUser(s)
      BY <2>2 DEF Short!IsUser, Short!Asks
    <3>2. s < t
      BY <1>1, <1>2, <2>1, <2>2, <3>1, TurnIs, RowsAre
    <3>3. PICK x \in s + 1..t - 1 : msgs[x].kind \in Short!Asks
      BY <1>1, <1>2, <2>2, <3>2 DEF ShortInv, Between
    <3> QED BY <1>1, <1>2, <3>3, RowsAre
  <2> QED BY <1>1, <2>1, <2>2, StillBetween DEF ShortInv
<1>9. TailsLate'
  BY <1>1, <1>4, StillLate DEF ShortInv
<1>10. Short!Turn' = Short!Turn
  BY <1>1, TurnStays DEF Short!IsUser
<1> QED BY <1>7, <1>8, <1>9, <1>10 DEF Extends

LEMMA AfterTurnEnds == ASSUME ShortInv, Short!TurnEnds \/ Short!TurnFails PROVE ShortInv'
<1>1. PICK f \in {"none", "tools", "stop"}, e \in BOOLEAN :
        /\ run = "stream" /\ msgs' = Short!Ended(f, e) /\ seen' = seen /\ task' = task /\ calls' = calls
        /\ run' = "idle" \/ (run' = "top" /\ f # "none")
  <2>1. CASE Short!TurnEnds
    <3>1. PICK f \in {"tools", "stop"} : msgs' = Short!Ended(f, FALSE)
      BY <2>1 DEF Short!TurnEnds
    <3>2. f \in {"none", "tools", "stop"} /\ FALSE \in BOOLEAN /\ f # "none"
      OBVIOUS
    <3> QED BY <2>1, <3>1, <3>2 DEF Short!TurnEnds
  <2>2. CASE Short!TurnFails
    <3>1. "none" \in {"none", "tools", "stop"} /\ TRUE \in BOOLEAN
      OBVIOUS
    <3> QED BY <2>2, <3>1 DEF Short!TurnFails
  <2> QED BY <2>1, <2>2
<1>2. SoundRows(msgs) /\ Short!Turn \in Rows /\ msgs[Short!Turn].kind = "turn" /\ Rows = 1..Len(msgs) /\ Len(msgs) \in Nat
  BY <1>1, StreamFacts, RowsAre
<1>3. PICK t : t = Short!Turn
  OBVIOUS
<1>4. /\ SoundRows(msgs') /\ Len(msgs') = Len(msgs) /\ \A i \in Rows : i # t => msgs'[i] = msgs[i]
      /\ EndsAs(msgs'[t], msgs[t], f, e)
  <2>1. f \in {"none", "tools", "stop", "error"} /\ msgs[Short!Turn].kind # "summary"
    BY <1>2
  <2> QED BY <1>1, <1>2, <1>3, <2>1, EndsTurn
<1>5. SameRow(t) /\ msgs'[t].finish = f
  BY <1>4 DEF SameRow, EndsAs
<1>6. Extends /\ Rows' = Rows
  <2>1. \A i \in Rows : SameRow(i)
    BY <1>4, <1>5 DEF SameRow
  <2> QED BY <1>2, <1>4, <2>1 DEF Extends, Rows
<1>7. AllPresented' /\ Ordered' /\ Between' /\ TailsLate' /\ Short!Turn' = t
  BY <1>1, <1>3, <1>4, <1>6, TurnEndKeeps
<1>8. run' = "top" => AtTop'
  <2> SUFFICES ASSUME run' = "top" PROVE AtTop'
    OBVIOUS
  <2>1. Followed(Len(msgs))'
    <3> SUFFICES ASSUME NEW b \in 1..Len(msgs'), ~Short!IsUser(b)', ~Ended(b)'
                 PROVE  \E u \in b + 1..Len(msgs') : Short!IsUser(u)'
      BY DEF Followed
    <3>1. b \in Rows /\ b # t
      BY <1>1, <1>2, <1>4, <1>5 DEF Ended
    <3>2. ~Short!IsUser(b) /\ ~Ended(b)
      BY <1>4, <3>1 DEF Short!IsUser, Ended
    <3>3. PICK u \in b + 1..Len(msgs) : Short!IsUser(u)
      BY <1>1, <1>3, <3>1, <3>2, StreamFacts
    <3>4. u \in Rows
      BY <1>2, <3>1
    <3> QED BY <1>2, <1>4, <1>6, <3>3, <3>4, MoreRows
  <2>2. Len(msgs') # 0 /\ msgs'[t].kind # "summary"
    BY <1>2, <1>3, <1>4, <1>5 DEF SameRow
  <2> QED BY <1>7, <2>1, <2>2 DEF AtTop
<1>9. seen' \subseteq Rows' /\ task' = Short!NoTask' /\ calls' \in 0..MaxCalls
  BY <1>1, <1>6 DEF ShortInv, Short!NoTask
<1> QED BY <1>1, <1>4, <1>7, <1>8, <1>9 DEF ShortInv

LEMMA AfterOverflow == ASSUME ShortInv, Short!TurnOverflows PROVE ShortInv'
<1>1. PICK f \in {"none", "tools", "stop"}, e \in BOOLEAN, overflow \in BOOLEAN :
        /\ run = "stream" /\ msgs' = Append(Short!Ended(f, e), Short!Request(TRUE, overflow))
        /\ run' = "top" /\ seen' = seen /\ task' = task /\ calls' = calls
  <2>1. PICK f \in {"none", "tools", "stop"} : msgs' = Append(Short!Ended(f, FALSE), Short!Request(TRUE, f = "none"))
    BY DEF Short!TurnOverflows
  <2>2. FALSE \in BOOLEAN /\ (f = "none") \in BOOLEAN
    OBVIOUS
  <2> QED BY <2>1, <2>2 DEF Short!TurnOverflows
<1>2. SoundRows(msgs) /\ Short!Turn \in Rows /\ msgs[Short!Turn].kind = "turn" /\ Rows = 1..Len(msgs) /\ Len(msgs) \in Nat
  BY <1>1, StreamFacts, RowsAre
<1>3. PICK t : t = Short!Turn
  OBVIOUS
<1>l. PICK l : l = Short!Ended(f, e)
  OBVIOUS
<1>m. PICK m : m = Short!Request(TRUE, overflow)
  OBVIOUS
<1>k. PICK k : k = Len(msgs) + 1
  OBVIOUS
<1>4. /\ SoundRows(l) /\ Len(l) = Len(msgs) /\ \A i \in Rows : i # t => l[i] = msgs[i]
      /\ EndsAs(l[t], msgs[t], f, e)
  <2>1. f \in {"none", "tools", "stop", "error"} /\ msgs[Short!Turn].kind # "summary"
    BY <1>2
  <2> QED BY <1>2, <1>3, <1>l, <2>1, EndsTurn
<1>5. /\ m \in Records /\ m.kind = "compaction" /\ m.of = 0 /\ m.parent = 0 /\ m.finish = "none"
      /\ m.tail = 0 /\ m.covers = {} /\ m.auto
  <2>1. TRUE \in BOOLEAN
    OBVIOUS
  <2> QED BY <1>m, <2>1, RequestRecord
<1>6. k \in Nat /\ k > 0 /\ k = Len(l) + 1
  BY <1>2, <1>4, <1>k
<1>s. SoundRow(m, k)
  BY <1>5, <1>6 DEF SoundRow
<1>7. SoundRows(msgs') /\ Len(msgs') = k /\ msgs'[k] = m /\ \A i \in Rows : msgs'[i] = l[i]
  <2>1. Adds(msgs', l, m)
    BY <1>1, <1>l, <1>m DEF Adds
  <2>2. SoundRows(msgs') /\ Len(msgs') = k /\ msgs'[k] = m /\ \A i \in 1..Len(l) : msgs'[i] = l[i]
    BY <1>4, <1>5, <1>6, <1>s, <2>1, RowAdded
  <2> QED BY <1>2, <1>4, <2>2
<1>8. SameRow(t)
  BY <1>2, <1>3, <1>4, <1>7 DEF SameRow, EndsAs
<1>9. Extends
  <2>1. \A i \in Rows : SameRow(i)
    BY <1>4, <1>7, <1>8 DEF SameRow
  <2>2. Len(msgs) + 1..Len(msgs') = {k} /\ Len(msgs) <= Len(msgs')
    BY <1>2, <1>k, <1>7
  <2>3. \A i \in Len(msgs) + 1..Len(msgs') : msgs'[i].finish = "none" /\ msgs'[i].tail = 0
    BY <1>5, <1>7, <2>2
  <2> QED BY <1>7, <2>1, <2>2, <2>3 DEF Extends
<1>10. Rows' \ Rows = {k} /\ Rows \subseteq Rows'
  BY <1>2, <1>k, <1>7, <1>9, MoreRows
<1>11. AllPresented' /\ Ordered' /\ Between' /\ TailsLate'
  <2>1. EndsAs(msgs'[t], msgs[t], f, e)
    BY <1>2, <1>3, <1>4, <1>7
  <2> QED BY <1>1, <1>3, <1>4, <1>5, <1>7, <1>9, <1>10, <2>1, TurnEndKeeps
<1>12. AtTop'
  <2>1. Short!IsUser(k)'
    BY <1>5, <1>7 DEF Short!IsUser
  <2> QED BY <1>2, <1>k, <1>7, <1>9, <2>1, TopAfterUser
<1>13. seen' \subseteq Rows' /\ task' = Short!NoTask' /\ calls' \in 0..MaxCalls
  BY <1>1, <1>10 DEF ShortInv, Short!NoTask
<1> QED BY <1>1, <1>7, <1>11, <1>12, <1>13 DEF ShortInv

-----------------------------------------------------------------------------
(* A compaction ends. *)

CompactTail == IF msgs[task.parent].kind = "compaction" THEN task.tail ELSE 0

\* The message a is the message b, with a tail.
TailAs(a, b, n) ==
    /\ a.kind = b.kind /\ a.of = b.of /\ a.parent = b.parent /\ a.covers = b.covers
    /\ a.finish = b.finish /\ (a.error <=> b.error) /\ a.auto = b.auto /\ a.overflow = b.overflow
    /\ a.tail = n

LEMMA CompactFacts ==
  ASSUME ShortInv, run = "compact", NEW t, t = Short!Turn, NEW p, p = task.parent
  PROVE  /\ SoundRows(msgs) /\ Rows = 1..Len(msgs) /\ Len(msgs) \in Nat
         /\ t \in Rows /\ p \in Rows /\ p < t /\ msgs[t].kind = "summary" /\ ~Ended(t) /\ msgs[t].parent = p
         /\ Short!IsUser(p) /\ msgs[p].tail = 0 /\ CompactTail \in Nat /\ CompactTail < p
         /\ \A b \in Rows : ~Short!IsUser(b) /\ Ended(b) => b < p
         /\ \A i \in Rows : p < i => i = t \/ Later(i)
         /\ \A b \in Rows : ~Short!IsUser(b) /\ ~Ended(b) /\ b # t => \E u \in b + 1..Len(msgs) : Short!IsUser(u)
<1>1. AtCompact /\ ReadTo(p)
  BY DEF ShortInv, AtCompact
<1>2. SoundRows(msgs) /\ Rows = 1..Len(msgs) /\ Len(msgs) \in Nat
  BY RowsAre DEF ShortInv
<1>3. p \in Rows /\ p < t /\ task.tail \in Nat
  BY <1>1 DEF AtCompact
<1>4. t \in Rows
  BY <1>2, <1>3, TurnIs
<1>5. CompactTail \in Nat /\ CompactTail < p
  BY <1>1, <1>2, <1>3 DEF AtCompact, CompactTail
<1>6. ASSUME NEW i \in Rows, p < i PROVE i = t \/ Later(i)
  BY <1>1, <1>2, <1>3, <1>6 DEF ReadTo
<1>7. ASSUME NEW b \in Rows, ~Short!IsUser(b), ~Ended(b), b # t PROVE \E u \in b + 1..Len(msgs) : Short!IsUser(u)
  <2>1. ~Later(b)
    BY <1>7 DEF Later, Short!IsUser, Short!Asks
  <2>2. b \in 1..p
    BY <1>2, <1>3, <1>6, <1>7, <2>1
  <2>3. PICK u \in b + 1..p : Short!IsUser(u)
    BY <1>1, <1>7, <2>2 DEF ReadTo, Followed
  <2> QED BY <1>2, <1>3, <2>2, <2>3
<1> QED BY <1>1, <1>2, <1>3, <1>4, <1>5, <1>6, <1>7 DEF AtCompact

\* The summary ends, and its request gets the tail.
EndsCompaction(l, f, e) ==
    /\ \A i \in Rows : i # Short!Turn /\ i # task.parent => l[i] = msgs[i]
    /\ EndsAs(l[Short!Turn], msgs[Short!Turn], f, e)
    /\ TailAs(l[task.parent], msgs[task.parent], l[task.parent].tail)
    /\ l[task.parent].tail \in {0, CompactTail}
    /\ f = "stop" => l[task.parent].tail = CompactTail

LEMMA WithTailIs ==
  ASSUME ShortInv, run = "compact", NEW f \in {"none", "stop"}, NEW e \in BOOLEAN, NEW l, l = Short!WithTail(f, e)
  PROVE  SoundRows(l) /\ Len(l) = Len(msgs) /\ EndsCompaction(l, f, e)
<1>t. PICK t : t = Short!Turn
  OBVIOUS
<1>p. PICK p : p = task.parent
  OBVIOUS
<1>k. PICK k : k = Short!Ended(f, e)
  OBVIOUS
<1>1. /\ SoundRows(msgs) /\ Rows = 1..Len(msgs) /\ Len(msgs) \in Nat
      /\ t \in Rows /\ p \in Rows /\ p < t /\ msgs[p].tail = 0 /\ CompactTail \in Nat /\ CompactTail < p
  BY <1>t, <1>p, CompactFacts
<1>2. SoundRows(k) /\ Len(k) = Len(msgs) /\ (\A i \in Rows : i # t => k[i] = msgs[i]) /\ EndsAs(k[t], msgs[t], f, e)
  <2>1. f \in {"none", "tools", "stop", "error"} /\ f # "tools"
    OBVIOUS
  <2> QED BY <1>t, <1>k, <1>1, <2>1, EndsTurn
<1>3. p # t /\ k[p] = msgs[p] /\ msgs[p] \in Records /\ SoundRow(msgs[p], p) /\ p \in Nat
  BY <1>1, <1>2, RowsAre
<1>4. CASE task.tail # 0 /\ msgs[p].kind = "compaction"
  <2>1. PICK m : m = [msgs[p] EXCEPT !.tail = task.tail]
    OBVIOUS
  <2>2. task.tail = CompactTail
    BY <1>p, <1>4 DEF CompactTail
  <2>3. m \in Records
    BY <1>1, <1>3, <2>1, <2>2 DEF Records
  <2>4. TailAs(m, msgs[p], CompactTail)
    BY <1>3, <2>1, <2>2 DEF TailAs, Records
  <2>5. SoundRow(m, p)
    BY <1>1, <1>3, <2>4 DEF SoundRow, TailAs
  <2>6. Puts(l, k, p, m)
    BY <1>p, <1>k, <1>3, <1>4, <2>1 DEF Puts, Short!WithTail
  <2>7. p \in 1..Len(k)
    BY <1>1, <1>2
  <2>8. SoundRows(l) /\ Len(l) = Len(k) /\ l[p] = m /\ \A i \in 1..Len(k) : i # p => l[i] = k[i]
    BY <1>2, <2>3, <2>5, <2>6, <2>7, RowChanged
  <2>9. /\ \A i \in Rows : i # t /\ i # p => l[i] = msgs[i]
        /\ l[t] = k[t] /\ m.tail = CompactTail
    BY <1>1, <1>2, <1>3, <2>4, <2>8 DEF TailAs
  <2> QED BY <1>t, <1>p, <1>2, <2>4, <2>8, <2>9 DEF EndsCompaction
<1>5. CASE ~(task.tail # 0 /\ msgs[p].kind = "compaction")
  <2>1. l = k
    BY <1>p, <1>k, <1>5 DEF Short!WithTail
  <2>2. CompactTail = 0
    BY <1>p, <1>5 DEF CompactTail
  <2>3. TailAs(msgs[p], msgs[p], 0)
    BY <1>1 DEF TailAs
  <2> QED BY <1>t, <1>p, <1>1, <1>2, <1>3, <2>1, <2>2, <2>3 DEF EndsCompaction
<1> QED BY <1>4, <1>5

\* However it ends, also when a prompt follows.
LEMMA CompactEndKeeps ==
  ASSUME ShortInv, run = "compact", Extends, NEW f, NEW e, EndsCompaction(msgs', f, e),
         \A i \in Rows' \ Rows : msgs'[i].kind \in Short!Asks /\ ~msgs'[i].overflow
  PROVE  SoundRows(msgs') /\ Between' /\ TailsLate' /\ Short!Turn' = Short!Turn
<1>t. PICK t : t = Short!Turn
  OBVIOUS
<1>p. PICK p : p = task.parent
  OBVIOUS
<1>1. /\ SoundRows(msgs) /\ Rows = 1..Len(msgs) /\ Len(msgs) \in Nat
      /\ t \in Rows /\ p \in Rows /\ p < t /\ msgs[t].kind = "summary" /\ Short!IsUser(p) /\ msgs[p].tail = 0
      /\ \A i \in Rows : p < i => i = t \/ Later(i)
  BY <1>t, <1>p, CompactFacts
<1>2. /\ \A i \in Rows : i # t /\ i # p => msgs'[i] = msgs[i]
      /\ EndsAs(msgs'[t], msgs[t], f, e) /\ TailAs(msgs'[p], msgs[p], msgs'[p].tail)
  BY <1>t, <1>p DEF EndsCompaction
<1>3. \A i \in Rows : msgs'[i].tail # msgs[i].tail => i = p
  BY <1>2 DEF EndsAs
<1>4. ~Short!IsUser(t)
  BY <1>1 DEF Short!IsUser, Short!Asks
<1>5. TailsLate'
  <2>1. \E a \in p + 1..Len(msgs) : ~Short!IsUser(a)
    BY <1>1, <1>4
  <2> QED BY <1>1, <1>3, <2>1, StillLate DEF ShortInv
<1>6. Between'
  <2>1. \A s \in Rows : s # t => msgs'[s].finish = msgs[s].finish
    BY <1>2 DEF TailAs
  <2>2. ASSUME NEW i \in Rows, t < i PROVE msgs[i].kind # "turn" /\ ~msgs[i].overflow
    <3>1. Later(i)
      BY <1>1, <2>2
    <3> QED BY <3>1 DEF Later
  <2>3. \A s \in Rows : msgs[s].kind = "summary" /\ Ended(s)' /\ ~Ended(s) =>
            \A i \in Rows : i > s => msgs[i].kind # "turn" /\ ~msgs[i].overflow
    BY <1>1, <2>1, <2>2 DEF Ended
  <2>4. \A i \in Rows' \ Rows : ~(msgs'[i].kind = "turn" \/ msgs'[i].overflow)
    BY DEF Short!Asks
  <2> QED BY <1>1, <2>3, <2>4, StillBetween DEF ShortInv
<1>7. Short!Turn' = Short!Turn
  BY <1>1, TurnStays DEF Short!IsUser
<1> QED BY <1>5, <1>6, <1>7 DEF Extends

\* When no new summary answers a request, the same is presented.
LEMMA SamePresented ==
  ASSUME ShortInv, run = "compact", Extends, NEW f, NEW e \in BOOLEAN, EndsCompaction(msgs', f, e),
         e \/ msgs[task.parent].kind # "compaction"
  PROVE  AllPresented' /\ Ordered'
<1>t. PICK t : t = Short!Turn
  OBVIOUS
<1>p. PICK p : p = task.parent
  OBVIOUS
<1>1. /\ SoundRows(msgs) /\ Rows = 1..Len(msgs) /\ Len(msgs) \in Nat
      /\ t \in Rows /\ p \in Rows /\ p < t /\ msgs[t].parent = p /\ ~Ended(t)
      /\ \A b \in Rows : ~Short!IsUser(b) /\ Ended(b) => b < p
  BY <1>t, <1>p, CompactFacts
<1>2. /\ \A i \in Rows : i # t /\ i # p => msgs'[i] = msgs[i]
      /\ EndsAs(msgs'[t], msgs[t], f, e) /\ TailAs(msgs'[p], msgs[p], msgs'[p].tail)
  BY <1>t, <1>p DEF EndsCompaction
<1>3. ASSUME NEW i \in Rows, msgs[i].parent \in Rows, msgs[msgs[i].parent].kind = "compaction"
      PROVE  Short!Done(i)' <=> Short!Done(i)
  <2>1. CASE i = t
    <3>1. e
      BY <1>p, <1>1, <1>3, <2>1
    <3> QED BY <1>1, <1>2, <2>1, <3>1 DEF Short!Done, Ended, EndsAs
  <2>2. CASE i # t
    BY <1>2, <2>2 DEF Short!Done, TailAs
  <2> QED BY <2>1, <2>2
<1>4. \A c \in Summaries : msgs'[msgs[c].parent].tail = msgs[msgs[c].parent].tail
  <2> SUFFICES ASSUME NEW c \in Summaries PROVE msgs'[msgs[c].parent].tail = msgs[msgs[c].parent].tail
    OBVIOUS
  <2>1. c < p /\ msgs[c].parent \in Rows /\ msgs[c].parent < c /\ c \in Rows
    BY <1>1, SummariesAre
  <2>2. msgs[c].parent # p /\ msgs[c].parent # t
    BY <1>1, <2>1
  <2> QED BY <1>2, <2>1, <2>2
<1>5. Summaries' = Summaries /\ Short!Begin' = Short!Begin /\ Short!Told(Summaries)' = Short!Told(Summaries)
  BY <1>1, <1>3, <1>4, SameSummaries DEF ShortInv
<1> QED BY <1>1, <1>5, StillPresented DEF ShortInv

\* The new summary is the newest.
LEMMA NewSummary ==
  ASSUME ShortInv, run = "compact", Extends, EndsCompaction(msgs', "stop", FALSE),
         \A i \in Rows' \ Rows : msgs'[i].kind \in Short!Asks,
         msgs[task.parent].kind = "compaction"
  PROVE  /\ Ordered' /\ Short!Begin' = TailStart
         /\ Short!Told(Summaries)' = msgs[Short!Turn].covers
<1>t. PICK t : t = Short!Turn
  OBVIOUS
<1>p. PICK p : p = task.parent
  OBVIOUS
<1>1. /\ SoundRows(msgs) /\ Rows = 1..Len(msgs) /\ Len(msgs) \in Nat
      /\ t \in Rows /\ p \in Rows /\ p < t /\ msgs[t].parent = p /\ msgs[t].kind = "summary"
      /\ \A b \in Rows : ~Short!IsUser(b) /\ Ended(b) => b < p
  BY <1>t, <1>p, CompactFacts
<1>2. /\ \A i \in Rows : i # t /\ i # p => msgs'[i] = msgs[i]
      /\ EndsAs(msgs'[t], msgs[t], "stop", FALSE) /\ TailAs(msgs'[p], msgs[p], msgs'[p].tail)
      /\ msgs'[p].tail = CompactTail
  BY <1>t, <1>p DEF EndsCompaction
<1>3. \A i \in Rows : msgs'[i].parent = msgs[i].parent /\ msgs'[i].kind = msgs[i].kind /\ msgs'[i].covers = msgs[i].covers
  BY DEF Extends, SameRow
<1>4. Rows \subseteq Rows' /\ DOMAIN msgs' = Rows' /\ Rows' = Rows \cup (Len(msgs) + 1..Len(msgs')) /\ Len(msgs') \in Nat
  BY <1>1, MoreRows
<1>5. Summaries' = Summaries \cup {t}
  <2>1. Summaries' = {i \in Rows' : Short!Done(i)' /\ msgs'[i].parent \in Rows' /\ msgs'[msgs'[i].parent].kind = "compaction"}
    BY <1>4 DEF Summaries, Short!Completed
  <2>2. Summaries = {i \in Rows : Short!Done(i) /\ msgs[i].parent \in Rows /\ msgs[msgs[i].parent].kind = "compaction"}
    BY <1>1, RowsAre DEF Summaries, Short!Completed
  <2>3. \A i \in Rows' \ Rows : ~Short!Done(i)'
    BY DEF Short!Done, Short!Asks
  <2>4. \A i \in Rows : i # t => (Short!Done(i)' <=> Short!Done(i))
    BY <1>2 DEF Short!Done, TailAs
  <2>5. Short!Done(t)'
    BY <1>1, <1>2 DEF Short!Done, EndsAs
  <2>6. \A i \in Rows : msgs[i].parent \in Rows' => msgs[i].parent \in Rows
    <3>1. \A i \in Rows : msgs[i].parent < i /\ msgs[i].parent \in Nat /\ i \in Nat
      BY <1>1, RowsAre DEF SoundRow, Records
    <3> QED BY <1>1, <1>4, <3>1
  <2>7. ASSUME NEW i \in Summaries' PROVE i \in Summaries \cup {t}
    BY <1>3, <2>1, <2>2, <2>3, <2>4, <2>6, <2>7
  <2>8. ASSUME NEW i \in Summaries PROVE i \in Summaries'
    <3>1. i \in Rows /\ Ended(i) /\ ~Short!IsUser(i)
      BY <1>1, SummariesAre
    <3>2. i # t
      BY <1>1, <3>1
    <3> QED BY <1>3, <1>4, <2>1, <2>2, <2>4, <2>8, <3>1, <3>2
  <2>9. t \in Summaries'
    BY <1>p, <1>1, <1>3, <1>4, <2>1, <2>5
  <2> QED BY <2>7, <2>8, <2>9
<1>6. \A c \in Summaries : c \in Rows /\ c < p /\ msgs[c].parent \in Rows /\ msgs[c].parent < c
  BY <1>1, SummariesAre
<1>7. Ordered'
  <2> SUFFICES ASSUME NEW s \in Summaries', NEW c \in Summaries', c < s PROVE c < msgs'[s].parent
    BY DEF Ordered
  <2>1. CASE s = t
    <3>1. c \in Summaries
      BY <1>1, <1>5, <2>1
    <3> QED BY <1>1, <1>3, <1>6, <2>1, <3>1
  <2>2. CASE s # t
    <3>1. s \in Summaries
      BY <1>5, <2>2
    <3>2. c # t
      BY <1>1, <1>6, <3>1
    <3>3. c \in Summaries
      BY <1>5, <3>2
    <3>4. c < msgs[s].parent
      BY <3>1, <3>3 DEF ShortInv, Ordered
    <3> QED BY <1>3, <1>6, <3>1, <3>4
  <2> QED BY <2>1, <2>2
<1>8. Short!Told(Summaries)' = msgs[t].covers
  <2>1. PICK q : q = Short!Newest(Summaries \cup {t})
    OBVIOUS
  <2>2. Summaries \cup {t} \in SUBSET (1..Len(msgs))
    BY <1>1, <1>6
  <2>3. q \in Summaries \cup {t} /\ t <= q /\ q \in 0..Len(msgs)
    BY <1>1, <2>1, <2>2, NewestIs
  <2>4. q = t
    BY <1>1, <1>6, <2>3
  <2>5. Short!Newest(Summaries)' = t
    BY <1>5, <2>1, <2>4 DEF Short!Newest, Short!Max
  <2>6. Summaries' # {}
    BY <1>5
  <2> QED BY <1>1, <1>3, <2>5, <2>6 DEF Short!Told
<1>9. Short!Begin' = TailStart
  <2> DEFINE P == {msgs'[s].parent : s \in Summaries'}
  <2>1. P \in SUBSET (1..Len(msgs)) /\ p \in P /\ \A i \in P : i <= p
    BY <1>1, <1>3, <1>5, <1>6
  <2>2. Summaries' # {}
    BY <1>5
  <2>3. Short!Begin' = LET q == Short!Newest(P) IN IF msgs'[q].tail = 0 THEN q ELSE msgs'[q].tail
    BY <2>2 DEF Short!Begin, Summaries, Short!Newest, Short!Max
  <2> HIDE DEF P
  <2>4. PICK q : q = Short!Newest(P)
    OBVIOUS
  <2>5. q \in P /\ p <= q /\ q \in 0..Len(msgs)
    BY <1>1, <2>1, <2>4, NewestIs
  <2>6. q = p
    BY <1>1, <2>1, <2>5
  <2>7. CompactTail = task.tail
    BY DEF CompactTail
  <2> QED BY <1>p, <1>2, <2>3, <2>4, <2>6, <2>7 DEF TailStart
<1> QED BY <1>t, <1>7, <1>8, <1>9

LEMMA AfterCompactFails == ASSUME ShortInv, Short!CompactFails \/ Short!CompactOverflows PROVE ShortInv'
<1>1. /\ run = "compact" /\ run' = "idle" /\ task' = Short!NoTask /\ seen' = seen /\ calls' = calls
      /\ (\E f \in {"none", "stop"} : msgs' = Short!WithTail(f, TRUE)) \/ msgs' = Short!Ended("error", TRUE)
  BY DEF Short!CompactFails, Short!CompactOverflows
<1>t. PICK t : t = Short!Turn
  OBVIOUS
<1>p. PICK p : p = task.parent
  OBVIOUS
<1>2. /\ SoundRows(msgs) /\ Rows = 1..Len(msgs) /\ Len(msgs) \in Nat
      /\ t \in Rows /\ p \in Rows /\ p < t /\ msgs[p].tail = 0
  BY <1>t, <1>p, <1>1, CompactFacts
<1>3. PICK f : SoundRows(msgs') /\ Len(msgs') = Len(msgs) /\ EndsCompaction(msgs', f, TRUE)
  <2> TRUE \in BOOLEAN
    OBVIOUS
  <2>1. CASE \E f \in {"none", "stop"} : msgs' = Short!WithTail(f, TRUE)
    <3>1. PICK f \in {"none", "stop"} : msgs' = Short!WithTail(f, TRUE)
      BY <2>1
    <3> QED BY <1>1, <3>1, WithTailIs
  <2>2. CASE msgs' = Short!Ended("error", TRUE)
    <3>1. "error" \in {"none", "tools", "stop", "error"} /\ "error" # "tools"
      OBVIOUS
    <3>2. /\ SoundRows(msgs') /\ Len(msgs') = Len(msgs) /\ \A i \in Rows : i # t => msgs'[i] = msgs[i]
          /\ EndsAs(msgs'[t], msgs[t], "error", TRUE)
      BY <1>t, <1>2, <2>2, <3>1, EndsTurn
    <3>3. msgs'[p] = msgs[p] /\ TailAs(msgs[p], msgs[p], 0)
      BY <1>2, <3>2 DEF TailAs
    <3>4. EndsCompaction(msgs', "error", TRUE)
      BY <1>t, <1>p, <1>2, <3>2, <3>3 DEF EndsCompaction
    <3> QED BY <3>2, <3>4
  <2> QED BY <1>1, <2>1, <2>2
<1>4. Extends /\ Rows' = Rows
  <2>1. \A i \in Rows : SameRow(i)
    BY <1>3 DEF EndsCompaction, EndsAs, TailAs, SameRow
  <2> QED BY <1>2, <1>3, <2>1 DEF Extends, Rows
<1>5. Between' /\ TailsLate'
  BY <1>1, <1>3, <1>4, CompactEndKeeps
<1>6. AllPresented' /\ Ordered'
  <2> TRUE \in BOOLEAN
    OBVIOUS
  <2> QED BY <1>1, <1>3, <1>4, SamePresented
<1>7. seen' \subseteq Rows' /\ task' = Short!NoTask' /\ calls' \in 0..MaxCalls
  BY <1>1, <1>4 DEF ShortInv, Short!NoTask
<1> QED BY <1>1, <1>3, <1>5, <1>6, <1>7 DEF ShortInv

\* What follows a summary: nothing, the prompt again, or the request to go on.
LEMMA FollowUpIs ==
  ASSUME ShortInv, run = "compact", NEW l, SoundRows(l), Len(l) = Len(msgs), NEW n, n = Len(msgs) + 1,
         msgs' = l \o Short!FollowUp
  PROVE  \/ msgs' = l /\ ~msgs[Short!Turn].auto /\ task.replay = 0
         \/ \E m \in Records : /\ msgs' = Append(l, m) /\ SoundRow(m, n) /\ m.kind \in Short!Asks
                               /\ m.finish = "none" /\ m.tail = 0 /\ ~m.overflow
                               /\ task.replay # 0 => m.kind = "replay" /\ m.of = msgs[task.replay].of
<1>1. AtCompact /\ SoundRows(msgs) /\ Rows = 1..Len(msgs) /\ Len(msgs) \in Nat
  BY RowsAre DEF ShortInv
<1>2. l \in Seq(Records)
  BY DEF SoundRows
<1>3. CASE ~msgs[task.request].auto
  <2>1. msgs' = l \o <<>>
    BY <1>3 DEF Short!FollowUp
  <2>2. msgs' = l
    BY <1>2, <2>1, ConcatEmptySeq
  <2> QED BY <1>1, <1>3, <2>2 DEF AtCompact
<1>4. CASE msgs[task.request].auto
  <2>1. PICK kind \in {"replay", "continue"}, of \in 0..n :
          /\ Short!FollowUp = <<Short!User(kind, of)>>
          /\ task.replay # 0 => kind = "replay" /\ of = msgs[task.replay].of
    <3>1. CASE task.replay # 0
      <4>1. task.replay \in Rows
        BY <1>1, <3>1 DEF AtCompact
      <4>2. msgs[task.replay].of \in 0..n
        BY <1>1, <4>1, RowsAre DEF SoundRow, Records
      <4>3. Short!FollowUp = <<Short!User("replay", msgs[task.replay].of)>>
        BY <1>4, <3>1 DEF Short!FollowUp
      <4> QED BY <4>2, <4>3
    <3>2. CASE task.replay = 0
      <4>1. Short!FollowUp = <<Short!User("continue", n)>>
        BY <1>4, <3>2 DEF Short!FollowUp
      <4>2. n \in 0..n
        BY <1>1
      <4> QED BY <3>2, <4>1, <4>2
    <3> QED BY <3>1, <3>2
  <2>2. PICK m : m = Short!User(kind, of)
    OBVIOUS
  <2>3. of \in Nat /\ of <= n /\ n > 0 /\ n \in Nat
    BY <1>1
  <2>4. /\ m \in Records /\ m.kind = kind /\ m.of = of /\ m.parent = 0 /\ m.finish = "none"
        /\ m.tail = 0 /\ m.covers = {} /\ ~m.auto /\ ~m.overflow
    <3>1. kind \in Short!Asks \cup {"compaction"}
      BY DEF Short!Asks
    <3> QED BY <2>2, <2>3, <3>1, UserRecord
  <2>5. SoundRow(m, n) /\ m.kind \in Short!Asks
    BY <2>3, <2>4 DEF SoundRow, Short!Asks
  <2>6. msgs' = Append(l, m)
    <3>1. msgs' = l \o <<m>>
      BY <2>1, <2>2
    <3> QED BY <1>2, <2>4, <3>1, AppendIsConcat
  <2> QED BY <2>1, <2>4, <2>5, <2>6
<1> QED BY <1>3, <1>4

LEMMA AfterCompacted == ASSUME ShortInv, Short!Compacted PROVE ShortInv'
<1>1. /\ run = "compact" /\ run' = "top" /\ task' = Short!NoTask /\ seen' = seen /\ calls' = calls
      /\ msgs' = Short!WithTail("stop", FALSE) \o Short!FollowUp
  BY DEF Short!Compacted
<1>t. PICK t : t = Short!Turn
  OBVIOUS
<1>p. PICK p : p = task.parent
  OBVIOUS
<1>l. PICK l : l = Short!WithTail("stop", FALSE)
  OBVIOUS
<1>k. PICK k : k = Len(msgs) + 1
  OBVIOUS
<1>2. /\ SoundRows(msgs) /\ Rows = 1..Len(msgs) /\ Len(msgs) \in Nat /\ AtCompact
      /\ t \in Rows /\ p \in Rows /\ p < t
      /\ \A b \in Rows : ~Short!IsUser(b) /\ ~Ended(b) /\ b # t => \E u \in b + 1..Len(msgs) : Short!IsUser(u)
  BY <1>t, <1>p, <1>1, CompactFacts DEF ShortInv
<1>3. SoundRows(l) /\ Len(l) = Len(msgs) /\ EndsCompaction(l, "stop", FALSE)
  <2>1. FALSE \in BOOLEAN /\ "stop" \in {"none", "stop"}
    OBVIOUS
  <2> QED BY <1>1, <1>l, <2>1, WithTailIs
<1>4. \/ msgs' = l /\ ~msgs[t].auto /\ task.replay = 0
      \/ \E m \in Records : /\ msgs' = Append(l, m) /\ SoundRow(m, k) /\ m.kind \in Short!Asks
                            /\ m.finish = "none" /\ m.tail = 0 /\ ~m.overflow
                            /\ task.replay # 0 => m.kind = "replay" /\ m.of = msgs[task.replay].of
  <2>1. msgs' = l \o Short!FollowUp
    BY <1>1, <1>l
  <2> QED BY <1>1, <1>t, <1>k, <1>3, <2>1, FollowUpIs
<1>5. /\ SoundRows(msgs') /\ \A i \in Rows : msgs'[i] = l[i]
      /\ \/ Len(msgs') = Len(msgs) /\ ~msgs[t].auto /\ task.replay = 0
         \/ /\ Len(msgs') = k /\ msgs'[k].kind \in Short!Asks /\ ~msgs'[k].overflow
            /\ msgs'[k].finish = "none" /\ msgs'[k].tail = 0
            /\ task.replay # 0 => msgs'[k].kind = "replay" /\ msgs'[k].of = msgs[task.replay].of
  <2>1. CASE msgs' = l /\ ~msgs[t].auto /\ task.replay = 0
    BY <1>3, <2>1
  <2>2. ASSUME NEW m \in Records, msgs' = Append(l, m), SoundRow(m, k), m.kind \in Short!Asks,
               m.finish = "none", m.tail = 0, ~m.overflow,
               task.replay # 0 => m.kind = "replay" /\ m.of = msgs[task.replay].of
        PROVE  /\ SoundRows(msgs') /\ \A i \in Rows : msgs'[i] = l[i]
               /\ Len(msgs') = k /\ msgs'[k] = m
    <3>1. Adds(msgs', l, m)
      BY <2>2 DEF Adds
    <3>2. k = Len(l) + 1 /\ Rows = 1..Len(l)
      BY <1>2, <1>3, <1>k
    <3>3. SoundRows(msgs') /\ Len(msgs') = k /\ msgs'[k] = m /\ \A i \in 1..Len(l) : msgs'[i] = l[i]
      BY <1>3, <2>2, <3>1, <3>2, RowAdded
    <3> QED BY <3>2, <3>3
  <2> QED BY <1>4, <2>1, <2>2
<1>6. EndsCompaction(msgs', "stop", FALSE)
  BY <1>t, <1>p, <1>2, <1>3, <1>5 DEF EndsCompaction
<1>7. Extends
  <2>1. \A i \in Rows : SameRow(i)
    BY <1>6 DEF EndsCompaction, EndsAs, TailAs, SameRow
  <2>2. CASE Len(msgs') = Len(msgs)
    BY <1>2, <1>5, <2>1, <2>2 DEF Extends
  <2>3. CASE Len(msgs') = k /\ msgs'[k].finish = "none" /\ msgs'[k].tail = 0
    <3>1. Len(msgs) + 1..Len(msgs') = {k} /\ Len(msgs) <= Len(msgs')
      BY <1>2, <1>k, <2>3
    <3> QED BY <1>5, <2>1, <2>3, <3>1 DEF Extends
  <2> QED BY <1>5, <2>2, <2>3
<1>8. /\ Rows \subseteq Rows' /\ Rows' \ Rows = IF Len(msgs') = Len(msgs) THEN {} ELSE {k}
      /\ Len(msgs') \in Nat /\ Rows' = 1..Len(msgs') /\ Len(msgs) <= Len(msgs')
  <2>1. Rows' = 1..Len(msgs') /\ Rows \subseteq Rows' /\ Len(msgs') \in Nat /\ Len(msgs) <= Len(msgs')
    BY <1>2, <1>7, MoreRows DEF Extends
  <2> QED BY <1>2, <1>k, <1>5, <2>1
<1>9. \A i \in Rows' \ Rows : msgs'[i].kind \in Short!Asks /\ ~msgs'[i].overflow
  BY <1>5, <1>8
<1>10. Between' /\ TailsLate' /\ Short!Turn' = t
  BY <1>1, <1>t, <1>6, <1>7, <1>9, CompactEndKeeps
<1>11. AllPresented' /\ Ordered'
  <2>1. CASE msgs[p].kind # "compaction"
    <3>1. FALSE \in BOOLEAN
      OBVIOUS
    <3> QED BY <1>1, <1>p, <1>6, <1>7, <2>1, <3>1, SamePresented
  <2>2. CASE msgs[p].kind = "compaction"
    <3>1. Ordered' /\ Short!Begin' = TailStart /\ Short!Told(Summaries)' = msgs[t].covers
      BY <1>1, <1>t, <1>p, <1>6, <1>7, <1>9, <2>2, NewSummary
    <3>2. Presented' = (TailStart..Len(msgs')) \cup msgs[t].covers
      BY <3>1 DEF Presented, Short!Shown
    <3>3. TailStart \in Nat /\ TailStart <= p
      <4>1. task.tail \in Nat /\ task.tail < p
        BY <1>p, <1>2, <2>2 DEF AtCompact
      <4> QED BY <1>p, <1>2, <4>1 DEF TailStart
    <3> SUFFICES ASSUME NEW i \in Rows', Ordinary(i)' PROVE \E j \in Presented' : StandsFor(j, i)'
      BY <3>1 DEF AllPresented
    <3>4. CASE p < i
      <4>1. i \in Presented'
        BY <1>2, <1>8, <3>2, <3>3, <3>4
      <4> QED BY <4>1 DEF StandsFor
    <3>5. CASE ~(p < i)
      <4>1. i \in 1..p /\ i \in Rows
        BY <1>2, <1>8, <3>5
      <4>2. Ordinary(i)
        BY <1>2, <1>7, <4>1, MoreRows
      <4>3. \/ \E j \in msgs[t].covers \cup (TailStart..p) : StandsFor(j, i)
            \/ (task.replay # 0 /\ msgs[task.replay].of <= i)
        BY <1>t, <1>p, <1>2, <2>2, <4>1, <4>2 DEF AtCompact
      <4>4. CASE task.replay # 0 /\ msgs[task.replay].of <= i
        <5>1. Len(msgs') = k /\ msgs'[k].kind = "replay" /\ msgs'[k].of <= i
          BY <1>5, <4>4
        <5>2. i < k /\ k \in Presented'
          BY <1>2, <1>k, <3>2, <3>3, <4>1, <5>1
        <5> QED BY <5>1, <5>2 DEF StandsFor
      <4>5. ASSUME NEW j \in msgs[t].covers \cup (TailStart..p), StandsFor(j, i)
            PROVE \E q \in Presented' : StandsFor(q, i)'
        <5>1. msgs[t].covers \subseteq 1..t
          BY <1>2, RowsAre DEF SoundRow
        <5>2. j \in Int /\ j <= Len(msgs) /\ i <= j
          BY <1>2, <4>1, <4>5, <5>1 DEF StandsFor
        <5>3. j \in Rows /\ j \in Presented'
          <6>1. j \in Rows
            BY <1>2, <4>1, <5>2
          <6>2. TailStart..p \subseteq TailStart..Len(msgs')
            BY <1>2, <1>8, <3>3
          <6> QED BY <3>2, <4>5, <6>1, <6>2
        <5>4. msgs'[j].kind = msgs[j].kind /\ msgs'[j].of = msgs[j].of
          BY <1>7, <5>3 DEF Extends, SameRow
        <5> QED BY <4>5, <5>3, <5>4 DEF StandsFor
      <4> QED BY <4>3, <4>4, <4>5
    <3> QED BY <3>4, <3>5
  <2> QED BY <2>1, <2>2
<1>12. AtTop'
  <2>1. CASE Len(msgs') = Len(msgs)
    <3>1. ~msgs[t].auto /\ msgs'[t].auto = msgs[t].auto /\ msgs'[t].finish = "stop"
      <4>1. Len(msgs) # k
        BY <1>2, <1>k
      <4> QED BY <1>t, <1>5, <1>6, <2>1, <4>1 DEF EndsCompaction, EndsAs
    <3>2. Rows' = Rows /\ \A i \in Rows : (Short!IsUser(i)' <=> Short!IsUser(i))
      BY <1>2, <1>7, <2>1, MoreRows
    <3>3. \A b \in Rows : b # t => msgs'[b].finish = msgs[b].finish
      BY <1>t, <1>6 DEF EndsCompaction, TailAs
    <3>4. Followed(Len(msgs))'
      <4> SUFFICES ASSUME NEW b \in 1..Len(msgs'), ~Short!IsUser(b)', ~Ended(b)'
                   PROVE  \E u \in b + 1..Len(msgs') : Short!IsUser(u)'
        BY DEF Followed
      <4>1. b \in Rows /\ b # t
        BY <1>2, <2>1, <3>1 DEF Ended
      <4>2. ~Short!IsUser(b) /\ ~Ended(b)
        BY <3>2, <3>3, <4>1 DEF Ended
      <4>3. PICK u \in b + 1..Len(msgs) : Short!IsUser(u)
        BY <1>2, <4>1, <4>2
      <4>4. u \in Rows
        BY <1>2, <4>1
      <4> QED BY <2>1, <3>2, <4>3, <4>4
    <3>5. Len(msgs') # 0
      BY <1>2, <2>1
    <3>6. ~msgs'[Short!Turn'].auto
      BY <1>10, <3>1
    <3> QED BY <3>4, <3>5, <3>6 DEF AtTop
  <2>2. CASE Len(msgs') # Len(msgs)
    <3>1. Len(msgs') = k /\ Short!IsUser(k)'
      BY <1>5, <2>2 DEF Short!IsUser
    <3> QED BY <1>2, <1>k, <1>7, <3>1, TopAfterUser
  <2> QED BY <2>1, <2>2
<1>13. seen' \subseteq Rows' /\ task' = Short!NoTask' /\ calls' \in 0..MaxCalls
  BY <1>1, <1>8 DEF ShortInv, Short!NoTask
<1> QED BY <1>1, <1>5, <1>10, <1>11, <1>12, <1>13 DEF ShortInv

-----------------------------------------------------------------------------
(* A compaction starts. *)

\* The oldest request that is pending: every answer that has ended is older.
LEMMA OldestIs ==
  ASSUME ShortInv, run = "read", Short!Pending # {}, NEW n, ReadTo(n)
  PROVE  /\ Short!Oldest \in seen /\ Short!Oldest \in Rows /\ msgs[Short!Oldest].kind = "compaction"
         /\ \A a \in Rows : ~Short!IsUser(a) /\ Ended(a) => a < Short!Oldest
<1>1. /\ SoundRows(msgs) /\ Ordered /\ Rows = 1..Len(msgs) /\ Len(msgs) \in Nat
  BY RowsAre DEF ShortInv
<1>2. /\ n \in Nat /\ n \in Rows /\ seen = Short!Begin..n /\ Short!Begin \in 1..n /\ seen \in SUBSET (1..n)
      /\ \A a \in Rows : ~Short!IsUser(a) => a <= n
  BY <1>1, ReadFacts
<1>3. PICK o \in Short!Pending : \A j \in Short!Pending : o <= j
  <2>1. Short!Pending \in SUBSET Nat
    BY <1>2 DEF Short!Pending
  <2> QED BY <2>1, Numbers!LeastOf
<1>4. PICK x : x = Short!Oldest
  OBVIOUS
<1>5. x \in Short!Pending
  BY <1>3, <1>4 DEF Short!Oldest, Short!Min
<1>6. PICK b : b = Short!LastFinished
  OBVIOUS
<1>7. x \in seen /\ msgs[x].kind = "compaction" /\ x > b
  BY <1>5, <1>6 DEF Short!Pending
<1> DEFINE E == {i \in Short!Answers(seen) : msgs[i].finish # "none"}
<1>8. b \in 0..n /\ \A i \in E : i <= b
  <2>1. E \in SUBSET (1..n) /\ b = Short!Newest(E)
    BY <1>2, <1>6 DEF Short!Answers, Short!LastFinished
  <2> HIDE DEF E
  <2> QED BY <1>2, <2>1, NewestIs
<1>9. ASSUME NEW a \in Rows, ~Short!IsUser(a), Ended(a) PROVE a < x
  <2>1. a <= n /\ a \in Nat
    BY <1>1, <1>2, <1>9
  <2>2. CASE a \in seen
    <3>1. a \in E
      BY <1>9, <2>2 DEF Short!Answers, Ended
    <3> QED BY <1>2, <1>7, <1>8, <2>1, <3>1
  <2>3. CASE a \notin seen
    <3>1. a < Short!Begin
      BY <1>2, <2>1, <2>3
    <3> QED BY <1>2, <1>7, <2>1, <3>1
  <2> QED BY <2>2, <2>3
<1>10. x \in Rows
  BY <1>1, <1>2, <1>7
<1> QED BY <1>4, <1>7, <1>9, <1>10

\* The summary answers the last message that was read.
LEMMA ParentIs ==
  ASSUME ShortInv, run = "read", Short!Pending # {}, NEW n, ReadTo(n)
  PROVE  Short!Parent = n /\ Short!IsUser(n) /\ msgs[n].tail = 0
<1>1. /\ SoundRows(msgs) /\ Ordered /\ Rows = 1..Len(msgs) /\ Len(msgs) \in Nat
  BY RowsAre DEF ShortInv
<1>2. /\ n \in Nat /\ n \in Rows /\ seen = Short!Begin..n /\ Short!Begin \in 1..n /\ seen \in SUBSET (1..n)
      /\ \A a \in Rows : ~Short!IsUser(a) => a <= n
  BY <1>1, ReadFacts
<1>3. PICK x : x = Short!Oldest
  OBVIOUS
<1>4. x \in seen /\ msgs[x].kind = "compaction" /\ \A a \in Rows : ~Short!IsUser(a) /\ Ended(a) => a < x
  BY <1>3, OldestIs
<1>5. Short!IsUser(n)
  <2> SUFFICES ASSUME ~Short!IsUser(n) PROVE FALSE
    OBVIOUS
  <2>1. CASE Ended(n)
    <3>1. n < x
      BY <1>2, <1>4, <2>1
    <3> QED BY <1>2, <1>4, <3>1
  <2>2. CASE ~Ended(n)
    <3>1. n \in 1..n
      BY <1>1, <1>2
    <3>2. \E u \in n + 1..n : Short!IsUser(u)
      BY <2>2, <3>1 DEF ReadTo, Followed
    <3> QED BY <1>2, <3>2
  <2> QED BY <2>1, <2>2
<1>6. Short!Parent = n
  <2>1. PICK q : q = Short!Newest(Short!Users(seen))
    OBVIOUS
  <2>2. Short!Users(seen) \in SUBSET (1..n) /\ n \in Short!Users(seen)
    BY <1>2, <1>5 DEF Short!Users
  <2>3. q \in 0..n /\ n <= q
    BY <1>2, <2>1, <2>2, NewestIs
  <2> QED BY <1>2, <2>1, <2>3 DEF Short!Parent
<1>7. msgs[n].tail = 0
  <2> SUFFICES ASSUME msgs[n].tail # 0 PROVE FALSE
    OBVIOUS
  <2>1. PICK a \in n + 1..Len(msgs) : ~Short!IsUser(a)
    BY <1>2 DEF ShortInv, TailsLate
  <2>2. a \in Rows /\ n < a
    BY <1>1, <1>2, <2>1
  <2> QED BY <1>1, <1>2, <2>1, <2>2
<1> QED BY <1>5, <1>6, <1>7

\* The message that is sent again is the last prompt before the end.
LEMMA ReplayIs ==
  ASSUME ShortInv, run = "read", Short!Pending # {}, NEW n, ReadTo(n), NEW r, r = Short!Replay
  PROVE  /\ r \in 0..n
         /\ r # 0 => /\ r \in seen /\ r < n /\ msgs[Short!Oldest].overflow
                     /\ \A x \in seen : msgs[x].kind \in Short!Asks /\ x < n => x <= r
<1>1. SoundRows(msgs) /\ Ordered
  BY DEF ShortInv
<1>2. n \in Nat /\ seen \in SUBSET (1..n)
  BY <1>1, ReadFacts
<1>3. PICK p : p = Short!Parent
  OBVIOUS
<1>4. p = n
  BY <1>3, ParentIs
<1> DEFINE L == {i \in Short!PromptsIn(seen) : i < p}
<1>5. L = {i \in seen : msgs[i].kind \in Short!Asks /\ i < n}
  BY <1>4 DEF Short!PromptsIn
<1>6. PICK last : last = Short!Newest(L)
  OBVIOUS
<1>7. (r = last /\ msgs[Short!Oldest].overflow) \/ r = 0
  BY <1>3, <1>6 DEF Short!Replay
<1>8. L \in SUBSET (1..n)
  BY <1>2, <1>5
<1>9. last \in 0..n /\ (last # 0 => last \in L) /\ \A i \in L : i <= last
  <2> HIDE DEF L
  <2> QED BY <1>2, <1>6, <1>8, NewestIs
<1> HIDE DEF L
<1>10. CASE r = 0
  BY <1>2, <1>10
<1>11. CASE r # 0
  <2>1. r = last /\ msgs[Short!Oldest].overflow
    BY <1>7, <1>11
  <2> QED BY <1>5, <1>9, <1>11, <2>1
<1> QED BY <1>10, <1>11

\* What is summarised, and what is told of the summary before.
LEMMA HistoryIs ==
  ASSUME ShortInv, run = "read", Short!Pending # {}, NEW n, ReadTo(n), msgs[n].kind = "compaction",
         NEW r, r = Short!Replay
  PROVE  Short!History = {i \in seen : i < (IF r = 0 THEN n ELSE r)}
<1>1. SoundRows(msgs) /\ Ordered
  BY DEF ShortInv
<1>2. /\ n \in Nat /\ n # 0 /\ seen = Short!Begin..n /\ Short!Begin \in 1..n /\ seen \in SUBSET (1..n)
  BY <1>1, ReadFacts
<1>3. PICK p : p = Short!Parent
  OBVIOUS
<1>4. p = n
  BY <1>3, ParentIs
<1>5. r \in 0..n /\ (r # 0 => r < n)
  BY ReplayIs
<1>6. CASE r = 0
  <2>1. Short!Newest(seen) = n
    <3>1. PICK q : q = Short!Newest(seen)
      OBVIOUS
    <3>2. q \in 0..n /\ n <= q
      BY <1>2, <3>1, NewestIs
    <3> QED BY <1>2, <3>1, <3>2
  <2>2. Short!History = seen \ {n}
    BY <1>3, <1>4, <1>6, <2>1 DEF Short!History
  <2> QED BY <1>2, <1>6, <2>2
<1>7. CASE r # 0
  <2> DEFINE M == {i \in seen : i < r}
  <2>1. n \notin M
    BY <1>2, <1>5, <1>7
  <2>2. Short!History = M \/ Short!History = M \ {n}
    BY <1>3, <1>4, <1>7 DEF Short!History
  <2> QED BY <1>7, <2>1, <2>2
<1> QED BY <1>6, <1>7

LEMMA PriorIs ==
  ASSUME ShortInv, run = "read", Short!Pending # {}, NEW n, ReadTo(n), msgs[n].kind = "compaction"
  PROVE  Short!Prior = Short!Told(Summaries)
<1>1. /\ SoundRows(msgs) /\ Ordered /\ Rows = 1..Len(msgs) /\ Len(msgs) \in Nat
  BY RowsAre DEF ShortInv
<1>2. /\ n \in Nat /\ n \in Rows /\ seen = Short!Begin..n /\ Short!Begin \in 1..n /\ seen \in SUBSET (1..n)
      /\ Summaries # {} => \E c \in seen : NewestSummary(c) /\ msgs[c].parent \in seen
  BY <1>1, ReadFacts
<1>3. PICK r : r = Short!Replay
  OBVIOUS
<1>4. PICK H : H = Short!History
  OBVIOUS
<1>5. H = {i \in seen : i < (IF r = 0 THEN n ELSE r)}
  BY <1>3, <1>4, HistoryIs
<1>6. /\ r \in 0..n
      /\ r # 0 => /\ r \in seen /\ r < n /\ msgs[Short!Oldest].overflow
                  /\ \A x \in seen : msgs[x].kind \in Short!Asks /\ x < n => x <= r
  BY <1>3, ReplayIs
<1>7. Short!Completed(H) = {s \in H : Short!Done(s) /\ msgs[s].parent \in H /\ msgs[msgs[s].parent].kind = "compaction"}
  BY DEF Short!Completed
<1>8. Summaries = {i \in Rows : Short!Done(i) /\ msgs[i].parent \in Rows /\ msgs[msgs[i].parent].kind = "compaction"}
  BY <1>1, RowsAre DEF Summaries, Short!Completed
<1>9. Short!Completed(H) \subseteq Summaries
  <2>1. H \subseteq Rows
    BY <1>1, <1>2, <1>5
  <2> QED BY <1>7, <1>8, <2>1
<1>10. Short!Prior = Short!Told(Short!Completed(H))
  BY <1>4 DEF Short!Prior
<1>11. CASE Summaries = {}
  BY <1>9, <1>10, <1>11 DEF Short!Told
<1>12. CASE Summaries # {}
  <2>1. PICK c \in seen : NewestSummary(c) /\ msgs[c].parent \in seen
    BY <1>2, <1>12
  <2>2. /\ c \in Summaries /\ c \in Rows /\ msgs[c].kind = "summary" /\ Ended(c) /\ ~Short!IsUser(c)
        /\ msgs[c].parent < c /\ msgs[c].parent \in Rows
    BY <1>1, <2>1, SummariesAre DEF NewestSummary
  <2>3. PICK o : o = Short!Oldest
    OBVIOUS
  <2>4. o \in seen /\ o \in Rows /\ c < o
    BY <2>2, <2>3, OldestIs
  <2>5. c < n
    BY <1>1, <1>2, <2>2, <2>4
  <2>6. c \in H
    <3>1. CASE r = 0
      BY <1>5, <2>1, <2>5, <3>1
    <3>2. CASE r # 0
      <4>1. PICK x \in c + 1..o - 1 : msgs[x].kind \in Short!Asks
        BY <1>6, <2>2, <2>3, <2>4, <3>2 DEF ShortInv, Between
      <4>2. x \in seen /\ c < x /\ x < n
        BY <1>1, <1>2, <2>1, <2>2, <2>4, <4>1
      <4>3. x <= r
        BY <1>6, <3>2, <4>1, <4>2
      <4>4. c < r
        BY <1>1, <1>2, <1>6, <2>2, <4>2, <4>3
      <4> QED BY <1>5, <2>1, <3>2, <4>4
    <3> QED BY <3>1, <3>2
  <2>7. msgs[c].parent \in H
    <3>1. \A i \in seen : i < c => i \in H
      BY <1>1, <1>2, <1>5, <1>6, <2>6
    <3> QED BY <2>1, <2>2, <3>1
  <2>8. c \in Short!Completed(H)
    BY <1>7, <1>8, <2>2, <2>6, <2>7
  <2>9. Short!Newest(Short!Completed(H)) = c
    <3>1. PICK q : q = Short!Newest(Short!Completed(H))
      OBVIOUS
    <3>2. Short!Completed(H) \in SUBSET (1..n)
      BY <1>2, <1>5, <1>7
    <3>3. q \in Short!Completed(H) /\ c <= q
      BY <1>2, <2>8, <3>1, <3>2, NewestIs
    <3>4. q \in Summaries /\ q <= c /\ q \in Nat
      BY <1>9, <2>1, <3>2, <3>3 DEF NewestSummary
    <3>5. q = c
      BY <1>1, <2>2, <3>3, <3>4
    <3> QED BY <3>1, <3>5
  <2>10. Short!Prior = msgs[c].covers
    BY <1>10, <2>8, <2>9 DEF Short!Told
  <2> QED BY <2>1, <2>10 DEF NewestSummary
<1> QED BY <1>11, <1>12

\* Every message is in the summary or in the tail, or sent again.
LEMMA AllCovered ==
  ASSUME ShortInv, run = "read", Short!Pending # {}, NEW n, ReadTo(n), msgs[n].kind = "compaction",
         NEW tail \in Short!Tails, NEW r, r = Short!Replay, NEW i \in 1..n, Ordinary(i)
  PROVE  \/ \E j \in (Short!Summarised(tail) \cup Short!Prior) \cup ((IF tail = 0 THEN n ELSE tail)..n) : StandsFor(j, i)
         \/ (r # 0 /\ msgs[r].of <= i)
<1>1. /\ SoundRows(msgs) /\ Ordered /\ Rows = 1..Len(msgs) /\ Len(msgs) \in Nat
  BY RowsAre DEF ShortInv
<1>2. /\ n \in Nat /\ n \in Rows /\ seen = Short!Begin..n /\ Short!Begin \in 1..n /\ seen \in SUBSET (1..n)
  BY <1>1, ReadFacts
<1>3. PICK H : H = Short!History
  OBVIOUS
<1>4. H = {j \in seen : j < (IF r = 0 THEN n ELSE r)}
  BY <1>3, HistoryIs
<1>5. /\ r \in 0..n
      /\ r # 0 => /\ r \in seen /\ r < n
                  /\ \A x \in seen : msgs[x].kind \in Short!Asks /\ x < n => x <= r
  BY ReplayIs
<1>6. PICK j \in Presented : StandsFor(j, i)
  <2>1. i \in Rows
    BY <1>1, <1>2
  <2> QED BY <2>1 DEF ShortInv, AllPresented
<1>7. CASE j \in Short!Told(Summaries)
  <2>1. j \in Short!Prior
    BY <1>7, PriorIs
  <2> QED BY <1>6, <2>1
<1>8. CASE j \notin Short!Told(Summaries)
  <2>1. j \in Short!Begin..Len(msgs)
    BY <1>8 DEF Presented, Short!Shown
  <2>2. j \in Nat /\ (j = i \/ (msgs[j].kind = "replay" /\ msgs[j].of <= i /\ i < j))
    BY <1>2, <1>6, <2>1 DEF StandsFor
  <2>3. msgs[j].kind \notin {"compaction", "summary"}
    BY <2>2 DEF Ordinary
  <2>4. j <= n
    <3> SUFFICES ASSUME ~(j <= n) PROVE FALSE
      OBVIOUS
    <3>1. j # i /\ j \in n + 1..Len(msgs)
      BY <1>1, <1>2, <2>1, <2>2
    <3>2. Later(j)
      BY <3>1 DEF ReadTo
    <3> QED BY <2>2, <3>1, <3>2 DEF Later
  <2>5. j \in seen /\ j # n
    BY <1>2, <2>1, <2>2, <2>3, <2>4
  <2>6. CASE j \in H
    <3>1. j \in Short!Candidates
      <4>1. \A s \in Short!Completed(H) : msgs[s].kind = "summary" /\ msgs[msgs[s].parent].kind = "compaction"
        BY DEF Short!Completed, Short!Done
      <4>2. j \notin Short!Completed(H) \cup {msgs[s].parent : s \in Short!Completed(H)}
        BY <2>3, <4>1
      <4> QED BY <1>3, <2>6, <4>2 DEF Short!Candidates
    <3>2. tail \in Nat
      <4>1. tail = 0 \/ tail \in Short!Candidates
        BY DEF Short!Tails
      <4>2. Short!Candidates \subseteq seen
        BY <1>3, <1>4 DEF Short!Candidates
      <4>3. tail = 0 \/ tail \in 1..n
        BY <1>2, <4>1, <4>2
      <4> QED BY <4>3
    <3>3. CASE tail = 0 \/ j < tail
      <4>1. j \in Short!Summarised(tail)
        BY <3>1, <3>3 DEF Short!Summarised
      <4> QED BY <1>6, <4>1
    <3>4. CASE ~(tail = 0 \/ j < tail)
      <4>1. j \in (IF tail = 0 THEN n ELSE tail)..n
        BY <1>2, <2>2, <2>4, <3>2, <3>4
      <4> QED BY <1>6, <4>1
    <3> QED BY <3>3, <3>4
  <2>7. CASE j \notin H
    <3>1. r # 0 /\ r <= j
      BY <1>2, <1>4, <1>5, <2>2, <2>4, <2>5, <2>7
    <3>2. r \in Rows /\ msgs[r].of \in Nat /\ msgs[r].of <= r
      <4>1. r \in Rows
        BY <1>1, <1>2, <1>5, <3>1
      <4> QED BY <1>1, <4>1, RowsAre DEF SoundRow, Records
    <3>3. CASE j = i
      BY <1>2, <1>5, <2>2, <3>1, <3>2, <3>3
    <3>4. CASE j # i
      <4>1. msgs[j].kind \in Short!Asks /\ j < n
        BY <1>2, <2>2, <2>4, <2>5, <3>4 DEF Short!Asks
      <4>2. j <= r
        BY <1>5, <2>5, <3>1, <4>1
      <4>3. j = r
        BY <1>5, <2>2, <3>1, <4>2
      <4> QED BY <2>2, <3>1, <3>4, <4>3
    <3> QED BY <3>3, <3>4
  <2> QED BY <2>6, <2>7
<1> QED BY <1>7, <1>8

LEMMA TailIs ==
  ASSUME ShortInv, run = "read", Short!Pending # {}, NEW n, ReadTo(n), NEW tail \in Short!Tails
  PROVE  /\ tail \in Nat /\ (msgs[n].kind = "compaction" => tail < n)
         /\ Short!Summarised(tail) \cup Short!Prior \in SUBSET (1..n)
<1>1. /\ SoundRows(msgs) /\ Ordered /\ Rows = 1..Len(msgs) /\ Len(msgs) \in Nat
  BY RowsAre DEF ShortInv
<1>2. /\ n \in Nat /\ n \in Rows /\ n # 0 /\ seen \in SUBSET (1..n)
  BY <1>1, ReadFacts
<1>3. PICK H : H = Short!History
  OBVIOUS
<1>4. H \subseteq seen
  BY <1>3 DEF Short!History
<1>5. tail = 0 \/ tail \in H
  BY <1>3 DEF Short!Tails, Short!Candidates
<1>6. tail \in 0..n /\ H \in SUBSET (1..n)
  <2>1. H \in SUBSET (1..n)
    BY <1>2, <1>4
  <2>2. tail = 0 \/ tail \in 1..n
    BY <1>5, <2>1
  <2> QED BY <1>2, <2>1, <2>2
<1>7. ASSUME msgs[n].kind = "compaction" PROVE tail < n
  <2>1. PICK r : r = Short!Replay
    OBVIOUS
  <2>2. H = {i \in seen : i < (IF r = 0 THEN n ELSE r)}
    BY <1>3, <1>7, <2>1, HistoryIs
  <2>3. r # 0 => r < n /\ r \in 0..n
    BY <2>1, ReplayIs
  <2> QED BY <1>2, <1>5, <1>6, <2>2, <2>3
<1>8. Short!Summarised(tail) \subseteq H
  BY <1>3 DEF Short!Summarised, Short!Candidates
<1>9. Short!Prior \subseteq 1..n
  <2>1. PICK D : D = Short!Completed(H)
    OBVIOUS
  <2>2. D \subseteq H
    BY <2>1 DEF Short!Completed
  <2>3. Short!Prior = IF D = {} THEN {} ELSE msgs[Short!Newest(D)].covers
    BY <1>3, <2>1 DEF Short!Prior, Short!Told
  <2>4. CASE D # {}
    <3>1. PICK q : q = Short!Newest(D)
      OBVIOUS
    <3>2. D \in SUBSET (1..n)
      BY <1>2, <1>4, <2>2
    <3>3. q \in D /\ q \in 1..n
      BY <1>2, <2>4, <3>1, <3>2, NewestIs
    <3>4. q \in Rows
      BY <1>1, <1>2, <3>3
    <3>5. msgs[q].covers \subseteq 1..q
      BY <1>1, <3>4, RowsAre DEF SoundRow
    <3> QED BY <1>2, <2>3, <2>4, <3>1, <3>3, <3>5
  <2> QED BY <2>3, <2>4
<1>10. Short!Summarised(tail) \subseteq 1..n
  BY <1>6, <1>8
<1>11. Short!Summarised(tail) \cup Short!Prior \subseteq 1..n
  BY <1>9, <1>10
<1>12. tail \in Nat
  BY <1>2, <1>6
<1> QED BY <1>7, <1>11, <1>12

LEMMA AfterCompact == ASSUME ShortInv, Short!Compact PROVE ShortInv'
<1>1. PICK tail \in Short!Tails :
        /\ run = "read" /\ Short!Pending # {} /\ run' = "compact" /\ seen' = seen /\ calls' = calls
        /\ msgs' = Append(msgs, [Short!Assistant("summary", Short!Parent, Short!Summarised(tail) \cup Short!Prior)
                                    EXCEPT !.auto = msgs[Short!Oldest].auto])
        /\ task' = [request |-> Short!Oldest, parent |-> Short!Parent, replay |-> Short!Replay, tail |-> tail]
  BY DEF Short!Compact
<1>2. PICK n \in Rows : ReadTo(n)
  BY <1>1 DEF ShortInv, AtRead
<1>3. /\ SoundRows(msgs) /\ Ordered /\ Rows = 1..Len(msgs) /\ Len(msgs) \in Nat /\ seen \subseteq Rows
  BY RowsAre DEF ShortInv
<1>o. PICK o : o = Short!Oldest
  OBVIOUS
<1>r. PICK r : r = Short!Replay
  OBVIOUS
<1>c. PICK covers : covers = Short!Summarised(tail) \cup Short!Prior
  OBVIOUS
<1>k. PICK k : k = Len(msgs) + 1
  OBVIOUS
<1>4. /\ o \in seen /\ o \in Rows /\ msgs[o].kind = "compaction"
      /\ \A a \in Rows : ~Short!IsUser(a) /\ Ended(a) => a < o
  BY <1>1, <1>2, <1>o, OldestIs
<1>5. Short!Parent = n /\ Short!IsUser(n) /\ msgs[n].tail = 0
  BY <1>1, <1>2, ParentIs
<1>6. n \in Nat /\ seen \in SUBSET (1..n) /\ n < k /\ k \in Nat
  <2>1. n \in Nat /\ seen \in SUBSET (1..n)
    BY <1>1, <1>2, <1>3, ReadFacts
  <2> QED BY <1>2, <1>3, <1>k, <2>1
<1>7. r \in 0..n /\ (r # 0 => r \in seen /\ msgs[o].overflow)
  BY <1>1, <1>2, <1>o, <1>r, ReplayIs
<1>8. tail \in Nat /\ (msgs[n].kind = "compaction" => tail < n) /\ covers \in SUBSET (1..n)
  BY <1>1, <1>2, <1>c, TailIs
<1>9. PICK auto \in BOOLEAN : auto = msgs[o].auto
  <2>1. msgs[o].auto \in BOOLEAN
    BY <1>3, <1>4, RowsAre DEF Records
  <2> QED BY <2>1
<1>10. PICK m : m = [Short!Assistant("summary", n, covers) EXCEPT !.auto = auto]
  OBVIOUS
<1>11. /\ m \in Records /\ m.kind = "summary" /\ m.of = 0 /\ m.parent = n /\ m.finish = "none"
       /\ m.tail = 0 /\ m.covers = covers /\ (m.auto <=> auto) /\ ~m.overflow
  <2>1. n \in Nat /\ covers \in SUBSET Nat /\ auto \in BOOLEAN
    BY <1>6, <1>8, <1>9
  <2> QED BY <1>10, <2>1 DEF Short!Assistant, Short!User, Records
<1>12. SoundRow(m, k)
  BY <1>6, <1>8, <1>11 DEF SoundRow
<1>13. msgs' = Append(msgs, m)
  BY <1>1, <1>o, <1>c, <1>5, <1>9, <1>10
<1>14. /\ Extends /\ SoundRows(msgs') /\ Len(msgs') = k /\ msgs'[k] = m
       /\ \A i \in Rows : msgs'[i] = msgs[i]
       /\ Short!Begin' = Short!Begin
       /\ AllPresented' /\ Ordered' /\ Between' /\ TailsLate'
  <2>1. ~(m.kind = "turn" \/ m.overflow)
    BY <1>11
  <2> QED BY <1>k, <1>11, <1>12, <1>13, <2>1, AppendKeeps
<1>15. Rows' \ Rows = {k} /\ Rows \subseteq Rows'
  BY <1>3, <1>k, <1>14, MoreRows
<1>16. Short!Turn' = k
  <2>1. ~Short!IsUser(k)'
    BY <1>11, <1>14 DEF Short!IsUser, Short!Asks
  <2> QED BY <1>3, <1>k, <1>14, <2>1, TurnIsAdded
<1>17. ReadTo(n)'
  BY <1>1, <1>2, <1>3, <1>14, <1>15, <1>16, StillRead
<1>18. /\ task'.request = o /\ task'.parent = n /\ task'.replay = r /\ task'.tail = tail
       /\ task' \in [request : Rows', parent : Rows', replay : {0} \cup Rows', tail : Nat]
  <2>1. task' = [request |-> o, parent |-> n, replay |-> r, tail |-> tail]
    BY <1>1, <1>o, <1>r, <1>5
  <2>2. o \in Rows' /\ n \in Rows' /\ r \in {0} \cup Rows'
    BY <1>2, <1>3, <1>4, <1>7, <1>15
  <2> QED BY <1>8, <2>1, <2>2
<1>19. TailStart' = IF tail = 0 THEN n ELSE tail
  BY <1>18 DEF TailStart
<1>20. Short!IsUser(n)' /\ msgs'[n].tail = 0 /\ msgs'[n].kind = msgs[n].kind
  BY <1>2, <1>5, <1>14 DEF Short!IsUser
<1>21. \A b \in Rows' : ~Short!IsUser(b)' /\ Ended(b)' => b < n
  <2> SUFFICES ASSUME NEW b \in Rows', ~Short!IsUser(b)', Ended(b)' PROVE b < n
    OBVIOUS
  <2>1. b \in Rows
    BY <1>11, <1>14, <1>15 DEF Ended
  <2>2. ~Short!IsUser(b) /\ Ended(b)
    BY <1>14, <2>1 DEF Short!IsUser, Ended
  <2>3. b < o /\ o \in 1..n
    BY <1>4, <1>6, <2>1, <2>2
  <2> QED BY <1>3, <1>6, <2>1, <2>3
<1>22. msgs'[k].auto \/ r # 0 => msgs'[o].auto
  <2>1. r # 0 => msgs[o].auto
    BY <1>3, <1>4, <1>7, RowsAre DEF SoundRow
  <2> QED BY <1>4, <1>9, <1>11, <1>14, <2>1
<1>23. msgs'[n].kind = "compaction" =>
         /\ tail < n
         /\ \A i \in 1..n : Ordinary(i)' =>
              \/ \E j \in covers \cup (TailStart'..n) : StandsFor(j, i)'
              \/ (r # 0 /\ msgs'[r].of <= i)
  <2> SUFFICES ASSUME msgs'[n].kind = "compaction", NEW i \in 1..n, Ordinary(i)'
               PROVE  \/ \E j \in covers \cup (TailStart'..n) : StandsFor(j, i)'
                      \/ (r # 0 /\ msgs'[r].of <= i)
    BY <1>8, <1>20
  <2>1. Ordinary(i) /\ msgs[n].kind = "compaction" /\ i \in Rows
    BY <1>2, <1>3, <1>6, <1>14, <1>20 DEF Ordinary
  <2>2. \/ \E j \in covers \cup (TailStart'..n) : StandsFor(j, i)
        \/ (r # 0 /\ msgs[r].of <= i)
    BY <1>1, <1>2, <1>c, <1>r, <1>19, <2>1, AllCovered
  <2>3. CASE r # 0 /\ msgs[r].of <= i
    <3>1. r \in Rows
      BY <1>3, <1>7, <2>3
    <3> QED BY <1>14, <2>3, <3>1
  <2>4. ASSUME NEW j \in covers \cup (TailStart'..n), StandsFor(j, i)
        PROVE  \E q \in covers \cup (TailStart'..n) : StandsFor(q, i)'
    <3>1. j \in Int /\ j <= n /\ i <= j
      BY <1>6, <1>8, <2>4 DEF StandsFor
    <3>2. j \in Rows
      BY <1>2, <1>3, <1>6, <3>1
    <3>3. StandsFor(j, i)'
      BY <1>14, <2>4, <3>2 DEF StandsFor
    <3> QED BY <3>3
  <2> QED BY <2>2, <2>3, <2>4
<1>24. AtCompact'
  <2>1. msgs'[k].covers = covers /\ msgs'[k].kind = "summary" /\ ~Ended(k)' /\ msgs'[k].parent = n
    BY <1>11, <1>14 DEF Ended
  <2> QED BY <1>6, <1>16, <1>17, <1>18, <1>20, <1>21, <1>22, <1>23, <2>1 DEF AtCompact
<1>25. seen' \subseteq Rows' /\ calls' \in 0..MaxCalls
  BY <1>1, <1>3, <1>15 DEF ShortInv
<1> QED BY <1>1, <1>14, <1>24, <1>25 DEF ShortInv

LEMMA NextShortInv == ASSUME ShortConstants, ShortInv, [Short!Next]_shortVars PROVE ShortInv'
<1>1. CASE Short!Prompt \/ \E auto \in BOOLEAN : Short!Summarize(auto)
  BY <1>1, AfterSave
<1>2. CASE Short!Exit
  BY <1>2, AfterExit
<1>3. CASE Short!Read
  BY <1>3, AfterShortRead
<1>4. CASE Short!CreateAfterTurn
  BY <1>4, AfterCreate
<1>5. CASE Short!StartTurn
  BY <1>5, AfterStart
<1>6. CASE Short!TurnEnds \/ Short!TurnFails
  BY <1>6, AfterTurnEnds
<1>7. CASE Short!TurnOverflows
  BY <1>7, AfterOverflow
<1>8. CASE Short!Compact
  BY <1>8, AfterCompact
<1>9. CASE Short!Compacted
  BY <1>9, AfterCompacted
<1>10. CASE Short!CompactFails \/ Short!CompactOverflows
  BY <1>10, AfterCompactFails
<1>11. CASE UNCHANGED shortVars
  <2>1. msgs' = msgs /\ run' = run /\ seen' = seen /\ task' = task /\ calls' = calls
    BY <1>11 DEF shortVars
  <2>2. Short!Turn' = Short!Turn /\ Short!Begin' = Short!Begin /\ Rows' = Rows
    BY <2>1 DEF Short!Turn, Short!Answers, Short!IsUser, Short!Begin, Short!Completed, Short!Done, Rows
  <2>3. AtTop => AtTop'
    BY <2>1, <2>2 DEF AtTop, Followed, Short!IsUser, Ended
  <2>4. \A n : ReadTo(n) => ReadTo(n)'
    BY <2>1, <2>2 DEF ReadTo, Followed, Later, Short!IsUser, Ended
  <2>5. AtRead => AtRead'
    <3>1. Short!Newest(Short!Answers(seen))' = Short!Newest(Short!Answers(seen))
      BY <2>1 DEF Short!Answers, Short!IsUser, Short!Newest, Short!Max
    <3>2. Short!Newest(Short!Users(seen))' = Short!Newest(Short!Users(seen))
      BY <2>1 DEF Short!Users, Short!IsUser, Short!Newest, Short!Max
    <3> QED BY <2>1, <2>2, <2>4, <3>1, <3>2 DEF AtRead
  <2>6. AtStream => AtStream'
    BY <2>1, <2>2, <2>4 DEF AtStream, Ended
  <2>7. AtCompact => AtCompact'
    <3>1. TailStart' = TailStart
      BY <2>1 DEF TailStart
    <3> QED BY <2>1, <2>2, <2>4, <3>1 DEF AtCompact, Ended, Ordinary, StandsFor, Short!IsUser
  <2> QED BY <2>1, <2>2, <2>3, <2>5, <2>6, <2>7, SameMessages DEF ShortInv, Short!NoTask
<1> QED BY <1>1, <1>2, <1>3, <1>4, <1>5, <1>6, <1>7, <1>8, <1>9, <1>10, <1>11 DEF Short!Next

\* The model is shown all that is presented up to the message that was read last.
LEMMA InvForgetsNothing == ASSUME ShortInv PROVE Short!HistoryIsKept
<1>1. /\ SoundRows(msgs) /\ Ordered /\ Rows = 1..Len(msgs) /\ Len(msgs) \in Nat /\ DOMAIN msgs = Rows
  BY RowsAre DEF ShortInv
<1>2. Short!TypeOK
  <2>1. \A i \in DOMAIN msgs : msgs[i].tail < i /\ msgs[i].parent < i /\ msgs[i].covers \subseteq 1..i
    BY <1>1, RowsAre DEF SoundRow
  <2>2. run = "compact" => task # Short!NoTask
    BY <1>1 DEF ShortInv, AtCompact, Short!NoTask
  <2> QED BY <1>1, <2>1, <2>2 DEF ShortInv, Short!TypeOK
<1>3. Short!NothingForgotten
  <2> SUFFICES ASSUME run = "stream", NEW i \in 1..Short!Newest(seen), Ordinary(i)
               PROVE  \/ i \in Short!Known
                      \/ \E j \in Short!PromptsIn(Short!Known) : msgs[j].kind = "replay" /\ msgs[j].of <= i /\ i < j
    BY DEF Short!NothingForgotten, Ordinary
  <2>1. PICK n \in Rows : ReadTo(n) /\ n < Short!Turn
    BY DEF ShortInv, AtStream
  <2>2. n \in Nat /\ seen = Short!Begin..n /\ Short!Begin \in 1..n
    BY <1>1, <2>1, BeginIs DEF ReadTo
  <2>3. i \in 1..n
    <3>1. PICK q : q = Short!Newest(seen)
      OBVIOUS
    <3>2. seen \in SUBSET (1..n)
      BY <2>2
    <3>3. q \in 0..n
      BY <2>2, <3>1, <3>2, NewestIs
    <3> QED BY <2>2, <3>1, <3>3
  <2>4. PICK j \in Presented : StandsFor(j, i)
    <3>1. i \in Rows
      BY <1>1, <2>1, <2>2, <2>3
    <3> QED BY <3>1 DEF ShortInv, AllPresented
  <2>5. Short!Told(Summaries) \subseteq Short!Known
    <3>1. CASE Summaries = {}
      BY <3>1 DEF Short!Told
    <3>2. CASE Summaries # {}
      <4>1. PICK c \in Summaries : NewestSummary(c) /\ Short!Begin <= msgs[c].parent
        BY <1>1, <3>2, BeginIs
      <4>2. c \in Rows /\ msgs[c].parent < c /\ msgs[c].parent \in Rows /\ Ended(c) /\ ~Short!IsUser(c) /\ Short!Done(c)
        <5>1. Short!Done(c)
          BY DEF Summaries, Short!Completed
        <5> QED BY <1>1, <5>1, SummariesAre
      <4>3. c <= n
        <5>1. c # Short!Turn
          BY <4>2 DEF ShortInv, AtStream
        <5>2. ~Later(c)
          BY <4>2 DEF Later, Short!IsUser, Short!Asks
        <5>3. c \notin n + 1..Len(msgs)
          BY <2>1, <5>1, <5>2 DEF ReadTo
        <5> QED BY <1>1, <2>2, <4>2, <5>3
      <4>4. c \in seen
        BY <1>1, <2>2, <4>1, <4>2, <4>3
      <4>5. msgs[c].covers \subseteq Short!Known
        BY <4>2, <4>4 DEF Short!Known
      <4> QED BY <4>1, <4>5 DEF NewestSummary
    <3> QED BY <3>1, <3>2
  <2>6. CASE j \in Short!Told(Summaries)
    <3>1. j \in Short!Known
      BY <2>5, <2>6
    <3> QED BY <2>4, <3>1 DEF StandsFor, Short!PromptsIn, Short!Asks
  <2>7. CASE j \notin Short!Told(Summaries)
    <3>1. j \in Short!Begin..Len(msgs)
      BY <2>7 DEF Presented, Short!Shown
    <3>2. j = i \/ (msgs[j].kind = "replay" /\ msgs[j].of <= i /\ i < j)
      BY <2>4 DEF StandsFor
    <3>3. j <= n
      <4> SUFFICES ASSUME ~(j <= n) PROVE FALSE
        OBVIOUS
      <4>1. j \in n + 1..Len(msgs) /\ j # i
        BY <1>1, <2>2, <2>3, <3>1
      <4>2. j = Short!Turn \/ Later(j)
        BY <2>1, <4>1 DEF ReadTo
      <4> QED BY <3>2, <4>1, <4>2 DEF Later, ShortInv, AtStream
    <3>4. j \in Short!Known
      BY <1>1, <2>2, <3>1, <3>3 DEF Short!Known
    <3> QED BY <3>2, <3>4 DEF Short!PromptsIn, Short!Asks
  <2> QED BY <2>6, <2>7
<1> QED BY <1>2, <1>3 DEF Short!HistoryIsKept

\* A message of the user after the summary keeps the loop from ending with it.
LEMMA ExitGoesOn ==
  ASSUME ShortInv, Short!Exit
  PROVE  ~(msgs[Short!Turn].kind = "summary" /\ msgs[Short!Turn].auto)
<1>1. /\ SoundRows(msgs) /\ Ordered /\ Rows = 1..Len(msgs) /\ Len(msgs) \in Nat
  BY RowsAre DEF ShortInv
<1>2. run = "top" /\ Short!ExitCheck /\ AtTop
  BY DEF Short!Exit, ShortInv
<1>3. PICK a, v : a = Short!Newest(Short!Answers(Short!Shown)) /\ v = Short!Newest(Short!Users(Short!Shown))
  OBVIOUS
<1>4. a # 0 /\ v < a
  BY <1>2, <1>3 DEF Short!ExitCheck
<1>5. Short!Begin \in 1..Len(msgs) + 1
  BY <1>1, BeginIs
<1>6. Short!Answers(Short!Shown) \in SUBSET (1..Len(msgs)) /\ Short!Users(Short!Shown) \in SUBSET (1..Len(msgs))
  BY <1>1, <1>5 DEF Short!Answers, Short!Users, Short!Shown
<1>7. a \in Short!Answers(Short!Shown) /\ a \in 1..Len(msgs) /\ v \in 0..Len(msgs) /\ \A u \in Short!Users(Short!Shown) : u <= v
  BY <1>1, <1>3, <1>4, <1>6, NewestIs
<1>8. a \in Rows /\ ~Short!IsUser(a) /\ Short!Begin <= a
  BY <1>1, <1>5, <1>7 DEF Short!Answers, Short!Shown
<1>9. a <= Short!Turn /\ Short!Turn \in 0..Len(msgs) /\ Short!Turn # 0
  <2>1. a <= Short!Turn /\ Short!Turn \in 0..Len(msgs)
    BY <1>1, <1>8, TurnIs
  <2> QED BY <1>7, <2>1
<1> SUFFICES ASSUME msgs[Short!Turn].kind = "summary", msgs[Short!Turn].auto PROVE FALSE
  OBVIOUS
<1>10. PICK u \in Short!Turn + 1..Len(msgs) : Short!IsUser(u)
  BY <1>2, <1>9 DEF AtTop
<1>11. u \in Short!Users(Short!Shown)
  BY <1>1, <1>5, <1>8, <1>9, <1>10 DEF Short!Users, Short!Shown
<1> QED BY <1>1, <1>4, <1>7, <1>9, <1>10, <1>11

\* Over any number of compactions, of which some may fail, the model is shown every message
\* or a summary of it, but for what came before a prompt that is sent again.
THEOREM NothingIsForgotten == ASSUME ShortConstants PROVE SessionSpec => []HistoryIsKept
<1>1. SessionInit => ShortInv
  BY InitShortInv, Starts DEF PartsStart
<1>2. ShortInv /\ [SessionNext]_sessionVars => ShortInv'
  BY NextShortInv, Steps DEF PartsStep
<1>3. ShortInv => HistoryIsKept
  BY InvForgetsNothing DEF HistoryIsKept
<1> QED BY <1>1, <1>2, <1>3, PTL DEF SessionSpec

LEMMA GoesOn == ASSUME ShortConstants PROVE SessionSpec => Short!AutoGoesOn
<1>1. SessionInit => ShortInv
  BY InitShortInv, Starts DEF PartsStart
<1>2. ShortInv /\ [SessionNext]_sessionVars => ShortInv'
  BY NextShortInv, Steps DEF PartsStep
<1>3. ShortInv => [Short!Exit => ~(msgs[Short!Turn].kind = "summary" /\ msgs[Short!Turn].auto)]_shortVars
  BY ExitGoesOn
<1> QED BY <1>1, <1>2, <1>3, PTL DEF SessionSpec, Short!AutoGoesOn, Short!cvars, shortVars

\* Of the steps: a prompt after a revert keeps just the older messages, a run does not return
\* with the summary it asked for itself, and what a turn has ended with stays.
THEOREM SessionStepsAreSound ==
  ASSUME RevertConstants, ShortConstants, Sensible
  PROVE  SessionSpec => StepsAreSound
BY KeepsOlder, GoesOn, Stays DEF StepsAreSound

-----------------------------------------------------------------------------
(***************************************************************************)
(* EffectFlock.  What Flock_proofs shows of its steps is shown of these:   *)
(* they are the same ones, definition by definition.                       *)
(***************************************************************************)

LEMMA SameTry == ASSUME NEW p PROVE Effect!TryAcquire(p) <=> Locks!TryAcquire(p)
BY DEF Effect!TryAcquire, Locks!TryAcquire, Effect!Mkdir, Locks!Mkdir, Effect!Check, Locks!Check, Effect!Claim, Locks!Claim,
      Effect!StatBreaker, Locks!StatBreaker, Effect!RmBreaker, Locks!RmBreaker, Effect!Recheck, Locks!Recheck, Effect!RmStale, Locks!RmStale,
      Effect!Remkdir, Locks!Remkdir, Effect!Unclaim, Locks!Unclaim, Effect!WriteHeartbeat, Locks!WriteHeartbeat, Effect!WriteMeta, Locks!WriteMeta,
      Effect!RmCompromised, Locks!RmCompromised, Effect!At, Locks!At, Effect!Goto, Locks!Goto, Effect!Exists, Locks!Exists,
      Effect!Stale, Locks!Stale, Effect!NoLock, Locks!NoLock, Effect!NoBreaker, Locks!NoBreaker, Effect!Fresh, Locks!Fresh

LEMMA SameStep == [Effect!ENext]_effectVars <=> [Locks!ENext]_(Locks!evars)
BY SameTry DEF effectVars, Effect!ENext, Locks!ENext, Effect!evars, Locks!evars, Effect!vars, Locks!vars, Effect!ETryAcquire, Locks!ETryAcquire,
      Effect!ERetry, Locks!ERetry, Effect!Retry, Locks!Retry, Effect!GiveUp, Locks!GiveUp, Effect!ERelease, Locks!ERelease,
      Effect!Release, Locks!Release, Effect!ReadMeta, Locks!ReadMeta, Effect!RmOwn, Locks!RmOwn, Effect!Beat, Locks!Beat,
      Effect!ETick, Locks!ETick, Effect!Timely, Locks!Timely, Effect!Older, Locks!Older, Effect!Acquire, Locks!Acquire,
      Effect!Crash, Locks!Crash, Effect!Breaking, Locks!Breaking, Effect!Owning, Locks!Owning, Effect!Dead, Locks!Dead,
      Effect!At, Locks!At, Effect!Goto, Locks!Goto, Effect!Exists, Locks!Exists, Effect!Stale, Locks!Stale,
      Effect!NoLock, Locks!NoLock, Effect!NoBreaker, Locks!NoBreaker, Effect!Fresh, Locks!Fresh

LEMMA SameStart == Effect!EInit <=> Locks!EInit
BY DEF Effect!EInit, Locks!EInit, Effect!Init, Locks!Init, Effect!NoLock, Locks!NoLock, Effect!NoBreaker, Locks!NoBreaker

LEMMA SameExclusion == Effect!EffectExcludes <=> Locks!EffectExcludes
BY DEF Effect!EffectExcludes, Locks!EffectExcludes, Effect!ETypeOK, Locks!ETypeOK, Effect!TypeOK, Locks!TypeOK, Effect!MutualExclusion, Locks!MutualExclusion,
      Effect!HeldLockFresh, Locks!HeldLockFresh, Effect!BreakerDied, Locks!BreakerDied, Effect!Age, Locks!Age, Effect!Owner, Locks!Owner,
      Effect!LockDir, Locks!LockDir, Effect!BreakerDir, Locks!BreakerDir, Effect!PCs, Locks!PCs, Effect!Breaking, Locks!Breaking,
      Effect!Owning, Locks!Owning, Effect!Dead, Locks!Dead, Effect!At, Locks!At, Effect!Exists, Locks!Exists,
      Effect!Stale, Locks!Stale

\* withLock of effect-flock.ts: two bodies that are shorter than STALE_MS are never
\* both inside, though every beat writes the date of the acquisition.
THEOREM EffectBodiesExclude ==
  ASSUME None \notin EProcs, ~LongBody
  PROVE  SessionSpec => []EffectExcludes
<1>1. SessionInit => Locks!EInv
  BY Starts, SameStart, Locks!InitEInv, StaleAssumption DEF PartsStart
<1>2. Locks!EInv /\ [SessionNext]_sessionVars => Locks!EInv'
  BY Steps, SameStep, Locks!NextEInv, StaleAssumption DEF PartsStep
<1>3. Locks!EInv => EffectExcludes
  BY SameExclusion, Locks!EInvExcludes, StaleAssumption DEF EffectExcludes
<1> QED BY <1>1, <1>2, <1>3, PTL DEF SessionSpec
=============================================================================
