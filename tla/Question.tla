------------------------------ MODULE Question ------------------------------
(***************************************************************************)
(* The questions that the tool `question` asks the user: question/index.ts *)
(* and the dialogs of the terminal clients, which follow the events.       *)
(*                                                                         *)
(* Two clients may answer one question.  A client does not ask for the     *)
(* list of questions: what it shows comes from events only, and an event   *)
(* of a time in which it was not connected does not reach it.              *)
(*                                                                         *)
(* A fiber gives way to others after so many operations, in the middle of  *)
(* ask or reply too.                                                       *)
(***************************************************************************)
EXTENDS Naturals, Sequences

CONSTANTS
    Questions,
    Viewers,  \* the clients
    Choices,  \* what the user may choose
    NoAnswer

VARIABLES
    pending,   \* the map of the instance
    asker,     \* how far the tool call of each question is
    deferred,  \* what its deferred holds
    replying,  \* the answer that reply or reject has published and not yet given
    audience,  \* the clients connected ever since the question was asked
    connected,
    inbox,     \* the events under way to each client
    dialogs    \* store.question of each client

qvars == <<pending, asker, deferred, replying, audience, connected, inbox, dialogs>>

Rejected == "RejectedError"
Results == Choices \cup {Rejected}

Init ==
    /\ pending = {}
    /\ asker = [q \in Questions |-> "new"]
    /\ deferred = [q \in Questions |-> NoAnswer]
    /\ replying = [q \in Questions |-> NoAnswer]
    /\ audience = [q \in Questions |-> {}]
    /\ connected \in SUBSET Viewers
    /\ inbox = [v \in Viewers |-> <<>>]
    /\ dialogs = [v \in Viewers |-> {}]

Publish(event) ==
    inbox' = [v \in Viewers |-> IF v \in connected THEN Append(inbox[v], event) ELSE inbox[v]]

-----------------------------------------------------------------------------
(* The service *)

Ask(q) ==
    /\ asker[q] = "new"
    /\ pending' = pending \cup {q}
    /\ asker' = [asker EXCEPT ![q] = "asking"]
    /\ audience' = [audience EXCEPT ![q] = connected]
    /\ Publish([type |-> "asked", question |-> q, result |-> NoAnswer])
    /\ UNCHANGED <<deferred, replying, connected, dialogs>>

Wait(q) ==
    /\ asker[q] = "asking"
    /\ asker' = [asker EXCEPT ![q] = "waiting"]
    /\ UNCHANGED <<pending, deferred, replying, audience, connected, inbox, dialogs>>

\* Mutant: the second of two replies is not told from the first.
MayReplyTwice(q) == asker[q] = "waiting" /\ replying[q] = NoAnswer

MayReply(q) == q \in pending

\* reply, reject: whoever comes second finds nothing.  The entry goes, the event is
\* published; the deferred follows.
Reply(q, result) ==
    /\ MayReply(q)
    /\ pending' = pending \ {q}
    /\ replying' = [replying EXCEPT ![q] = result]
    /\ Publish([type |-> "closed", question |-> q, result |-> result])
    /\ UNCHANGED <<asker, deferred, audience, connected, dialogs>>

\* A deferred keeps what it gets first.
Complete(q, result) == [deferred EXCEPT ![q] = IF @ = NoAnswer THEN result ELSE @]

\* Mutant: reject tells the clients, and not the tool.
GiveAnswersOnly(q) ==
    /\ replying[q] \in Choices
    /\ deferred' = Complete(q, replying[q])
    /\ replying' = [replying EXCEPT ![q] = NoAnswer]
    /\ UNCHANGED <<pending, asker, audience, connected, inbox, dialogs>>

Give(q) ==
    /\ replying[q] # NoAnswer
    /\ deferred' = Complete(q, replying[q])
    /\ replying' = [replying EXCEPT ![q] = NoAnswer]
    /\ UNCHANGED <<pending, asker, audience, connected, inbox, dialogs>>

\* The tool goes on with its deferred, and ensures that the entry is gone.
Return(q) ==
    /\ asker[q] = "waiting" /\ deferred[q] # NoAnswer
    /\ asker' = [asker EXCEPT ![q] = "returned"]
    /\ pending' = pending \ {q}
    /\ UNCHANGED <<deferred, replying, audience, connected, inbox, dialogs>>

\* The tool call is interrupted; nobody is told.  The entry is left if the call does
\* not yet wait.
Abort(q) ==
    /\ \/ /\ asker[q] = "waiting"
          /\ asker' = [asker EXCEPT ![q] = "aborted"]
          /\ pending' = pending \ {q}
       \/ /\ asker[q] = "asking"
          /\ asker' = [asker EXCEPT ![q] = "cutOff"]
          /\ UNCHANGED pending
    /\ UNCHANGED <<deferred, replying, audience, connected, inbox, dialogs>>

\* The instance is disposed, or reloaded: its finalizer rejects what is pending.
Dispose ==
    /\ pending # {}
    /\ deferred' = [q \in Questions |-> IF q \in pending THEN Complete(q, Rejected)[q] ELSE deferred[q]]
    /\ pending' = {}
    /\ UNCHANGED <<asker, replying, audience, connected, inbox, dialogs>>

-----------------------------------------------------------------------------
(* A client *)

Connect(v) ==
    /\ v \notin connected
    /\ connected' = connected \cup {v}
    /\ UNCHANGED <<pending, asker, deferred, replying, audience, inbox, dialogs>>

\* The stream breaks; what was under way is lost, the store stays.
Disconnect(v) ==
    /\ v \in connected
    /\ connected' = connected \ {v}
    /\ inbox' = [inbox EXCEPT ![v] = <<>>]
    /\ audience' = [q \in Questions |-> audience[q] \ {v}]
    /\ UNCHANGED <<pending, asker, deferred, replying, dialogs>>

\* Mutant: a question is removed from the client that answered only.
ShownAll(v, event) ==
    IF event.type = "asked" THEN dialogs[v] \cup {event.question} ELSE dialogs[v]

\* Stores are sorted by id: the event of a question changes its entry.
Shown(v, event) ==
    IF event.type = "asked" THEN dialogs[v] \cup {event.question} ELSE dialogs[v] \ {event.question}

Receive(v) ==
    /\ inbox[v] # <<>>
    /\ dialogs' = [dialogs EXCEPT ![v] = Shown(v, Head(inbox[v]))]
    /\ inbox' = [inbox EXCEPT ![v] = Tail(@)]
    /\ UNCHANGED <<pending, asker, deferred, replying, audience, connected>>

-----------------------------------------------------------------------------
ServiceStep(q) == Wait(q) \/ Give(q) \/ Return(q)

Next ==
    \/ \E q \in Questions :
        \/ Ask(q) \/ Abort(q) \/ ServiceStep(q)
        \/ \E result \in Results : Reply(q, result)
    \/ Dispose
    \/ \E v \in Viewers : Connect(v) \/ Disconnect(v) \/ Receive(v)

\* A reply that has begun goes on, and so does a tool that has its answer.
Spec == Init /\ [][Next]_qvars /\ \A q \in Questions : WF_qvars(ServiceStep(q))

-----------------------------------------------------------------------------
(* Properties *)

Events == [type : {"asked", "closed"}, question : Questions, result : Results \cup {NoAnswer}]

TypeOK ==
    /\ pending \subseteq Questions
    /\ asker \in [Questions -> {"new", "asking", "waiting", "returned", "aborted", "cutOff"}]
    /\ deferred \in [Questions -> Results \cup {NoAnswer}]
    /\ replying \in [Questions -> Results \cup {NoAnswer}]
    /\ connected \subseteq Viewers
    /\ audience \in [Questions -> SUBSET connected]
    /\ dialogs \in [Viewers -> SUBSET Questions]
    /\ inbox \in [Viewers -> Seq(Events)]
    /\ \A v \in Viewers \ connected : inbox[v] = <<>>

\* Who waits can be answered, and what can be answered is waited for, or was cut off
\* before it waited: an entry is there exactly while nobody has replied or disposed.
PendingIsWaited ==
    \A q \in Questions :
        q \in pending <=> asker[q] \in {"asking", "waiting", "cutOff"} /\ deferred[q] = NoAnswer /\ replying[q] = NoAnswer

Closing(v, q) == {i \in DOMAIN inbox[v] : inbox[v][i].question = q /\ inbox[v][i].type = "closed"}

\* The clients that stay connected have been told one answer, the one that the tool gets.
OneAnswerTold ==
    \A v \in Viewers, q \in Questions :
        /\ \A i, j \in Closing(v, q) : i = j
        /\ \A i \in Closing(v, q) : inbox[v][i].result \in {deferred[q], replying[q]}

\* A client that stays connected shows what is asked, until it is replied to; the dialogs
\* of aborted calls and of a disposed instance stay.
DialogsMatch ==
    \A q \in Questions : \A v \in audience[q] :
        LET open == q \in dialogs[v] \/ (\E i \in DOMAIN inbox[v] : inbox[v][i].question = q)
            closed == Closing(v, q) # {} \/ q \notin dialogs[v]
        IN  IF q \in pending THEN open /\ Closing(v, q) = {}
            ELSE {replying[q], deferred[q]} \cap Choices # {} => closed

\* Questions, their tool calls and their dialogs belong together.
QuestionsSettle == TypeOK /\ PendingIsWaited /\ OneAnswerTold /\ DialogsMatch

\* A tool waits only where its question can be answered: again and again, since one that
\* was replied to, or whose instance is gone, returns (EverythingEnds of MCSession).
NobodyWaits ==
    \A q \in Questions : asker[q] \in {"asking", "waiting"} => q \in pending

\* Does not hold: nobody is told that a tool call with a question was aborted.
NoDeadDialog ==
    \A v \in Viewers, q \in Questions :
        q \in dialogs[v] /\ asker[q] \in {"returned", "aborted"} => Closing(v, q) # {}
=============================================================================
