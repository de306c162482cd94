------------------------------ MODULE AcpAgent ------------------------------
(***************************************************************************)
(* acp/agent.ts: the server as the agent of an editor.  One subscription   *)
(* brings the events of every session and is handled one event after the   *)
(* other; permission requests go through a chain of promises per session;  *)
(* loadSession replays what is saved beside both.                          *)
(*                                                                         *)
(* One session with its tool calls and one text.  The editor receives the  *)
(* updates in the order in which they are sent.                            *)
(***************************************************************************)
EXTENDS Naturals, Sequences

CONSTANTS
    Tools,    \* tool calls of the session
    Asked,    \* permission requests of the session
    Nothing,  \* no request, no event
    MaxText,  \* bound on the pieces of text
    MaxNews   \* bound on the events that are on their way

VARIABLES
    parts,    \* the tool parts and the length of the text that are saved
    written,  \* the length of the text, of which the end is not saved yet
    news,     \* the events on their way to the subscription
    handling, \* the events in handleEvent, each with where it is
    managed,  \* sessionManager has the session
    toolStarts,
    load,     \* where loadSession is, and what it has still to replay
    shown,    \* what the editor shows
    permit,   \* where each permission request is
    prev,     \* the request whose promise each one waits for
    tail,     \* permissionQueues
    disturbed \* the subscription broke, a replay overlapped with an event or a text
              \* that is being written, or the editor loads again what toolStarts
              \* takes for announced

gvars == <<parts, written, news, handling, managed, toolStarts, load, shown, permit, prev, tail, disturbed>>

Items == Tools \cup {"text"}
Unsaved == [i \in Items |-> IF i = "text" THEN 0 ELSE "none"]
Final == {"completed", "error"}

\* A session that is new, or one that another client has begun.
Init ==
    /\ parts = Unsaved /\ written = 0 /\ news = <<>> /\ handling = {}
    /\ managed \in BOOLEAN
    /\ toolStarts = {}
    /\ load = [stage |-> "none", todo |-> {}]
    /\ shown = Unsaved
    /\ permit = [r \in Asked |-> "new"] /\ prev = [r \in Asked |-> Nothing]
    /\ tail = Nothing
    /\ disturbed = FALSE

-----------------------------------------------------------------------------
(* The session: a part is saved and published, a request is published *)

Publish(event) == Len(news) < MaxNews /\ news' = Append(news, event)

SavePart(t, status) ==
    /\ <<parts[t], status>> \in
         {<<"none", "pending">>, <<"pending", "running">>, <<"running", "completed">>, <<"pending", "error">>, <<"running", "error">>}
    /\ parts' = [parts EXCEPT ![t] = status]
    /\ Publish(<<"part", t, status>>)
    /\ UNCHANGED <<written, handling, managed, toolStarts, load, shown, permit, prev, tail, disturbed>>

Delta ==
    /\ written < MaxText
    /\ written' = written + 1
    /\ Publish(<<"delta", "text", 1>>)
    /\ UNCHANGED <<parts, handling, managed, toolStarts, load, shown, permit, prev, tail, disturbed>>

\* The text is saved at its end; its event tells the editor nothing.
TextEnds ==
    /\ parts["text"] # written
    /\ parts' = [parts EXCEPT !["text"] = written]
    /\ UNCHANGED <<written, news, handling, managed, toolStarts, load, shown, permit, prev, tail, disturbed>>

Ask(r) ==
    /\ permit[r] = "new"
    /\ permit' = [permit EXCEPT ![r] = "sent"]
    /\ Publish(<<"asked", r, "">>)
    /\ UNCHANGED <<parts, written, handling, managed, toolStarts, load, shown, prev, tail, disturbed>>

-----------------------------------------------------------------------------
(* runEventSubscription, handleEvent *)

Quiet == handling = {}

\* Mutant: the next event does not wait for the one that is handled.
TakeAnyway ==
    /\ news # <<>> /\ Head(news)[1] # "asked"
    /\ news' = Tail(news)
    /\ handling' = IF managed THEN handling \cup {<<Head(news), "start">>} ELSE handling
    /\ UNCHANGED <<parts, written, managed, toolStarts, load, shown, permit, prev, tail, disturbed>>

\* An event of a session that nobody has loaded is dropped.
Take ==
    /\ Quiet /\ news # <<>> /\ Head(news)[1] # "asked"
    /\ news' = Tail(news)
    /\ handling' = IF managed THEN {<<Head(news), "start">>} ELSE {}
    /\ UNCHANGED <<parts, written, managed, toolStarts, load, shown, permit, prev, tail, disturbed>>

\* A request joins the chain, and the next event is taken at once.
TakeAsked ==
    /\ Quiet /\ news # <<>> /\ Head(news)[1] = "asked"
    /\ news' = Tail(news)
    /\ LET r == Head(news)[2] IN
         IF managed
         THEN /\ permit' = [permit EXCEPT ![r] = "queued"]
              /\ prev' = [prev EXCEPT ![r] = tail]
              /\ tail' = r
         ELSE permit' = [permit EXCEPT ![r] = "dropped"] /\ UNCHANGED <<prev, tail>>
    /\ UNCHANGED <<parts, written, handling, managed, toolStarts, load, shown, disturbed>>

\* toolStart: a call is announced once, before its first status.
Announce(t) ==
    /\ toolStarts' = toolStarts \cup {t}
    /\ shown' = IF t \in toolStarts THEN shown ELSE [shown EXCEPT ![t] = "pending"]

\* The status; the last one lets the call be announced again.
Tell(t, status) ==
    /\ toolStarts' = IF status \in Final THEN toolStarts \ {t} ELSE toolStarts
    /\ shown' = IF status = "pending" THEN shown ELSE [shown EXCEPT ![t] = status]

Say(n) == shown' = [shown EXCEPT !["text"] = @ + n] /\ UNCHANGED toolStarts

\* An event of a call that a replay is about to tell of, or has told of.
Overlaps == load.stage \in {"loading", "replaying"}

\* The parts of a call are sent in two steps, a delta after a fetch of its message.
Handle(h) ==
    /\ h \in handling
    /\ \/ /\ h[1][1] = "part" /\ h[2] = "start"
          /\ Announce(h[1][2])
          /\ handling' = (handling \ {h}) \cup {<<h[1], "started">>}
       \/ /\ h[1][1] = "part" /\ h[2] = "started"
          /\ Tell(h[1][2], h[1][3])
          /\ handling' = handling \ {h}
       \/ /\ h[1][1] = "delta"
          /\ Say(h[1][3])
          /\ handling' = handling \ {h}
    /\ disturbed' = (disturbed \/ Overlaps)
    /\ UNCHANGED <<parts, written, news, managed, load, permit, prev, tail>>

\* The stream breaks; events are lost until the next one is open.
Break ==
    /\ news # <<>>
    /\ news' = <<>>
    /\ permit' = [r \in Asked |-> IF permit[r] = "sent" THEN "dropped" ELSE permit[r]]
    /\ disturbed' = TRUE
    /\ UNCHANGED <<parts, written, handling, managed, toolStarts, load, shown, prev, tail>>

-----------------------------------------------------------------------------
(* The chain of a session's permission requests *)

\* Before it, nobody or one that has settled.
FirstInLine(r) == prev[r] \in {Nothing} \cup {q \in Asked : permit[q] \in {"answered", "failed"}}

Open(r) ==
    /\ permit[r] = "queued" /\ FirstInLine(r)
    /\ permit' = [permit EXCEPT ![r] = "open"]
    /\ UNCHANGED <<parts, written, news, handling, managed, toolStarts, load, shown, prev, tail, disturbed>>

\* Mutant: whoever settles empties the map.
LeaveAlways(r) == tail' = Nothing

\* finally: the map forgets the chain when its last one settles.
Leave(r) == tail' = IF tail = r THEN Nothing ELSE tail

\* Mutant: a request that fails does not let the next one begin.
SettlesAnswered(r, how) == permit' = [permit EXCEPT ![r] = IF how = "failed" THEN "stuck" ELSE how]

Settles(r, how) == permit' = [permit EXCEPT ![r] = how]

\* The editor selects, cancels or fails: a reply is sent, with reject for the
\* last two.  The reply may fail as well, and the request stays open in the server.
Reply(r) ==
    /\ permit[r] = "open"
    /\ Settles(r, "answered") \/ Settles(r, "failed")
    /\ Leave(r)
    /\ UNCHANGED <<parts, written, news, handling, managed, toolStarts, load, shown, prev, disturbed>>

-----------------------------------------------------------------------------
(* loadSession *)

\* The session is managed from here on; its messages are read later.
Load ==
    /\ load.stage = "none"
    /\ load' = [load EXCEPT !.stage = "loading"]
    /\ managed' = TRUE
    /\ shown' = Unsaved
    /\ disturbed' = (disturbed \/ ~Quiet \/ shown # Unsaved)
    /\ UNCHANGED <<parts, written, news, handling, toolStarts, permit, prev, tail>>

ReadMessages ==
    /\ load.stage = "loading"
    /\ load' = [stage |-> "replaying",
                todo |-> {<<i, parts[i], "start">> : i \in {j \in Items : parts[j] # Unsaved[j]}}]
    /\ disturbed' = (disturbed \/ news # <<>> \/ ~Quiet \/ parts["text"] # written)
    /\ UNCHANGED <<parts, written, news, handling, managed, toolStarts, shown, permit, prev, tail>>

\* processMessage, part by part; which order the parts have does not matter.
Replay(p) ==
    /\ load.stage = "replaying" /\ p \in load.todo
    /\ \A q \in load.todo : q[3] = "started" => q = p
    /\ \/ p[1] = "text" /\ Say(p[2]) /\ load' = [load EXCEPT !.todo = @ \ {p}]
       \/ /\ p[1] # "text" /\ p[3] = "start"
          /\ Announce(p[1])
          /\ load' = [load EXCEPT !.todo = (@ \ {p}) \cup {<<p[1], p[2], "started">>}]
       \/ p[1] # "text" /\ p[3] = "started" /\ Tell(p[1], p[2]) /\ load' = [load EXCEPT !.todo = @ \ {p}]
    /\ UNCHANGED <<parts, written, news, handling, managed, permit, prev, tail, disturbed>>

Loaded ==
    /\ load.stage = "replaying" /\ load.todo = {}
    /\ load' = [load EXCEPT !.stage = "done"]
    /\ UNCHANGED <<parts, written, news, handling, managed, toolStarts, shown, permit, prev, tail, disturbed>>

-----------------------------------------------------------------------------

ChainStep == \E r \in Asked : Open(r) \/ Reply(r)

Next ==
    \/ \E t \in Tools, status \in {"pending", "running", "completed", "error"} : SavePart(t, status)
    \/ Delta \/ TextEnds \/ (\E r \in Asked : Ask(r))
    \/ Take \/ TakeAsked \/ Break \/ (\E h \in handling : Handle(h))
    \/ ChainStep
    \/ Load \/ ReadMessages \/ Loaded \/ (\E p \in load.todo : Replay(p))

\* Promises that are settled go on; the editor answers or fails.
Spec == Init /\ [][Next]_gvars /\ WF_gvars(ChainStep)

-----------------------------------------------------------------------------
(* Properties *)

TypeOK ==
    /\ toolStarts \subseteq Tools
    /\ tail \in Asked \cup {Nothing}
    /\ permit \in [Asked -> {"new", "sent", "dropped", "queued", "open", "answered", "failed"}]
    /\ (\A h, k \in handling : h = k) /\ parts["text"] <= written

\* When all is told, the editor shows the statuses that are saved and the text
\* as far as it is written, if no event was lost and no replay overlapped with
\* one or began within a text.
EditorShowsSaved ==
    managed /\ Quiet /\ news = <<>> /\ ~disturbed /\ load.stage \in {"none", "done"} =>
        shown = [parts EXCEPT !["text"] = written]

\* The editor is asked for one permission of the session at a time.
OneDialog == \A q, r \in Asked : permit[q] = "open" /\ permit[r] = "open" => q = r

\* No request waits in the chain, also behind one that fails.  It comes to that again and
\* again: EverythingEnds of MCServices.
NobodyWaits == \A r \in Asked : permit[r] \in {"new", "sent", "dropped", "answered", "failed"}

\* The editor shows what is saved, and one dialog.
EditorFollows == TypeOK /\ EditorShowsSaved /\ OneDialog
=============================================================================
