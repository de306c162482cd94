----------------------------- MODULE Permission -----------------------------
(***************************************************************************)
(* permission/index.ts: tool calls ask, the user replies, one reply may    *)
(* answer other requests of the same session; and the dialogs the TUI      *)
(* shows for it, which it learns of from the events only.                  *)
(*                                                                         *)
(* A rule matches a set of targets (a permission with a pattern), whatever *)
(* wildcards spell that set.  ask and reply run to their end, or to the    *)
(* Deferred, without suspending: each is one action.                       *)
(***************************************************************************)
EXTENDS Naturals, Sequences, FiniteSetsExt

CONSTANTS
    Requests,  \* the ids of the calls to ask
    Inputs,    \* what a call may ask: session, patterns, always, ruleset
    Stored,    \* the rules the database holds for the project
    Clients,   \* TUIs
    None       \* "by nobody", "not asked yet"

\* The rules of the config and of the database.
Rules ==
    {Stored[i] : i \in DOMAIN Stored} \cup
    UNION {{input.ruleset[i] : i \in DOMAIN input.ruleset} : input \in Inputs}

ASSUME RulesetsAssumption ==
    /\ Stored \in Seq(Rules)
    /\ \A input \in Inputs : input.ruleset \in Seq(Rules)

\* by tells who granted a rule while the instance lives: nobody, of a stored one.
ASSUME StoredAssumption ==
    \A i \in DOMAIN Stored, input \in Inputs : Stored[i].by # input.session

VARIABLES
    pending,   \* the ids in the map state.pending
    info,      \* what each request asked
    deferred,  \* the Deferred of each request
    pc,        \* where the caller of ask is
    approved,  \* state.approved; by (the session that granted) is for the properties
    audience,  \* the clients connected when the request was asked
    connected, \* the clients that subscribe to the events
    inbox,     \* the events under way to each client
    shown      \* the dialogs each client shows

vars == <<pending, info, deferred, pc, approved, audience, connected, inbox, shown>>

Session(r) == info[r].session

\* findLast over the concatenated rulesets; no match means ask.
Evaluate(pattern, rules) ==
    LET hits == {i \in DOMAIN rules : pattern \in rules[i].match}
    IN  IF hits = {} THEN "ask" ELSE rules[Max(hits)].action

Init ==
    /\ pending = {}
    /\ info = [r \in Requests |-> None]
    /\ deferred = [r \in Requests |-> "open"]
    /\ pc = [r \in Requests |-> "new"]
    /\ approved = Stored
    /\ audience = [r \in Requests |-> {}]
    /\ connected = {}
    /\ inbox = [c \in Clients |-> {}]
    /\ shown = [c \in Clients |-> {}]

\* bus.publish, as far as the subscribed clients.
Publish(type, rs) ==
    inbox' = [c \in Clients |->
        IF c \in connected THEN inbox[c] \cup {<<type, r>> : r \in rs} ELSE inbox[c]]

Replied(rs) == Publish("replied", rs)

-----------------------------------------------------------------------------
(* ask *)

\* The config's rules, then the approvals.
Actions(input) == {Evaluate(p, input.ruleset \o approved) : p \in input.patterns}

AskAnswered(r, input) ==
    /\ pc[r] = "new"
    /\ \/ "deny" \in Actions(input) /\ pc' = [pc EXCEPT ![r] = "denied"]
       \/ Actions(input) \subseteq {"allow"} /\ pc' = [pc EXCEPT ![r] = "allowed"]
    /\ info' = [info EXCEPT ![r] = input]
    /\ UNCHANGED <<pending, deferred, approved, audience, connected, inbox, shown>>

\* Mutant: the entry is made, the event is not published.
AskUserSilently(r, input) ==
    /\ pc[r] = "new"
    /\ "ask" \in Actions(input) /\ "deny" \notin Actions(input)
    /\ pc' = [pc EXCEPT ![r] = "waiting"]
    /\ info' = [info EXCEPT ![r] = input]
    /\ pending' = pending \cup {r}
    /\ audience' = [audience EXCEPT ![r] = connected]
    /\ UNCHANGED <<deferred, approved, connected, inbox, shown>>

AskUser(r, input) ==
    /\ pc[r] = "new"
    /\ "ask" \in Actions(input) /\ "deny" \notin Actions(input)
    /\ pc' = [pc EXCEPT ![r] = "waiting"]
    /\ info' = [info EXCEPT ![r] = input]
    /\ pending' = pending \cup {r}
    /\ audience' = [audience EXCEPT ![r] = connected]
    /\ Publish("asked", {r})
    /\ UNCHANGED <<deferred, approved, connected, shown>>

\* Mutant: ask does not wait for the answer.
ResumeEarly(r) ==
    /\ pc[r] = "waiting"
    /\ pc' = [pc EXCEPT ![r] = deferred[r]]
    /\ pending' = pending \ {r}
    /\ UNCHANGED <<info, deferred, approved, audience, connected, inbox, shown>>

\* The fiber in ask goes on with the answer; ensuring drops the entry.
Resume(r) ==
    /\ pc[r] = "waiting"
    /\ deferred[r] # "open"
    /\ pc' = [pc EXCEPT ![r] = deferred[r]]
    /\ pending' = pending \ {r}
    /\ UNCHANGED <<info, deferred, approved, audience, connected, inbox, shown>>

\* Mutant: no ensuring around the await.
AbortLeavesEntry(r) ==
    /\ pc[r] = "waiting"
    /\ pc' = [pc EXCEPT ![r] = "aborted"]
    /\ UNCHANGED <<pending, info, deferred, approved, audience, connected, inbox, shown>>

\* The tool call is interrupted: the entry goes, no event tells.
Abort(r) ==
    /\ pc[r] = "waiting"
    /\ pc' = [pc EXCEPT ![r] = "aborted"]
    /\ pending' = pending \ {r}
    /\ UNCHANGED <<info, deferred, approved, audience, connected, inbox, shown>>

-----------------------------------------------------------------------------
(* reply; for an id that is not pending it does nothing. *)

SameSession(r) == {q \in pending : Session(q) = Session(r)}

Answer(rs, how) == [q \in Requests |-> IF q \in rs THEN how ELSE deferred[q]]

Once(r) ==
    /\ r \in pending
    /\ pending' = pending \ {r}
    /\ deferred' = Answer({r}, "allowed")
    /\ Replied({r})
    /\ UNCHANGED <<info, pc, approved, audience, connected, shown>>

\* Mutant: only the request itself is rejected.
RejectOne(r) ==
    /\ r \in pending
    /\ pending' = pending \ {r}
    /\ deferred' = Answer({r}, "rejected")
    /\ Replied({r})
    /\ UNCHANGED <<info, pc, approved, audience, connected, shown>>

\* Mutant: the requests rejected along are not announced.
RejectSilently(r) ==
    /\ r \in pending
    /\ pending' = pending \ SameSession(r)
    /\ deferred' = Answer(SameSession(r), "rejected")
    /\ Replied({r})
    /\ UNCHANGED <<info, pc, approved, audience, connected, shown>>

\* With a message (corrected) or without: all of the session is rejected.
Reject(r) ==
    /\ r \in pending
    /\ pending' = pending \ SameSession(r)
    /\ \E how \in {"rejected", "corrected"} :
          deferred' = [Answer(SameSession(r), "rejected") EXCEPT ![r] = how]
    /\ Replied(SameSession(r))
    /\ UNCHANGED <<info, pc, approved, audience, connected, shown>>

\* The approvals come last in approved and in every later evaluation.
Grant(r) == Append(approved, [match |-> info[r].always, action |-> "allow", by |-> Session(r)])

\* Mutant: the cascade does not look at the session.
CoveredAnySession(r) ==
    {q \in pending \ {r} :
        \A p \in info[q].patterns : Evaluate(p, Grant(r)) = "allow"}

\* Mutant: the others are evaluated with the approvals there were before.
CoveredBefore(r) ==
    {q \in SameSession(r) \ {r} :
        \A p \in info[q].patterns : Evaluate(p, approved) = "allow"}

\* The other requests of the session that the approvals, alone, now allow.
Covered(r) ==
    {q \in SameSession(r) \ {r} :
        \A p \in info[q].patterns : Evaluate(p, Grant(r)) = "allow"}

Always(r) ==
    /\ r \in pending
    /\ approved' = Grant(r)
    /\ pending' = pending \ ({r} \cup Covered(r))
    /\ deferred' = Answer({r} \cup Covered(r), "allowed")
    /\ Replied({r} \cup Covered(r))
    /\ UNCHANGED <<info, pc, audience, connected, shown>>

\* The instance is disposed or reloaded: its finalizer rejects what is pending
\* ("disposed" is a RejectedError too), the next access reads the stored rules.
Dispose ==
    /\ deferred' = Answer(pending, "disposed")
    /\ pending' = {}
    /\ approved' = Stored
    /\ UNCHANGED <<info, pc, audience, connected, inbox, shown>>

-----------------------------------------------------------------------------
(* A TUI: what it shows follows the events it receives after it subscribed. *)

Connect(c) ==
    /\ c \notin connected
    /\ connected' = connected \cup {c}
    /\ UNCHANGED <<pending, info, deferred, pc, approved, audience, inbox, shown>>

Deliver(c, r) ==
    /\ \/ /\ <<"asked", r>> \in inbox[c]
          /\ inbox' = [inbox EXCEPT ![c] = @ \ {<<"asked", r>>}]
          /\ shown' = [shown EXCEPT ![c] = @ \cup {r}]
       \/ /\ <<"replied", r>> \in inbox[c]
          /\ <<"asked", r>> \notin inbox[c]
          /\ inbox' = [inbox EXCEPT ![c] = @ \ {<<"replied", r>>}]
          /\ shown' = [shown EXCEPT ![c] = @ \ {r}]
    /\ UNCHANGED <<pending, info, deferred, pc, approved, audience, connected>>

-----------------------------------------------------------------------------
Next ==
    \/ \E r \in Requests, input \in Inputs : AskAnswered(r, input) \/ AskUser(r, input)
    \/ \E r \in Requests :
          Resume(r) \/ Abort(r) \/ Once(r) \/ Reject(r) \/ Always(r)
    \/ Dispose
    \/ \E c \in Clients : Connect(c) \/ \E r \in Requests : Deliver(c, r)

Spec == Init /\ [][Next]_vars

-----------------------------------------------------------------------------
(* Properties *)

TypeOK ==
    /\ pending \subseteq Requests
    /\ info \in [Requests -> Inputs \cup {None}]
    /\ deferred \in [Requests -> {"open", "allowed", "rejected", "corrected", "disposed"}]
    /\ pc \in [Requests -> {"new", "waiting", "allowed", "rejected", "corrected",
                            "disposed", "denied", "aborted"}]
    /\ audience \in [Requests -> SUBSET Clients]
    /\ connected \subseteq Clients
    /\ inbox \in [Clients -> SUBSET ({"asked", "replied"} \X Requests)]
    /\ shown \in [Clients -> SUBSET Requests]

\* A tool call that waits for an answer can get one, and an entry that can be
\* answered has a tool call waiting behind it.
PendingIsWaiting ==
    \A r \in Requests : r \in pending <=> pc[r] = "waiting" /\ deferred[r] = "open"

Replies == {"allowed", "rejected", "corrected"}

\* A rejection stops the session: no request of it is left to answer.
RejectStopsSession ==
    [][\A r \in Requests :
          deferred[r] = "open" /\ deferred'[r] \in {"rejected", "corrected"} =>
              \A q \in pending' : info[q].session # Session(r)]_vars

\* One reply answers requests of one session only; the others stay pending.
OneSessionPerReply ==
    [][\A q, r \in pending \ pending' :
          {deferred'[q], deferred'[r]} \subseteq Replies => Session(q) = Session(r)]_vars

\* No dialog is left for what the session has always allowed: a request whose
\* targets are all covered by approvals its own session gave is not pending.
GrantedBy(s) == UNION {approved[i].match : i \in {j \in DOMAIN approved : approved[j].by = s}}
OwnGrantsResolve ==
    \A r \in pending : ~(info[r].patterns \subseteq GrantedBy(Session(r)))

\* Who was connected when a request was asked shows its dialog, or will.
AskedIsShown ==
    \A r \in pending, c \in Clients :
        c \in audience[r] => r \in shown[c] \/ <<"asked", r>> \in inbox[c]

\* A dialog that nobody waits behind is about to close, unless the tool call was
\* aborted or the instance disposed: those two send no event.
DeadDialogs ==
    \A c \in Clients, r \in Requests :
        r \in shown[c] /\ pc[r] \in Replies => <<"replied", r>> \in inbox[c]

\* What is pending waits for an answer, and only what the approvals do not cover.
PendingIsDue == TypeOK /\ PendingIsWaiting /\ OwnGrantsResolve

\* The dialogs of the clients open and close with the requests.
DialogsFollow == AskedIsShown /\ DeadDialogs

\* A reply answers one request, or all it decides of one session.
RepliesKeepToSession == RejectStopsSession /\ OneSessionPerReply
=============================================================================
