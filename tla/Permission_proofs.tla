-------------------------- MODULE Permission_proofs --------------------------
(***************************************************************************)
(* The permission requests and their dialogs, for any number of tool       *)
(* calls, sessions, clients, and any rules: what is pending waits for an   *)
(* answer and is not covered by what its session granted, the dialogs      *)
(* follow the requests, one reply keeps to one session.                    *)
(***************************************************************************)
EXTENDS Permission, MaxLemmas, SequenceTheorems

-----------------------------------------------------------------------------
(* The last rule that matches decides. *)

\* A target that a rule matches, after which every rule allows, is allowed.
LEMMA GrantDecides ==
  ASSUME NEW S, NEW rules \in Seq(S), NEW pattern,
         NEW i \in DOMAIN rules, pattern \in rules[i].match,
         \A j \in DOMAIN rules : j >= i => rules[j].action = "allow"
  PROVE  Evaluate(pattern, rules) = "allow"
<1> DEFINE hits == {j \in DOMAIN rules : pattern \in rules[j].match}
<1>1. DOMAIN rules = 1 .. Len(rules) /\ Len(rules) \in Nat
  BY LenProperties
<1>2. IsFiniteSet(hits) /\ hits \subseteq Nat /\ i \in hits
  <2>1. IsFiniteSet(1 .. Len(rules))
    BY <1>1, FS_Interval
  <2>2. hits \subseteq 1 .. Len(rules) /\ i \in hits
    BY <1>1
  <2> QED BY <2>1, <2>2, FS_Subset
<1>3. Max(hits) \in hits /\ i <= Max(hits)
  <2> HIDE DEF hits
  <2> QED BY <1>2, MaxOf
<1>4. rules[Max(hits)].action = "allow"
  <2>1. Max(hits) \in DOMAIN rules /\ i \in Nat /\ Max(hits) \in Nat
    BY <1>2, <1>3
  <2>2. Max(hits) >= i
    BY <1>3, <2>1
  <2> HIDE DEF hits
  <2> QED BY <2>1, <2>2
<1> QED BY <1>2, <1>4 DEF Evaluate

-----------------------------------------------------------------------------
(* The invariant *)

Grants == [match : {input.always : input \in Inputs}, action : {"allow"},
           by : {input.session : input \in Inputs}]

\* A new call's Deferred is open, a pending one's question is known.
AskedIsKnown ==
    \A r \in Requests :
        /\ pc[r] = "new" => deferred[r] = "open"
        /\ r \in pending => info[r] \in Inputs

\* From the first rule that a session granted on, all rules allow.
AllowAfter(rules, session) ==
    \A i, j \in DOMAIN rules : rules[i].by = session /\ i <= j => rules[j].action = "allow"

\* No rule of the config comes after a grant.
GrantsAreLast ==
    /\ approved \in Seq(Rules \cup Grants)
    /\ \A input \in Inputs : AllowAfter(approved, input.session)

\* A client has heard, or will, that a request was asked.
Known(c, r) == r \in shown[c] \/ <<"asked", r>> \in inbox[c]

\* What a client knows of was asked while it was connected, and if it was replied
\* to the client will hear that too; it hears of no reply that was not given.
ClientsHear ==
    \A c \in Clients, r \in Requests :
        /\ <<"replied", r>> \in inbox[c] => deferred[r] # "open"
        /\ Known(c, r) => c \in connected /\ pc[r] # "new"
        /\ Known(c, r) /\ deferred[r] \in Replies => <<"replied", r>> \in inbox[c]
        /\ Known(c, r) /\ pc[r] \in Replies => deferred[r] \in Replies

IInv ==
    /\ TypeOK
    /\ PendingIsWaiting
    /\ AskedIsKnown
    /\ GrantsAreLast
    /\ OwnGrantsResolve
    /\ ClientsHear
    /\ AskedIsShown

LEMMA InitIInv == Init => IInv
<1> SUFFICES ASSUME Init PROVE IInv
  OBVIOUS
<1>1. TypeOK /\ PendingIsWaiting /\ AskedIsKnown /\ OwnGrantsResolve
  BY DEF Init, TypeOK, PendingIsWaiting, AskedIsKnown, OwnGrantsResolve
<1>2. ClientsHear /\ AskedIsShown
  BY DEF Init, ClientsHear, Known, AskedIsShown
<1>3. GrantsAreLast
  <2>1. approved \in Seq(Rules \cup Grants)
    BY RulesetsAssumption, SeqMonotonic DEF Init
  <2> QED BY <2>1, StoredAssumption DEF Init, GrantsAreLast, AllowAfter
<1> QED BY <1>1, <1>2, <1>3 DEF IInv

\* What an event adds to the inboxes.
LEMMA PublishAdds ==
  ASSUME NEW type \in {"asked", "replied"}, NEW rs \in SUBSET Requests, Publish(type, rs),
         inbox \in [Clients -> SUBSET ({"asked", "replied"} \X Requests)]
  PROVE  /\ inbox' \in [Clients -> SUBSET ({"asked", "replied"} \X Requests)]
         /\ \A c \in Clients, t \in {"asked", "replied"}, r \in Requests :
               <<t, r>> \in inbox'[c] <=>
                   <<t, r>> \in inbox[c] \/ (c \in connected /\ t = type /\ r \in rs)
<1>1. \A c \in Clients :
         inbox'[c] = IF c \in connected THEN inbox[c] \cup {<<type, r>> : r \in rs} ELSE inbox[c]
  BY DEF Publish
<1>2. {<<type, r>> : r \in rs} \in SUBSET ({"asked", "replied"} \X Requests)
  OBVIOUS
<1>3. inbox' \in [Clients -> SUBSET ({"asked", "replied"} \X Requests)]
  BY <1>2 DEF Publish
<1>4. \A t \in {"asked", "replied"}, r \in Requests :
         <<t, r>> \in {<<type, q>> : q \in rs} <=> t = type /\ r \in rs
  OBVIOUS
<1>5. ASSUME NEW c \in Clients, NEW t \in {"asked", "replied"}, NEW r \in Requests
      PROVE  <<t, r>> \in inbox'[c] <=>
                 <<t, r>> \in inbox[c] \/ (c \in connected /\ t = type /\ r \in rs)
  <2>1. CASE c \in connected
    <3> DEFINE new == {<<type, q>> : q \in rs}
    <3>1. inbox'[c] = inbox[c] \cup new
      BY <1>1, <2>1
    <3>2. <<t, r>> \in new <=> t = type /\ r \in rs
      BY <1>4
    <3> HIDE DEF new
    <3> QED BY <2>1, <3>1, <3>2
  <2>2. CASE c \notin connected
    <3>1. inbox'[c] = inbox[c]
      BY <1>1, <2>2
    <3> QED BY <2>2, <3>1
  <2> QED BY <2>1, <2>2
<1> QED BY <1>3, <1>5

\* The requests a reply answers are pending ones.
LEMMA RepliesArePending ==
  ASSUME TypeOK, NEW r \in pending
  PROVE  /\ SameSession(r) \subseteq pending /\ r \in SameSession(r)
         /\ Covered(r) \subseteq pending
         /\ pending \subseteq Requests
BY DEF TypeOK, SameSession, Covered

\* Every step that leaves no type behind leaves the types.
LEMMA NextTypeOK == ASSUME TypeOK, Next PROVE TypeOK'
<1> USE DEF TypeOK
<1>1. ASSUME NEW r \in Requests, NEW input \in Inputs, AskAnswered(r, input)
      PROVE  TypeOK'
  BY <1>1 DEF AskAnswered
<1>2. ASSUME NEW r \in Requests, NEW input \in Inputs, AskUser(r, input)
      PROVE  TypeOK'
  <2>1. inbox' \in [Clients -> SUBSET ({"asked", "replied"} \X Requests)]
    BY <1>2, PublishAdds DEF AskUser
  <2> QED BY <1>2, <2>1 DEF AskUser
<1>3. ASSUME NEW r \in Requests, Resume(r) \/ Abort(r) PROVE TypeOK'
  BY <1>3 DEF Resume, Abort
<1>4. ASSUME NEW r \in Requests, Once(r) PROVE TypeOK'
  <2>1. inbox' \in [Clients -> SUBSET ({"asked", "replied"} \X Requests)]
    BY <1>4, PublishAdds DEF Once, Replied
  <2> QED BY <1>4, <2>1 DEF Once, Answer
<1>5. ASSUME NEW r \in Requests, Reject(r) PROVE TypeOK'
  <2>1. inbox' \in [Clients -> SUBSET ({"asked", "replied"} \X Requests)]
    BY <1>5, PublishAdds, RepliesArePending DEF Reject, Replied
  <2> QED BY <1>5, <2>1 DEF Reject, Answer
<1>6. ASSUME NEW r \in Requests, Always(r) PROVE TypeOK'
  <2>1. inbox' \in [Clients -> SUBSET ({"asked", "replied"} \X Requests)]
    BY <1>6, PublishAdds, RepliesArePending DEF Always, Replied
  <2> QED BY <1>6, <2>1 DEF Always, Answer
<1>7. CASE Dispose
  BY <1>7 DEF Dispose, Answer
<1>8. ASSUME NEW c \in Clients, Connect(c) PROVE TypeOK'
  BY <1>8 DEF Connect
<1>9. ASSUME NEW c \in Clients, NEW r \in Requests, Deliver(c, r) PROVE TypeOK'
  BY <1>9 DEF Deliver
<1> QED BY <1>1, <1>2, <1>3, <1>4, <1>5, <1>6, <1>7, <1>8, <1>9 DEF Next

\* The map, the Deferreds and the callers of ask keep in step.
LEMMA NextRequests ==
  ASSUME TypeOK, PendingIsWaiting, AskedIsKnown, Next
  PROVE  PendingIsWaiting' /\ AskedIsKnown'
<1> USE DEF TypeOK, PendingIsWaiting, AskedIsKnown
<1>1. ASSUME NEW r \in Requests, NEW input \in Inputs, AskAnswered(r, input)
      PROVE  PendingIsWaiting' /\ AskedIsKnown'
  BY <1>1 DEF AskAnswered
<1>2. ASSUME NEW r \in Requests, NEW input \in Inputs, AskUser(r, input)
      PROVE  PendingIsWaiting' /\ AskedIsKnown'
  BY <1>2 DEF AskUser
<1>3. ASSUME NEW r \in Requests, Resume(r) \/ Abort(r)
      PROVE  PendingIsWaiting' /\ AskedIsKnown'
  BY <1>3 DEF Resume, Abort
<1>4. ASSUME NEW r \in Requests, Once(r) PROVE PendingIsWaiting' /\ AskedIsKnown'
  BY <1>4 DEF Once, Answer
<1>5. ASSUME NEW r \in Requests, Reject(r) PROVE PendingIsWaiting' /\ AskedIsKnown'
  BY <1>5, RepliesArePending DEF Reject, Answer
<1>6. ASSUME NEW r \in Requests, Always(r) PROVE PendingIsWaiting' /\ AskedIsKnown'
  BY <1>6, RepliesArePending DEF Always, Answer
<1>7. CASE Dispose
  BY <1>7 DEF Dispose, Answer
<1>8. CASE UNCHANGED <<pending, info, deferred, pc>>
  BY <1>8
<1> QED
  BY <1>1, <1>2, <1>3, <1>4, <1>5, <1>6, <1>7, <1>8 DEF Next, Connect, Deliver

\* What the session of a pending request grants is the last rule.
LEMMA GrantAppends ==
  ASSUME AskedIsKnown, GrantsAreLast, TypeOK, NEW r \in pending
  PROVE  /\ Grant(r) \in Seq(Rules \cup Grants)
         /\ Len(Grant(r)) = Len(approved) + 1 /\ Len(approved) \in Nat
         /\ DOMAIN Grant(r) = 1 .. Len(approved) + 1 /\ DOMAIN approved = 1 .. Len(approved)
         /\ \A i \in DOMAIN approved : Grant(r)[i] = approved[i]
         /\ Grant(r)[Len(approved) + 1] =
               [match |-> info[r].always, action |-> "allow", by |-> Session(r)]
<1> DEFINE new == [match |-> info[r].always, action |-> "allow", by |-> Session(r)]
<1>1. new \in Rules \cup Grants
  BY DEF AskedIsKnown, TypeOK, Grants, Session
<1>2. approved \in Seq(Rules \cup Grants)
  BY DEF GrantsAreLast
<1>3. Grant(r) = Append(approved, new)
  BY DEF Grant
<1> HIDE DEF new
<1>4. Grant(r) \in Seq(Rules \cup Grants) /\ Len(approved) \in Nat
      /\ Len(Grant(r)) = Len(approved) + 1
      /\ DOMAIN Grant(r) = 1 .. Len(approved) + 1 /\ DOMAIN approved = 1 .. Len(approved)
  BY <1>1, <1>2, <1>3, AppendProperties, LenProperties
<1>5. \A i \in 1 .. Len(approved) : Grant(r)[i] = approved[i]
  BY <1>1, <1>2, <1>3, AppendProperties
<1>6. Grant(r)[Len(approved) + 1] = new
  BY <1>1, <1>2, <1>3, AppendProperties
<1> QED BY <1>4, <1>5, <1>6 DEF new

\* A grant comes after the rules there were, and nobody's rule after it.
LEMMA GrantKeepsOrder ==
  ASSUME AskedIsKnown, GrantsAreLast, TypeOK, NEW r \in pending,
         NEW i \in DOMAIN Grant(r), NEW j \in DOMAIN Grant(r), i <= j,
         NEW input \in Inputs, Grant(r)[i].by = input.session
  PROVE  Grant(r)[j].action = "allow"
<1> DEFINE n == Len(approved)
<1>1. n \in Nat /\ i \in 1 .. n + 1 /\ j \in 1 .. n + 1 /\ DOMAIN approved = 1 .. n
  BY GrantAppends
<1>2. CASE j <= n
  <2>1. i \in DOMAIN approved /\ j \in DOMAIN approved
    BY <1>1, <1>2
  <2>2. approved[i].by = input.session
    BY <2>1, GrantAppends
  <2>3. approved[j].action = "allow"
    BY <2>1, <2>2 DEF GrantsAreLast, AllowAfter
  <2> QED BY <2>1, <2>3, GrantAppends
<1>3. CASE j = n + 1
  <2>1. Grant(r)[n + 1] = [match |-> info[r].always, action |-> "allow", by |-> Session(r)]
    BY GrantAppends
  <2> QED BY <1>3, <2>1
<1> QED BY <1>1, <1>2, <1>3

LEMMA NextGrants ==
  ASSUME TypeOK, AskedIsKnown, GrantsAreLast, Next
  PROVE  GrantsAreLast'
<1>1. CASE UNCHANGED approved
  BY <1>1 DEF GrantsAreLast, AllowAfter
<1>2. CASE approved' = Stored
  <2>1. Stored \in Seq(Rules \cup Grants)
    BY RulesetsAssumption, SeqMonotonic
  <2> QED BY <1>2, <2>1, StoredAssumption DEF GrantsAreLast, AllowAfter
<1>3. ASSUME NEW r \in pending, approved' = Grant(r) PROVE GrantsAreLast'
  BY <1>3, GrantAppends, GrantKeepsOrder DEF GrantsAreLast, AllowAfter
<1> QED
  BY <1>1, <1>2, <1>3 DEF Next, AskAnswered, AskUser, Resume, Abort, Once, Reject, Always,
     Dispose, Connect, Deliver

\* What a session granted it is not asked for: no later rule says otherwise.
LEMMA GrantedIsAllowed ==
  ASSUME NEW rules \in Seq(Rules \cup Grants), NEW input \in Inputs,
         AllowAfter(rules, input.session),
         NEW i \in DOMAIN rules, rules[i].by = input.session, NEW p \in rules[i].match
  PROVE  Evaluate(p, rules) = "allow" /\ Evaluate(p, input.ruleset \o rules) = "allow"
<1> DEFINE S == Rules \cup Grants
           all == input.ruleset \o rules
           n == Len(input.ruleset)
<1>1. \A j \in DOMAIN rules : j >= i => rules[j].action = "allow"
  <2>1. DOMAIN rules = 1 .. Len(rules) /\ Len(rules) \in Nat
    BY LenProperties
  <2> QED BY <2>1 DEF AllowAfter
<1>2. Evaluate(p, rules) = "allow"
  BY <1>1, GrantDecides
<1>3. input.ruleset \in Seq(S)
  BY RulesetsAssumption, SeqMonotonic
<1>4. /\ all \in Seq(S) /\ n \in Nat /\ Len(rules) \in Nat
      /\ DOMAIN rules = 1 .. Len(rules)
      /\ DOMAIN all = 1 .. n + Len(rules)
      /\ \A j \in 1 .. n + Len(rules) : j > n => all[j] = rules[j - n]
  <2> HIDE DEF S
  <2> QED BY <1>3, ConcatProperties, LenProperties DEF S
<1> HIDE DEF S, all, n
<1>5. n + i \in DOMAIN all /\ all[n + i] = rules[i]
  BY <1>4
<1>6. \A j \in DOMAIN all : j >= n + i => all[j].action = "allow"
  <2> SUFFICES ASSUME NEW j \in DOMAIN all, j >= n + i PROVE all[j].action = "allow"
    OBVIOUS
  <2>1. all[j] = rules[j - n] /\ j - n \in DOMAIN rules /\ j - n >= i
    BY <1>4
  <2> QED BY <1>1, <2>1
<1>7. Evaluate(p, all) = "allow"
  BY <1>4, <1>5, <1>6, GrantDecides
<1> QED BY <1>2, <1>7 DEF all

LEMMA NextOwnGrants ==
  ASSUME TypeOK, PendingIsWaiting, AskedIsKnown, GrantsAreLast, OwnGrantsResolve, Next
  PROVE  OwnGrantsResolve'
<1>1. ASSUME NEW r \in Requests, NEW input \in Inputs, AskUser(r, input)
      PROVE  OwnGrantsResolve'
  <2>1. PICK p \in input.patterns : Evaluate(p, input.ruleset \o approved) = "ask"
    BY <1>1 DEF AskUser, Actions
  <2>2. p \notin GrantedBy(input.session)
    BY <2>1, GrantedIsAllowed DEF GrantsAreLast, AllowAfter, GrantedBy
  <2>3. \A s : GrantedBy(s)' = GrantedBy(s)
    BY <1>1 DEF AskUser, GrantedBy
  <2> QED BY <1>1, <2>2, <2>3 DEF AskUser, OwnGrantsResolve, TypeOK, Session
<1>2. ASSUME NEW r \in Requests, Always(r) PROVE OwnGrantsResolve'
  <2>1. r \in pending /\ approved' = Grant(r) /\ info' = info
        /\ pending' = pending \ ({r} \cup Covered(r))
    BY <1>2 DEF Always
  <2> SUFFICES ASSUME NEW q \in pending' PROVE ~(info[q].patterns \subseteq GrantedBy(Session(q))')
    BY <2>1 DEF OwnGrantsResolve, Session
  <2>2. q \in pending /\ q # r /\ q \notin Covered(r) /\ info[q] \in Inputs
    BY <2>1 DEF AskedIsKnown, TypeOK
  <2>3. CASE Session(q) = Session(r)
    <3>1. PICK p \in info[q].patterns : Evaluate(p, Grant(r)) # "allow"
      BY <2>2, <2>3 DEF Covered, SameSession
    <3>2. approved' \in Seq(Rules \cup Grants) /\ AllowAfter(approved', info[q].session)
      BY <2>2, NextGrants DEF GrantsAreLast, AllowAfter
    <3>3. \A i \in DOMAIN approved' :
            approved'[i].by = info[q].session => p \notin approved'[i].match
      BY <2>1, <2>2, <3>1, <3>2, GrantedIsAllowed
    <3>4. p \notin GrantedBy(info[q].session)'
      BY <2>1, <3>3 DEF GrantedBy
    <3> QED BY <2>1, <3>1, <3>4 DEF Session
  <2>4. CASE Session(q) # Session(r)
    <3>1. GrantedBy(Session(q))' \subseteq GrantedBy(Session(q))
      <4>1. ASSUME NEW i \in DOMAIN approved', approved'[i].by = Session(q)
            PROVE  i \in DOMAIN approved /\ approved'[i] = approved[i]
        <5>1. Grant(r)[Len(approved) + 1].by = Session(r)
          <6>1. Grant(r)[Len(approved) + 1] =
                   [match |-> info[r].always, action |-> "allow", by |-> Session(r)]
            BY <2>1, GrantAppends
          <6> QED BY <6>1
        <5>2. i \in 1 .. Len(approved) + 1 /\ Len(approved) \in Nat
              /\ DOMAIN approved = 1 .. Len(approved)
          BY <2>1, GrantAppends
        <5>3. i # Len(approved) + 1
          BY <2>1, <2>4, <4>1, <5>1
        <5>4. i \in DOMAIN approved
          BY <5>2, <5>3
        <5> QED BY <2>1, <5>4, GrantAppends
      <4> QED BY <2>1, <4>1 DEF GrantedBy, Session
    <3> QED BY <2>2, <3>1 DEF OwnGrantsResolve
  <2> QED BY <2>3, <2>4
<1>3. ASSUME NEW r \in Requests, NEW input \in Inputs, AskAnswered(r, input)
      PROVE  OwnGrantsResolve'
  BY <1>3 DEF AskAnswered, TypeOK, PendingIsWaiting, OwnGrantsResolve, GrantedBy, Session
<1>4. CASE pending' \subseteq pending /\ UNCHANGED <<info, approved>>
  BY <1>4 DEF OwnGrantsResolve, GrantedBy, Session
<1>5. CASE Dispose
  BY <1>5 DEF Dispose, OwnGrantsResolve
<1>6. ASSUME NEW r \in Requests, Resume(r) \/ Abort(r) \/ Once(r) \/ Reject(r)
      PROVE  pending' \subseteq pending /\ UNCHANGED <<info, approved>>
  BY <1>6 DEF Resume, Abort, Once, Reject
<1> QED
  BY <1>1, <1>2, <1>3, <1>4, <1>5, <1>6 DEF Next, Connect, Deliver

\* The step of a reply, as the clients see it: the requests it answers are
\* pending ones, and everyone connected is told of each.
LEMMA ReplyClients ==
  ASSUME TypeOK, PendingIsWaiting, ClientsHear, AskedIsShown,
         NEW rs \in SUBSET pending, Replied(rs),
         deferred' \in [Requests -> {"open", "allowed", "rejected", "corrected", "disposed"}],
         \A q \in Requests : IF q \in rs THEN deferred'[q] # "open" ELSE deferred'[q] = deferred[q],
         pending' \subseteq pending, UNCHANGED <<pc, audience, connected, shown>>
  PROVE  ClientsHear' /\ AskedIsShown'
<1>1. \A c \in Clients, r \in Requests :
        /\ <<"asked", r>> \in inbox'[c] <=> <<"asked", r>> \in inbox[c]
        /\ <<"replied", r>> \in inbox'[c] <=>
              <<"replied", r>> \in inbox[c] \/ (c \in connected /\ r \in rs)
  <2>1. rs \in SUBSET Requests
    BY DEF TypeOK
  <2> QED BY <2>1, PublishAdds DEF Replied, TypeOK
<1>2. AskedIsShown'
  BY <1>1 DEF AskedIsShown, TypeOK
<1> SUFFICES ASSUME NEW c \in Clients, NEW r \in Requests
             PROVE  (/\ <<"replied", r>> \in inbox[c] => deferred[r] # "open"
                     /\ Known(c, r) => c \in connected /\ pc[r] # "new"
                     /\ Known(c, r) /\ deferred[r] \in Replies => <<"replied", r>> \in inbox[c]
                     /\ Known(c, r) /\ pc[r] \in Replies => deferred[r] \in Replies)'
  BY <1>2 DEF ClientsHear
<1>3. Known(c, r)' <=> Known(c, r)
  BY <1>1 DEF Known
<1>4. CASE r \in rs
  <2>1. pc[r] = "waiting"
    BY <1>4 DEF PendingIsWaiting
  <2> QED BY <1>1, <1>3, <1>4, <2>1 DEF ClientsHear, Replies
<1>5. CASE r \notin rs
  BY <1>1, <1>3, <1>5 DEF ClientsHear
<1> QED BY <1>4, <1>5

LEMMA NextClients ==
  ASSUME TypeOK, PendingIsWaiting, AskedIsKnown, ClientsHear, AskedIsShown, Next
  PROVE  ClientsHear' /\ AskedIsShown'
<1> USE DEF TypeOK
<1>1. ASSUME NEW r \in Requests, NEW input \in Inputs, AskAnswered(r, input)
      PROVE  ClientsHear' /\ AskedIsShown'
  BY <1>1 DEF AskAnswered, ClientsHear, AskedIsShown, Known, Replies
<1>2. ASSUME NEW r \in Requests, NEW input \in Inputs, AskUser(r, input)
      PROVE  ClientsHear' /\ AskedIsShown'
  <2>1. \A c \in Clients, q \in Requests :
          /\ <<"asked", q>> \in inbox'[c] <=>
                <<"asked", q>> \in inbox[c] \/ (c \in connected /\ q = r)
          /\ <<"replied", q>> \in inbox'[c] <=> <<"replied", q>> \in inbox[c]
    <3>1. {r} \in SUBSET Requests /\ Publish("asked", {r})
      BY <1>2 DEF AskUser
    <3> QED BY <3>1, PublishAdds
  <2>2. AskedIsShown'
    <3> SUFFICES ASSUME NEW q \in pending', NEW c \in Clients, c \in audience'[q]
                 PROVE  q \in shown'[c] \/ <<"asked", q>> \in inbox'[c]
      BY DEF AskedIsShown
    <3>1. CASE q = r
      BY <1>2, <2>1, <3>1 DEF AskUser
    <3>2. CASE q # r
      <4>1. q \in pending /\ q \in Requests /\ c \in audience[q] /\ shown' = shown
        BY <1>2, <3>2 DEF AskUser
      <4> QED BY <2>1, <4>1 DEF AskedIsShown
    <3> QED BY <3>1, <3>2
  <2>3. deferred[r] = "open"
    BY <1>2 DEF AskUser, AskedIsKnown
  <2>4. ClientsHear'
    BY <1>2, <2>1, <2>3 DEF AskUser, ClientsHear, Known, Replies
  <2> QED BY <2>2, <2>4
<1>3. ASSUME NEW r \in Requests, Resume(r) \/ Abort(r) PROVE ClientsHear' /\ AskedIsShown'
  BY <1>3 DEF Resume, Abort, ClientsHear, AskedIsShown, Known, Replies
<1>4. ASSUME NEW r \in Requests, Once(r) PROVE ClientsHear' /\ AskedIsShown'
  <2>1. {r} \in SUBSET pending /\ Replied({r}) /\ UNCHANGED <<pc, audience, connected, shown>>
        /\ pending' \subseteq pending /\ deferred' = Answer({r}, "allowed")
    BY <1>4 DEF Once
  <2> QED BY <2>1, ReplyClients DEF Answer
<1>5. ASSUME NEW r \in Requests, Reject(r) PROVE ClientsHear' /\ AskedIsShown'
  <2>1. SameSession(r) \in SUBSET pending /\ r \in SameSession(r)
    BY <1>5, RepliesArePending DEF Reject
  <2>2. Replied(SameSession(r)) /\ UNCHANGED <<pc, audience, connected, shown>>
        /\ pending' \subseteq pending
    BY <1>5 DEF Reject
  <2>3. PICK how \in {"rejected", "corrected"} :
          deferred' = [Answer(SameSession(r), "rejected") EXCEPT ![r] = how]
    BY <1>5 DEF Reject
  <2> QED BY <2>1, <2>2, <2>3, ReplyClients DEF Answer
<1>6. ASSUME NEW r \in Requests, Always(r) PROVE ClientsHear' /\ AskedIsShown'
  <2>1. {r} \cup Covered(r) \in SUBSET pending
    BY <1>6, RepliesArePending DEF Always
  <2>2. Replied({r} \cup Covered(r)) /\ UNCHANGED <<pc, audience, connected, shown>>
        /\ pending' \subseteq pending /\ deferred' = Answer({r} \cup Covered(r), "allowed")
    BY <1>6 DEF Always
  <2> QED BY <2>1, <2>2, ReplyClients DEF Answer
<1>7. CASE Dispose
  BY <1>7 DEF Dispose, Answer, PendingIsWaiting, ClientsHear, AskedIsShown, Known, Replies
<1>8. ASSUME NEW c \in Clients, Connect(c) PROVE ClientsHear' /\ AskedIsShown'
  BY <1>8 DEF Connect, ClientsHear, AskedIsShown, Known
<1>9. ASSUME NEW c \in Clients, NEW r \in Requests, Deliver(c, r)
      PROVE  ClientsHear' /\ AskedIsShown'
  <2>1. AskedIsShown'
    BY <1>9 DEF Deliver, PendingIsWaiting, ClientsHear, AskedIsShown
  <2>2. \A d \in Clients, q \in Requests :
          /\ <<"replied", q>> \in inbox'[d] => <<"replied", q>> \in inbox[d]
          /\ Known(d, q)' => Known(d, q)
    BY <1>9 DEF Deliver, Known
  <2>3. \A d \in Clients, q \in Requests :
          <<"replied", q>> \in inbox[d] /\ Known(d, q)' => <<"replied", q>> \in inbox'[d]
    BY <1>9 DEF Deliver, Known
  <2>4. ClientsHear'
    BY <1>9, <2>2, <2>3 DEF Deliver, ClientsHear
  <2> QED BY <2>1, <2>4
<1> QED BY <1>1, <1>2, <1>3, <1>4, <1>5, <1>6, <1>7, <1>8, <1>9 DEF Next

LEMMA NextIInv == ASSUME IInv, [Next]_vars PROVE IInv'
<1>1. CASE Next
  BY <1>1, NextTypeOK, NextRequests, NextGrants, NextOwnGrants, NextClients DEF IInv
<1>2. CASE UNCHANGED vars
  BY <1>2 DEF vars, IInv, TypeOK, PendingIsWaiting, AskedIsKnown, GrantsAreLast,
     AllowAfter, OwnGrantsResolve, GrantedBy, Session, ClientsHear, Known, AskedIsShown
<1> QED BY <1>1, <1>2

THEOREM Invariant == Spec => []IInv
<1>1. Init => IInv
  BY InitIInv
<1>2. IInv /\ [Next]_vars => IInv'
  BY NextIInv
<1> QED BY <1>1, <1>2, PTL DEF Spec

-----------------------------------------------------------------------------
(* The properties *)

\* ask and reply: what is pending is a call that waits, open to an answer, and
\* that the grants of its own session do not cover.
THEOREM Due == Spec => []PendingIsDue
<1>1. IInv => PendingIsDue
  BY DEF IInv, PendingIsDue
<1> QED BY <1>1, Invariant, PTL

\* The TUI's dialogs: a pending request is shown to all who were connected when
\* it was asked, and one that was answered is closed or about to be.
THEOREM Dialogs == Spec => []DialogsFollow
<1>1. IInv => DialogsFollow
  BY DEF IInv, DialogsFollow, DeadDialogs, ClientsHear, Known
<1> QED BY <1>1, Invariant, PTL

\* The answers of one step are to requests of one session.
LEMMA OneSession ==
  ASSUME IInv, [Next]_vars, NEW q \in pending \ pending', NEW r \in pending \ pending',
         {deferred'[q], deferred'[r]} \subseteq Replies
  PROVE  Session(q) = Session(r)
<1> USE DEF IInv, TypeOK, PendingIsWaiting
<1>1. q \in Requests /\ r \in Requests /\ deferred[q] = "open" /\ deferred[r] = "open"
  OBVIOUS
<1>2. ASSUME NEW p \in Requests, Once(p) PROVE Session(q) = Session(r)
  BY <1>2 DEF Once
<1>3. ASSUME NEW p \in Requests, Reject(p) PROVE Session(q) = Session(r)
  BY <1>3 DEF Reject, SameSession
<1>4. ASSUME NEW p \in Requests, Always(p) PROVE Session(q) = Session(r)
  <2>1. {q, r} \subseteq {p} \cup Covered(p)
    BY <1>4 DEF Always
  <2> QED BY <2>1 DEF Covered, SameSession
<1>5. CASE Dispose
  BY <1>1, <1>5 DEF Dispose, Answer, Replies
<1>6. ASSUME NEW p \in Requests, Resume(p) \/ Abort(p) PROVE FALSE
  BY <1>1, <1>6 DEF Resume, Abort, Replies
<1>7. CASE pending \subseteq pending'
  BY <1>7
<1> QED
  BY <1>2, <1>3, <1>4, <1>5, <1>6, <1>7 DEF Next, AskAnswered, AskUser, Connect, Deliver, vars

\* Only a rejection answers so, and it leaves nothing of the session.
LEMMA RejectStops ==
  ASSUME IInv, [Next]_vars, NEW r \in Requests,
         deferred[r] = "open", deferred'[r] \in {"rejected", "corrected"},
         NEW q \in pending'
  PROVE  info[q].session # Session(r)
<1> USE DEF IInv, TypeOK, PendingIsWaiting
<1>1. ASSUME NEW p \in Requests, Reject(p) PROVE info[q].session # Session(r)
  <2>1. r \in SameSession(p)
    <3>1. p \in SameSession(p)
      BY <1>1, RepliesArePending DEF Reject
    <3>2. PICK how \in {"rejected", "corrected"} :
            deferred' = [Answer(SameSession(p), "rejected") EXCEPT ![p] = how]
      BY <1>1 DEF Reject
    <3>3. r \notin SameSession(p) => deferred'[r] = deferred[r]
      BY <3>1, <3>2 DEF Answer
    <3> QED BY <3>3
  <2>2. q \in pending \ SameSession(p)
    BY <1>1 DEF Reject
  <2> QED BY <2>1, <2>2 DEF SameSession, Session
<1>2. ASSUME NEW p \in Requests, Once(p) \/ Always(p) PROVE FALSE
  BY <1>2 DEF Once, Always, Answer
<1>3. CASE Dispose
  BY <1>3 DEF Dispose, Answer
<1>4. CASE UNCHANGED deferred
  BY <1>4
<1> QED
  BY <1>1, <1>2, <1>3, <1>4 DEF Next, AskAnswered, AskUser, Resume, Abort, Connect, Deliver, vars

\* reply: one reply answers requests of one session, and a rejection leaves none
\* of that session pending.
THEOREM OneSessionOnly == Spec => RepliesKeepToSession
<1>1. IInv /\ [Next]_vars =>
        [\A r \in Requests :
            deferred[r] = "open" /\ deferred'[r] \in {"rejected", "corrected"} =>
                \A q \in pending' : info[q].session # Session(r)]_vars
  BY RejectStops
<1>2. IInv /\ [Next]_vars =>
        [\A q, r \in pending \ pending' :
            {deferred'[q], deferred'[r]} \subseteq Replies => Session(q) = Session(r)]_vars
  BY OneSession
<1>3. Spec => RejectStopsSession
  BY <1>1, Invariant, PTL DEF Spec, RejectStopsSession
<1>4. Spec => OneSessionPerReply
  BY <1>2, Invariant, PTL DEF Spec, OneSessionPerReply
<1> QED BY <1>3, <1>4 DEF RepliesKeepToSession

=============================================================================
