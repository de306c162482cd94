--------------------------- MODULE Clients_proofs ---------------------------
(***************************************************************************)
(* What is proved of what the clients of the services see (MCServices):    *)
(* the output of a terminal, what an editor is told, what the terminal     *)
(* client shows of a session and what a device has of a session in a       *)
(* workspace.  Each is a section: its invariant, the lemmas that its steps *)
(* keep it, and the theorem about the specification that the run checks.   *)
(***************************************************************************)
EXTENDS MCServices, Integers, FiniteSets, Sequences, SequenceTheorems, TLAPS

Numbers == INSTANCE MaxLemmas

-----------------------------------------------------------------------------
(* The parts move by themselves: a behaviour of all is one of each.        *)

PartsStart == Terminal!Init /\ Editor!Init /\ Tui!Init /\ Workspace!Init

PartsStep ==
    [Terminal!Next]_terminalVars /\ [Editor!Next]_editorVars /\ [Tui!Next]_tuiVars /\ [Workspace!Next]_workspaceVars

LEMMA Starts == ASSUME Init PROVE PartsStart
BY DEF Init, PartsStart

LEMMA Steps == ASSUME [Next]_vars PROVE PartsStep
<1>1. CASE Next
  BY <1>1 DEF Next, PartsStep
<1>2. CASE UNCHANGED vars
  BY <1>2 DEF vars, PartsStep
<1> QED BY <1>1, <1>2

-----------------------------------------------------------------------------
(* A terminal and its clients *)

Sockets == {"none", "opening", "open", "closed"}
ViewerRecords == [socket : Sockets, base : 0..MaxCursor, at : 0..MaxCursor, got : Seq(0..MaxCursor)]
Reports == {"created", "exited", "deleted"}

\* Who is connected is tells what comes; what a client has lies before its cursor, and is
\* all from where it began but what the buffer has dropped.
ViewerIsServed(c) ==
    /\ socket[c].at <= cursor
    /\ socket[c].socket = "open" => c \in subscribers /\ socket[c].at = cursor /\ listed = "yes"
    /\ \A i \in 1..Len(socket[c].got) : socket[c].got[i] < socket[c].at
    /\ \A i, j \in 1..Len(socket[c].got) : i < j => socket[c].got[i] < socket[c].got[j]
    /\ \A k \in socket[c].base..socket[c].at - 1 :
          k < bufferCursor \/ \E i \in 1..Len(socket[c].got) : socket[c].got[i] = k

Served == socket \in [Clients -> ViewerRecords] /\ \A c \in Clients : ViewerIsServed(c)

\* A session is listed when it was created.
ListedIsMade == creating # "done" => listed = "no"

TerminalInv == Terminal!TypeOK /\ Served /\ ListedIsMade /\ Terminal!ExitToldOnce

LEMMA InitTerminalInv == ASSUME MaxCursor \in Nat, Terminal!Init PROVE TerminalInv
<1>1. socket \in [Clients -> ViewerRecords] /\ cursor = 0
      /\ \A c \in Clients : socket[c] = [socket |-> "none", base |-> 0, at |-> 0, got |-> <<>>]
  <2>1. [socket |-> "none", base |-> 0, at |-> 0, got |-> <<>>] \in ViewerRecords
    BY DEF ViewerRecords, Sockets
  <2> QED BY <2>1 DEF Terminal!Init
<1>2. Served
  <2>1. ASSUME NEW c \in Clients PROVE ViewerIsServed(c)
    BY <1>1 DEF ViewerIsServed
  <2> QED BY <1>1, <2>1 DEF Served
<1>3. Terminal!TypeOK /\ ListedIsMade /\ Terminal!ExitToldOnce
  BY DEF Terminal!Init, Terminal!TypeOK, ListedIsMade, Terminal!ExitToldOnce
<1> QED BY <1>2, <1>3 DEF TerminalInv

\* A client that gets the output from a position on, up to the end.
GotOn(new, c, from, to) ==
    /\ new \in [Clients -> ViewerRecords]
    /\ \A d \in Clients \ {c} : new[d] = socket[d]
    /\ new[c].socket = socket[c].socket /\ new[c].base = socket[c].base /\ new[c].at = to
    /\ \A i \in 1..Len(new[c].got) : new[c].got[i] < to
    /\ \A i, j \in 1..Len(new[c].got) : i < j => new[c].got[i] < new[c].got[j]
    /\ \A i \in 1..Len(socket[c].got) : \E j \in 1..Len(new[c].got) : new[c].got[j] = socket[c].got[i]
    /\ \A k \in from..to - 1 : \E j \in 1..Len(new[c].got) : new[c].got[j] = k

LEMMA SentOn ==
  ASSUME MaxCursor \in Nat, NEW c \in Clients, socket \in [Clients -> ViewerRecords],
         NEW from \in 0..MaxCursor, NEW to \in 0..MaxCursor, from <= to, socket[c].at <= from,
         \A i \in 1..Len(socket[c].got) : socket[c].got[i] < socket[c].at,
         \A i, j \in 1..Len(socket[c].got) : i < j => socket[c].got[i] < socket[c].got[j]
  PROVE  GotOn(Terminal!Sent(c, from, to), c, from, to)
<1>x. PICK r : r = socket[c]
  OBVIOUS
<1>y. PICK p : p = Terminal!Positions(from, to)
  OBVIOUS
<1>z. SUFFICES ASSUME NEW new, new = Terminal!Sent(c, from, to)
      PROVE  GotOn(new, c, from, to)
  OBVIOUS
<1>1. r \in ViewerRecords /\ r.got \in Seq(0..MaxCursor) /\ r.socket \in Sockets /\ r.base \in 0..MaxCursor /\ r.at \in 0..MaxCursor
  BY <1>x DEF ViewerRecords
<1>2. p \in Seq(0..MaxCursor) /\ Len(p) = to - from /\ \A i \in 1..to - from : p[i] = from + i - 1
  <2>1. p = [i \in 1..to - from |-> from + i - 1] /\ to - from \in Nat
    BY <1>y DEF Terminal!Positions
  <2>2. \A i \in 1..to - from : from + i - 1 \in 0..MaxCursor
    OBVIOUS
  <2> QED BY <2>1, <2>2
<1>w. PICK s : s = r.got \o p
  OBVIOUS
<1>n. PICK n \in Nat : n = Len(r.got)
  BY <1>1
<1>m. PICK m \in Nat : m = to - from
  OBVIOUS
<1>3. /\ s \in Seq(0..MaxCursor) /\ Len(s) = n + m
      /\ \A i \in 1..n : s[i] = r.got[i]
      /\ \A i \in 1..m : s[n + i] = from + i - 1
  <2>1. s \in Seq(0..MaxCursor) /\ Len(s) = n + m
    <3>1. s \in Seq(0..MaxCursor) /\ Len(s) = Len(r.got) + Len(p)
      BY <1>1, <1>2, <1>w, ConcatProperties
    <3>2. Len(p) = m
      BY <1>2, <1>m
    <3> QED BY <1>n, <3>1, <3>2
  <2>2. \A i \in 1..Len(s) : s[i] = IF i <= Len(r.got) THEN r.got[i] ELSE p[i - Len(r.got)]
    BY <1>1, <1>2, <1>w, ConcatProperties
  <2>3. ASSUME NEW i \in 1..n PROVE s[i] = r.got[i]
    <3>1. i \in 1..Len(s) /\ i <= Len(r.got)
      BY <1>n, <2>1
    <3> QED BY <2>2, <3>1
  <2>4. ASSUME NEW i \in 1..m PROVE s[n + i] = from + i - 1
    <3>1. n + i \in 1..Len(s) /\ ~(n + i <= n) /\ n + i - n = i
      BY <2>1
    <3>2. s[n + i] = p[i]
      BY <1>n, <2>2, <3>1
    <3> QED BY <1>2, <1>m, <3>2
  <2> QED BY <2>1, <2>3, <2>4
<1>4. new = [socket EXCEPT ![c] = [[r EXCEPT !.got = s] EXCEPT !.at = to]]
  BY <1>w, <1>x, <1>y, <1>z DEF Terminal!Sent
<1>5. /\ [[r EXCEPT !.got = s] EXCEPT !.at = to] \in ViewerRecords
      /\ [[r EXCEPT !.got = s] EXCEPT !.at = to].socket = r.socket /\ [[r EXCEPT !.got = s] EXCEPT !.at = to].base = r.base
      /\ [[r EXCEPT !.got = s] EXCEPT !.at = to].at = to /\ [[r EXCEPT !.got = s] EXCEPT !.at = to].got = s
  BY <1>1, <1>3 DEF ViewerRecords
<1>6. /\ new \in [Clients -> ViewerRecords] /\ \A d \in Clients \ {c} : new[d] = socket[d]
      /\ new[c].socket = r.socket /\ new[c].base = r.base /\ new[c].at = to /\ new[c].got = s
  BY <1>4, <1>5
<1>7. \A i \in 1..n + m : i \in 1..n \/ \E j \in 1..m : i = n + j
  <2>1. ASSUME NEW i \in 1..n + m, i \notin 1..n PROVE i - n \in 1..m /\ i = n + (i - n)
    BY <2>1
  <2> QED BY <2>1
<1>8. /\ \A i \in 1..n : r.got[i] \in Int /\ r.got[i] < from
      /\ \A i, j \in 1..n : i < j => r.got[i] < r.got[j]
  <2>1. \A i \in 1..n : r.got[i] \in 0..MaxCursor
    BY <1>1, <1>n
  <2>2. \A i \in 1..n : r.got[i] < r.at /\ r.at <= from /\ r.at \in Int
    BY <1>1, <1>x, <1>n
  <2> QED BY <1>x, <1>n, <2>1, <2>2
<1>9. \A i \in 1..n + m : s[i] < to
  <2>1. \A i \in 1..n : s[i] < to
    BY <1>3, <1>8
  <2>2. ASSUME NEW i \in 1..m PROVE s[n + i] < to
    <3>1. s[n + i] = from + i - 1
      BY <1>3
    <3> QED BY <1>m, <3>1
  <2> QED BY <1>7, <2>1, <2>2
<1>10. ASSUME NEW i \in 1..n + m, NEW j \in 1..n + m, i < j PROVE s[i] < s[j]
  <2>1. CASE j \in 1..n
    <3>1. i \in 1..n
      BY <1>10, <2>1
    <3> QED BY <1>3, <1>8, <1>10, <2>1, <3>1
  <2>2. ASSUME NEW k \in 1..m, j = n + k PROVE s[i] < s[j]
    <3>1. CASE i \in 1..n
      <4>1. s[i] = r.got[i] /\ r.got[i] \in Int /\ r.got[i] < from /\ s[j] = from + k - 1
        BY <1>3, <1>8, <2>2, <3>1
      <4> QED BY <4>1
    <3>2. ASSUME NEW h \in 1..m, i = n + h PROVE s[i] < s[j]
      BY <1>3, <1>10, <2>2, <3>2
    <3> QED BY <1>7, <3>1, <3>2
  <2> QED BY <1>7, <2>1, <2>2
<1>11. ASSUME NEW i \in 1..n PROVE \E j \in 1..n + m : s[j] = r.got[i]
  <2>1. i \in 1..n + m
    OBVIOUS
  <2> QED BY <1>3, <2>1
<1>12. ASSUME NEW k \in from..to - 1 PROVE \E j \in 1..n + m : s[j] = k
  <2>1. PICK h : h = k - from + 1
    OBVIOUS
  <2>2. h \in 1..m /\ n + h \in 1..n + m /\ from + h - 1 = k
    BY <1>m, <2>1
  <2> QED BY <1>3, <2>2
<1>13. /\ Len(new[c].got) = n + m /\ Len(socket[c].got) = n /\ new[c].got = s /\ socket[c].got = r.got
       /\ new[c].socket = socket[c].socket /\ new[c].base = socket[c].base
  BY <1>3, <1>6, <1>n, <1>x
<1>14. /\ \A i \in 1..Len(new[c].got) : new[c].got[i] < to
       /\ \A i, j \in 1..Len(new[c].got) : i < j => new[c].got[i] < new[c].got[j]
  BY <1>9, <1>10, <1>13
<1>15. /\ \A i \in 1..Len(socket[c].got) : \E j \in 1..Len(new[c].got) : new[c].got[j] = socket[c].got[i]
       /\ \A k \in from..to - 1 : \E j \in 1..Len(new[c].got) : new[c].got[j] = k
  BY <1>11, <1>12, <1>13
<1> QED BY <1>6, <1>13, <1>14, <1>15 DEF GotOn

\* A client that stays as it is, or whose door is closed, or opening.
LEMMA ViewerStays ==
  ASSUME MaxCursor \in Nat, NEW c \in Clients, ViewerIsServed(c), socket \in [Clients -> ViewerRecords],
         socket'[c].base = socket[c].base, socket'[c].at = socket[c].at, socket'[c].got = socket[c].got,
         cursor \in Nat, cursor' \in Nat, cursor <= cursor', bufferCursor \in Nat, bufferCursor' \in Nat, bufferCursor <= bufferCursor',
         socket'[c].socket = "open" => /\ socket[c].socket = "open"
                                       /\ cursor' = cursor /\ (c \in subscribers => c \in subscribers') /\ listed' = listed
  PROVE  ViewerIsServed(c)'
<1>1. socket[c].at \in Nat
  BY DEF ViewerRecords
<1>2. socket'[c].at <= cursor'
  BY <1>1 DEF ViewerIsServed
<1>3. socket'[c].socket = "open" => c \in subscribers' /\ socket'[c].at = cursor' /\ listed' = "yes"
  BY DEF ViewerIsServed
<1>4. socket[c].base \in Int
  BY DEF ViewerRecords
<1>5. ASSUME NEW k \in socket[c].base..socket[c].at - 1
      PROVE  k < bufferCursor' \/ \E i \in 1..Len(socket[c].got) : socket[c].got[i] = k
  BY <1>1, <1>4 DEF ViewerIsServed
<1> QED BY <1>2, <1>3, <1>5 DEF ViewerIsServed

\* A client gets what it lacks.
HasAll(new, c, to, low) ==
    /\ new \in [Clients -> ViewerRecords]
    /\ \A d \in Clients \ {c} : new[d] = socket[d]
    /\ new[c].socket = socket[c].socket /\ new[c].base = socket[c].base /\ new[c].at = to
    /\ \A i \in 1..Len(new[c].got) : new[c].got[i] < to
    /\ \A i, j \in 1..Len(new[c].got) : i < j => new[c].got[i] < new[c].got[j]
    /\ \A k \in new[c].base..to - 1 : k < low \/ \E i \in 1..Len(new[c].got) : new[c].got[i] = k

LEMMA ViewerGets ==
  ASSUME MaxCursor \in Nat, NEW c \in Clients, Served, cursor \in Nat, bufferCursor \in Nat,
         NEW from \in 0..MaxCursor, NEW to \in 0..MaxCursor, from <= to, socket[c].at <= from,
         NEW low \in Nat, bufferCursor <= low, \A k \in socket[c].at..from - 1 : k < low
  PROVE  HasAll(Terminal!Sent(c, from, to), c, to, low)
<1>x. SUFFICES ASSUME NEW new, new = Terminal!Sent(c, from, to)
      PROVE  HasAll(new, c, to, low)
  OBVIOUS
<1>1. socket \in [Clients -> ViewerRecords] /\ ViewerIsServed(c) /\ socket[c].at \in Nat /\ socket[c].base \in Nat
  BY DEF Served, ViewerRecords
<1>2. /\ new \in [Clients -> ViewerRecords]
      /\ \A d \in Clients \ {c} : new[d] = socket[d]
      /\ new[c].socket = socket[c].socket /\ new[c].base = socket[c].base /\ new[c].at = to
      /\ \A i \in 1..Len(new[c].got) : new[c].got[i] < to
      /\ \A i, j \in 1..Len(new[c].got) : i < j => new[c].got[i] < new[c].got[j]
      /\ \A i \in 1..Len(socket[c].got) : \E j \in 1..Len(new[c].got) : new[c].got[j] = socket[c].got[i]
      /\ \A k \in from..to - 1 : \E j \in 1..Len(new[c].got) : new[c].got[j] = k
  <2>1. /\ \A i \in 1..Len(socket[c].got) : socket[c].got[i] < socket[c].at
        /\ \A i, j \in 1..Len(socket[c].got) : i < j => socket[c].got[i] < socket[c].got[j]
    BY <1>1 DEF ViewerIsServed
  <2>2. GotOn(new, c, from, to)
    BY <1>1, <1>x, <2>1, SentOn
  <2> QED BY <2>2 DEF GotOn
<1>3. ASSUME NEW k \in socket[c].base..to - 1 PROVE k < low \/ \E i \in 1..Len(new[c].got) : new[c].got[i] = k
  <2>1. CASE k < socket[c].at
    <3>1. k \in socket[c].base..socket[c].at - 1
      BY <1>1, <2>1
    <3>2. k < bufferCursor \/ \E i \in 1..Len(socket[c].got) : socket[c].got[i] = k
      BY <1>1, <3>1 DEF ViewerIsServed
    <3>3. k < bufferCursor => k < low
      BY <1>1
    <3> QED BY <1>2, <3>2, <3>3
  <2>2. CASE k >= socket[c].at /\ k < from
    BY <1>1, <2>2
  <2>3. CASE k >= from
    BY <1>1, <1>2, <2>3
  <2> QED BY <1>1, <2>1, <2>2, <2>3
<1> QED BY <1>2, <1>3 DEF HasAll

\* The sockets of a session that is torn down are closed.
LEMMA SocketsClose ==
  ASSUME MaxCursor \in Nat, TerminalInv, Terminal!CloseAll, UNCHANGED <<cursor, bufferCursor>>
  PROVE  Served' /\ subscribers' \in SUBSET Clients
<1>1. socket \in [Clients -> ViewerRecords] /\ cursor \in Nat /\ bufferCursor \in Nat
  BY DEF TerminalInv, Served, Terminal!TypeOK
<1>2. socket' = [c \in Clients |-> IF c \in subscribers THEN [socket[c] EXCEPT !.socket = "closed"] ELSE socket[c]]
  BY DEF Terminal!CloseAll
<1>3. ASSUME NEW c \in Clients
      PROVE  /\ socket'[c] \in ViewerRecords /\ socket'[c].base = socket[c].base /\ socket'[c].at = socket[c].at /\ socket'[c].got = socket[c].got
             /\ socket'[c].socket # "open"
  <2>1. c \notin subscribers => socket[c].socket # "open"
    BY DEF TerminalInv, Served, ViewerIsServed
  <2>2. "closed" \in Sockets
    BY DEF Sockets
  <2> QED BY <1>1, <1>2, <2>1, <2>2 DEF ViewerRecords
<1>4. socket' \in [Clients -> ViewerRecords]
  BY <1>2, <1>3
<1>5. ASSUME NEW c \in Clients PROVE ViewerIsServed(c)'
  BY <1>1, <1>3, ViewerStays DEF TerminalInv, Served
<1>6. subscribers' = {}
  BY DEF Terminal!CloseAll
<1> QED BY <1>4, <1>5, <1>6 DEF Served, ViewerRecords

\* The end is tells once.
OnceTold(reports, tells) ==
    /\ reports \in Seq(Reports)
    /\ \A i, j \in 1..Len(reports) : reports[i] = "exited" /\ reports[j] = "exited" => i = j
    /\ tells = "exited" <=> \E i \in 1..Len(reports) : reports[i] = "exited"

LEMMA ReportsGrow ==
  ASSUME NEW reports, NEW tells, OnceTold(reports, tells), NEW e \in Reports
  PROVE  /\ e # "exited" => OnceTold(Append(reports, e), tells)
         /\ e = "exited" /\ tells # "exited" => OnceTold(Append(reports, e), "exited")
         /\ reports \o <<e>> = Append(reports, e) /\ reports \o <<>> = reports
<1>x. PICK new : new = Append(reports, e)
  OBVIOUS
<1>1. reports \in Seq(Reports)
  BY DEF OnceTold
<1>n. PICK n \in Nat : n = Len(reports)
  BY <1>1
<1>2. new \in Seq(Reports) /\ Len(new) = n + 1 /\ new[n + 1] = e /\ \A i \in 1..n : new[i] = reports[i]
  BY <1>1, <1>x, <1>n, AppendProperties
<1>3. \A i \in 1..n + 1 : i \in 1..n \/ i = n + 1
  OBVIOUS
<1>4. n + 1 \in 1..n + 1 /\ \A i \in 1..n : i \in 1..n + 1
  OBVIOUS
<1>5. ASSUME e # "exited" PROVE OnceTold(new, tells)
  BY <1>2, <1>3, <1>4, <1>5, <1>n DEF OnceTold
<1>6. ASSUME e = "exited", tells # "exited" PROVE OnceTold(new, "exited")
  BY <1>2, <1>3, <1>4, <1>6, <1>n DEF OnceTold
<1>7. reports \o <<e>> = Append(reports, e) /\ reports \o <<>> = reports
  BY <1>1
<1> QED BY <1>5, <1>6, <1>7, <1>x

\* What is tells is so, where the end of the process is as well.
ReportsTold == OnceTold(told, info) /\ (shell = "ended" => info = "exited")

LEMMA ToldIsExit == ReportsTold <=> told \in Seq(Reports) /\ Terminal!ExitToldOnce
<1>1. ASSUME told \in Seq(Reports) PROVE DOMAIN told = 1..Len(told)
  BY <1>1
<1> QED BY <1>1 DEF ReportsTold, OnceTold, Terminal!ExitToldOnce

\* The clients of a session whose output and sockets stay.
LEMMA ServedStays ==
  ASSUME MaxCursor \in Nat, TerminalInv, UNCHANGED <<cursor, bufferCursor, subscribers, socket>>,
         listed = "yes" => listed' = "yes"
  PROVE  Served'
<1>1. cursor \in Nat /\ bufferCursor \in Nat
  BY DEF TerminalInv, Terminal!TypeOK
<1> QED BY <1>1 DEF TerminalInv, Served, ViewerIsServed, ViewerRecords

\* One client changes its door or its cursor.
LEMMA OneChanges ==
  ASSUME MaxCursor \in Nat, TerminalInv, NEW c \in Clients, UNCHANGED <<cursor, bufferCursor, listed>>,
         socket' \in [Clients -> ViewerRecords], \A d \in Clients \ {c} : socket'[d] = socket[d],
         \A d \in subscribers \ {c} : d \in subscribers', ViewerIsServed(c)'
  PROVE  Served'
<1>1. ASSUME NEW d \in Clients \ {c} PROVE ViewerIsServed(d)'
  BY <1>1, ViewerStays DEF TerminalInv, Served, Terminal!TypeOK
<1> QED BY <1>1 DEF Served, ViewerRecords

LEMMA NextTerminalInv ==
  ASSUME MaxCursor \in Nat, Limit \in Nat, TerminalInv, [Terminal!Next]_terminalVars
  PROVE  TerminalInv'
<1>0. /\ Terminal!TypeOK /\ Served /\ ListedIsMade /\ ReportsTold /\ told \in Seq(Reports)
      /\ socket \in [Clients -> ViewerRecords] /\ cursor \in 0..MaxCursor /\ bufferCursor \in 0..cursor
      /\ OnceTold(told, info)
  BY ToldIsExit DEF TerminalInv, Served, Terminal!TypeOK, Reports, ReportsTold
<1>k. ASSUME UNCHANGED <<told, info>>, shell' = "ended" => shell = "ended" PROVE ReportsTold'
  BY <1>0, <1>k DEF ReportsTold
\* What there is to show of a step.
<1>a. ASSUME /\ creating' \in {"new", "preparing", "preparingDisposed", "done"}
             /\ shell' \in {"none", "running", "killed", "ended"} /\ info' \in {"running", "exited"}
             /\ listed' \in {"no", "yes", "disposed"}
             /\ cursor' \in 0..MaxCursor /\ bufferCursor' \in 0..cursor' /\ subscribers' \subseteq Clients,
             Served', ListedIsMade', ReportsTold'
      PROVE  TerminalInv'
  <2>1. told' \in Seq(Reports) /\ DOMAIN told' = 1..Len(told')
    BY <1>a DEF ReportsTold, OnceTold
  <2>2. Terminal!ExitToldOnce'
    BY <1>a, <2>1 DEF ReportsTold, OnceTold, Terminal!ExitToldOnce
  <2> QED BY <1>a, <2>1, <2>2 DEF TerminalInv, Terminal!TypeOK, Reports
\* The end of a session that is torn down.
<1>b. ASSUME NEW last \in Reports \ {"exited"}, Terminal!Kill(<<last>>)
      PROVE  ReportsTold' /\ shell' \in {"none", "running", "killed", "ended"} /\ info' \in {"running", "exited"}
  <2>1. OnceTold(Append(told, last), info) /\ told \o <<last>> = Append(told, last)
    BY <1>0, ReportsGrow
  <2>2. CASE shell # "running"
    BY <1>0, <1>b, <2>1, <2>2 DEF Terminal!Kill, ReportsTold, Terminal!TypeOK
  <2>3. CASE shell = "running"
    <3>1. CASE info' = "exited" /\ told' = Terminal!Exited \o <<last>>
      <4>1. OnceTold(Terminal!Exited, "exited")
        BY <1>0, ReportsGrow DEF Terminal!Exited, Reports, Terminal!TypeOK
      <4>2. OnceTold(Append(Terminal!Exited, last), "exited") /\ Terminal!Exited \o <<last>> = Append(Terminal!Exited, last)
        BY <4>1, ReportsGrow
      <4> QED BY <1>b, <2>3, <3>1, <4>2 DEF Terminal!Kill, ReportsTold
    <3>2. CASE told' = told \o <<last>> /\ info' = info
      BY <1>0, <1>b, <2>1, <2>3, <3>2 DEF Terminal!Kill, ReportsTold, Terminal!TypeOK
    <3> QED BY <1>b, <2>3, <3>1, <3>2 DEF Terminal!Kill
  <2> QED BY <2>2, <2>3
\* The same of one that is disposed of.
<1>c. ASSUME Terminal!Kill(<<>>)
      PROVE  ReportsTold' /\ shell' \in {"none", "running", "killed", "ended"} /\ info' \in {"running", "exited"}
  <2>1. told \o <<>> = told
    BY <1>0
  <2>2. CASE shell # "running"
    BY <1>0, <1>c, <2>1, <2>2 DEF Terminal!Kill, ReportsTold, Terminal!TypeOK
  <2>3. CASE shell = "running"
    <3>1. CASE info' = "exited" /\ told' = Terminal!Exited \o <<>>
      <4>1. OnceTold(Terminal!Exited, "exited")
        BY <1>0, ReportsGrow DEF Terminal!Exited, Reports, Terminal!TypeOK
      <4>2. Terminal!Exited \o <<>> = Terminal!Exited
        BY <4>1 DEF OnceTold
      <4> QED BY <1>c, <2>3, <3>1, <4>1, <4>2 DEF Terminal!Kill, ReportsTold
    <3>2. CASE told' = told \o <<>> /\ info' = info
      BY <1>0, <1>c, <2>1, <2>3, <3>2 DEF Terminal!Kill, ReportsTold, Terminal!TypeOK
    <3> QED BY <1>c, <2>3, <3>1, <3>2 DEF Terminal!Kill
  <2> QED BY <2>2, <2>3
<1>1. CASE Terminal!Create
  <2>1. creating = "new" /\ creating' = "preparing" /\ UNCHANGED <<shell, info, listed, cursor, bufferCursor, subscribers, socket, told>>
    BY <1>1 DEF Terminal!Create
  <2>2. Served' /\ ReportsTold' /\ ListedIsMade'
    BY <1>0, <1>k, <2>1, ServedStays DEF ListedIsMade
  <2> QED BY <1>0, <1>a, <2>1, <2>2 DEF Terminal!TypeOK
<1>2. CASE Terminal!Created
  <2>1. /\ creating # "done" /\ creating' = "done" /\ shell' = "running" /\ listed' \in {"yes", "disposed"}
        /\ told' = Append(told, "created") /\ UNCHANGED <<info, cursor, bufferCursor, subscribers, socket>>
    BY <1>2 DEF Terminal!Created
  <2>2. Served' /\ ListedIsMade'
    BY <1>0, <2>1, ServedStays DEF ListedIsMade
  <2>3. ReportsTold'
    BY <1>0, <2>1, ReportsGrow DEF ReportsTold, Reports
  <2> QED BY <1>0, <1>a, <2>1, <2>2, <2>3 DEF Terminal!TypeOK
<1>3. CASE Terminal!RemovePty
  <2>1. listed = "yes" /\ listed' = "no" /\ UNCHANGED <<creating, cursor, bufferCursor>>
    BY <1>3 DEF Terminal!RemovePty
  <2>2. Served' /\ subscribers' \subseteq Clients
    BY <1>3, <2>1, SocketsClose DEF Terminal!RemovePty
  <2>3. ReportsTold' /\ shell' \in {"none", "running", "killed", "ended"} /\ info' \in {"running", "exited"}
    BY <1>3, <1>b DEF Terminal!RemovePty, Reports
  <2> QED BY <1>0, <1>a, <2>1, <2>2, <2>3 DEF Terminal!TypeOK, ListedIsMade
<1>4. CASE Terminal!ProcessEnds
  <2>1. shell' = "ended" /\ info' = "exited" /\ UNCHANGED <<creating, cursor, bufferCursor>>
    BY <1>4 DEF Terminal!ProcessEnds
  <2>2. OnceTold(Terminal!Exited, "exited")
    BY <1>0, ReportsGrow DEF Terminal!Exited, Reports, Terminal!TypeOK
  <2>3. OnceTold(Append(Terminal!Exited, "deleted"), "exited") /\ Terminal!Exited \o <<"deleted">> = Append(Terminal!Exited, "deleted")
    BY <2>2, ReportsGrow DEF Reports
  <2>4. CASE listed = "yes"
    <3>1. listed' = "no" /\ Terminal!CloseAll /\ told' = Terminal!Exited \o <<"deleted">>
      BY <1>4, <2>4 DEF Terminal!ProcessEnds
    <3>2. Served' /\ subscribers' \subseteq Clients
      BY <2>1, <3>1, SocketsClose
    <3>3. ReportsTold'
      BY <2>1, <2>3, <3>1 DEF ReportsTold
    <3> QED BY <1>0, <1>a, <2>1, <3>1, <3>2, <3>3 DEF Terminal!TypeOK, ListedIsMade
  <2>5. CASE listed # "yes"
    <3>1. told' = Terminal!Exited /\ UNCHANGED <<listed, subscribers, socket>>
      BY <1>4, <2>5 DEF Terminal!ProcessEnds
    <3>2. Served'
      BY <2>1, <2>5, <3>1, ServedStays
    <3>3. ReportsTold'
      BY <2>1, <2>2, <3>1 DEF ReportsTold
    <3> QED BY <1>0, <1>a, <2>1, <3>1, <3>2, <3>3 DEF Terminal!TypeOK, ListedIsMade
  <2> QED BY <2>4, <2>5
<1>5. CASE Terminal!Dispose
  <2>1. /\ creating # "new" /\ creating' = (IF creating = "preparing" THEN "preparingDisposed" ELSE creating)
        /\ UNCHANGED <<cursor, bufferCursor>>
    BY <1>5 DEF Terminal!Dispose
  <2>2. creating' \in {"new", "preparing", "preparingDisposed", "done"} /\ (creating' # "done" => creating # "done")
    BY <1>0, <2>1 DEF Terminal!TypeOK
  <2>4. CASE listed = "yes"
    <3>1. listed' = "no" /\ Terminal!CloseAll /\ Terminal!Kill(<<>>)
      BY <1>5, <2>4 DEF Terminal!Dispose
    <3>2. Served' /\ subscribers' \subseteq Clients
      BY <2>1, <3>1, SocketsClose
    <3>3. ReportsTold' /\ shell' \in {"none", "running", "killed", "ended"} /\ info' \in {"running", "exited"}
      BY <1>c, <3>1
    <3> QED BY <1>0, <1>a, <2>1, <2>2, <3>1, <3>2, <3>3 DEF Terminal!TypeOK, ListedIsMade
  <2>5. CASE listed # "yes"
    <3>1. UNCHANGED <<shell, info, listed, subscribers, socket, told>>
      BY <1>5, <2>5 DEF Terminal!Dispose
    <3>2. Served' /\ ReportsTold'
      BY <1>k, <2>1, <2>5, <3>1, ServedStays
    <3> QED BY <1>0, <1>a, <2>1, <2>2, <3>1, <3>2 DEF Terminal!TypeOK, ListedIsMade
  <2> QED BY <2>4, <2>5
<1>6. ASSUME NEW n \in 1..2, Terminal!Output(n) PROVE TerminalInv'
  <2>1. /\ cursor' = cursor + n /\ cursor + n <= MaxCursor /\ subscribers' = {c \in subscribers : socket[c].socket = "open"}
        /\ socket' = [c \in Clients |-> IF c \in subscribers' THEN Terminal!Sent(c, cursor, cursor')[c] ELSE socket[c]]
        /\ bufferCursor' = IF cursor' - bufferCursor > Limit THEN cursor' - Limit ELSE bufferCursor
        /\ UNCHANGED <<creating, shell, info, listed, told>>
    BY <1>6 DEF Terminal!Output
  <2>2. cursor' \in 0..MaxCursor /\ bufferCursor' \in 0..cursor' /\ bufferCursor <= bufferCursor' /\ cursor <= cursor'
    BY <1>0, <2>1
  <2>3. ASSUME NEW c \in Clients PROVE socket'[c] \in ViewerRecords /\ ViewerIsServed(c)'
    <3>1. CASE c \in subscribers'
      <4>1. socket'[c] = Terminal!Sent(c, cursor, cursor')[c] /\ socket[c].at = cursor /\ listed = "yes" /\ socket[c].socket = "open"
        BY <1>0, <2>1, <3>1 DEF Served, ViewerIsServed
      <4>2. PICK new : new = Terminal!Sent(c, cursor, cursor')
        OBVIOUS
      <4>3. HasAll(new, c, cursor', bufferCursor')
        <5>1. cursor \in 0..MaxCursor /\ cursor' \in 0..MaxCursor /\ bufferCursor' \in Nat /\ cursor \in Nat /\ bufferCursor \in Nat
              /\ \A k \in socket[c].at..cursor - 1 : k < bufferCursor'
          BY <1>0, <2>2, <4>1
        <5>2. socket[c].at <= cursor
          BY <5>1, <4>1
        <5> QED BY <1>0, <2>2, <4>2, <5>1, <5>2, ViewerGets
      <4>4. socket'[c] = new[c] /\ listed' = "yes"
        BY <2>1, <4>1, <4>2
      <4>5. cursor' <= cursor' /\ (listed' = "yes" => socket'[c].at = cursor') /\ socket'[c] \in ViewerRecords
        BY <2>2, <4>3, <4>4 DEF HasAll
      <4> QED BY <2>2, <3>1, <4>3, <4>4, <4>5 DEF ViewerIsServed, HasAll
    <3>2. CASE c \notin subscribers'
      <4>1. socket'[c] = socket[c]
        BY <2>1, <3>2
      <4>2. socket[c].socket # "open"
        BY <1>0, <2>1, <3>2 DEF Served, ViewerIsServed
      <4> QED BY <1>0, <2>2, <4>1, <4>2, ViewerStays DEF Served
    <3> QED BY <3>1, <3>2
  <2>4. Served'
    BY <2>1, <2>3 DEF Served, ViewerRecords
  <2>5. ReportsTold' /\ ListedIsMade'
    BY <1>0, <1>k, <2>1 DEF ListedIsMade
  <2> QED BY <1>0, <1>a, <2>1, <2>2, <2>4, <2>5 DEF Terminal!TypeOK
\* One client opens or loses its door.
<1>d. ASSUME NEW c \in Clients, NEW door \in Sockets \ {"open"}, socket' = [socket EXCEPT ![c].socket = door],
             UNCHANGED <<creating, shell, info, listed, cursor, bufferCursor, told>>,
             \A d \in subscribers \ {c} : d \in subscribers', subscribers' \subseteq Clients
      PROVE  TerminalInv'
  <2>1. /\ socket' \in [Clients -> ViewerRecords] /\ \A d \in Clients \ {c} : socket'[d] = socket[d]
        /\ socket'[c].socket = door /\ socket'[c].base = socket[c].base /\ socket'[c].at = socket[c].at /\ socket'[c].got = socket[c].got
    BY <1>0, <1>d DEF ViewerRecords
  <2>2. ViewerIsServed(c)'
    BY <1>0, <1>d, <2>1, ViewerStays DEF Served
  <2>3. Served'
    BY <1>d, <2>1, <2>2, OneChanges
  <2>4. ReportsTold' /\ ListedIsMade'
    BY <1>0, <1>d, <1>k DEF ListedIsMade
  <2> QED BY <1>0, <1>a, <1>d, <2>3, <2>4 DEF Terminal!TypeOK
<1>7. ASSUME NEW c \in Clients, Terminal!Open(c) PROVE TerminalInv'
  BY <1>0, <1>7, <1>d DEF Terminal!Open, Sockets, Terminal!TypeOK
<1>8. ASSUME NEW c \in Clients, Terminal!Lost(c) PROVE TerminalInv'
  BY <1>0, <1>8, <1>d DEF Terminal!Lost, Sockets, Terminal!TypeOK
<1>9. ASSUME NEW c \in Clients, Terminal!OnClose(c) PROVE TerminalInv'
  <2>1. /\ socket[c].socket = "closed" /\ subscribers' = subscribers \ {c}
        /\ UNCHANGED <<creating, shell, info, listed, cursor, bufferCursor, socket, told>>
    BY <1>9 DEF Terminal!OnClose
  <2>2. ViewerIsServed(c)'
    BY <1>0, <2>1, ViewerStays DEF Served
  <2>3. Served'
    BY <1>0, <2>1, <2>2, OneChanges
  <2>4. ReportsTold' /\ ListedIsMade'
    BY <1>0, <1>k, <2>1 DEF ListedIsMade
  <2> QED BY <1>0, <1>a, <2>1, <2>3, <2>4 DEF Terminal!TypeOK
<1>10. ASSUME NEW c \in Clients, NEW from \in -1..MaxCursor, Terminal!Connect(c, from) PROVE TerminalInv'
  <2>1. /\ socket[c].socket = "opening" /\ (from = socket[c].at \/ (socket[c].at = 0 /\ from = -1))
        /\ UNCHANGED <<creating, shell, info, listed, cursor, bufferCursor, told>>
    BY <1>10 DEF Terminal!Connect
  <2>2. CASE listed # "yes"
    BY <1>0, <1>10, <1>d, <2>1, <2>2 DEF Terminal!Connect, Sockets, Terminal!TypeOK
  <2>3. CASE listed = "yes"
    <3> DEFINE first == IF from = -1 THEN cursor ELSE bufferCursor + Terminal!Offset(from)
    <3> DEFINE next == IF first < cursor THEN Terminal!Sent(c, first, cursor) ELSE [socket EXCEPT ![c].at = cursor]
    <3> DEFINE start == IF from = -1 THEN cursor ELSE socket[c].base
    <3>1. subscribers' = subscribers \cup {c}
      BY <1>10, <2>3 DEF Terminal!Connect
    <3>2. socket' = [next EXCEPT ![c].socket = "open", ![c].base = IF from = -1 THEN cursor ELSE @]
      BY <1>10, <2>3 DEF Terminal!Connect
    <3>3. /\ socket[c].at \in Nat /\ socket[c].at <= cursor /\ socket[c].base \in 0..MaxCursor
          /\ (from # -1 => from = socket[c].at) /\ from \in Int
      BY <1>0, <2>1 DEF Served, ViewerIsServed, ViewerRecords
    <3>4. /\ first \in 0..cursor /\ socket[c].at <= first
          /\ from # -1 => \A k \in socket[c].at..first - 1 : k < bufferCursor
      BY <1>0, <3>3 DEF Terminal!Offset
    <3> DEFINE low == IF from = -1 THEN cursor ELSE bufferCursor
    <3>5. low \in Nat /\ bufferCursor <= low /\ \A k \in socket[c].at..first - 1 : k < low
      BY <1>0, <3>3, <3>4
    <3> HIDE DEF first, low
    <3>6. HasAll(next, c, cursor, low)
      <4>1. first \in 0..MaxCursor /\ cursor \in Nat /\ bufferCursor \in Nat /\ cursor \in 0..MaxCursor
        BY <1>0, <3>4
      <4>2. CASE first < cursor
        <5>1. HasAll(Terminal!Sent(c, first, cursor), c, cursor, low)
          BY <1>0, <3>4, <3>5, <4>1, <4>2, ViewerGets
        <5> QED BY <4>2, <5>1
      <4>3. CASE ~(first < cursor)
        <5>1. first = cursor
          BY <3>4, <4>1, <4>3
        <5>2. next = [socket EXCEPT ![c].at = cursor]
          BY <4>3
        <5>3. ViewerIsServed(c)
          BY <1>0 DEF Served
        <5>4. /\ next \in [Clients -> ViewerRecords] /\ \A d \in Clients \ {c} : next[d] = socket[d]
              /\ next[c].at = cursor /\ next[c].socket = socket[c].socket /\ next[c].base = socket[c].base /\ next[c].got = socket[c].got
          BY <1>0, <4>1, <5>2 DEF ViewerRecords
        <5> HIDE DEF next
        <5>5. socket[c].got \in Seq(0..MaxCursor)
          BY <1>0 DEF ViewerRecords
        <5>6. ASSUME NEW i \in 1..Len(socket[c].got) PROVE socket[c].got[i] < cursor
          <6>1. socket[c].got[i] \in Int /\ socket[c].got[i] < socket[c].at
            BY <5>3, <5>5 DEF ViewerIsServed
          <6> QED BY <3>3, <4>1, <6>1
        <5>7. ASSUME NEW k \in socket[c].base..cursor - 1
              PROVE  k < low \/ \E i \in 1..Len(socket[c].got) : socket[c].got[i] = k
          <6>1. CASE k < socket[c].at
            <7>1. k \in socket[c].base..socket[c].at - 1
              BY <3>3, <6>1
            <7>2. k < bufferCursor \/ \E i \in 1..Len(socket[c].got) : socket[c].got[i] = k
              BY <5>3, <7>1 DEF ViewerIsServed
            <7> QED BY <3>3, <3>5, <4>1, <7>2
          <6>2. CASE k >= socket[c].at
            BY <3>3, <3>5, <5>1, <6>2
          <6> QED BY <3>3, <6>1, <6>2
        <5>8. \A i, j \in 1..Len(socket[c].got) : i < j => socket[c].got[i] < socket[c].got[j]
          BY <5>3 DEF ViewerIsServed
        <5> QED BY <5>4, <5>6, <5>7, <5>8 DEF HasAll
      <4> QED BY <4>2, <4>3
    <3> HIDE DEF next
    <3>7. next \in [Clients -> ViewerRecords] /\ next[c].base = socket[c].base
      BY <3>6 DEF HasAll
    <3>8. /\ socket' \in [Clients -> ViewerRecords] /\ \A d \in Clients \ {c} : socket'[d] = next[d]
          /\ socket'[c].socket = "open" /\ socket'[c].base = start /\ socket'[c].at = next[c].at /\ socket'[c].got = next[c].got
      <4>1. start \in 0..MaxCursor /\ "open" \in Sockets
        BY <1>0, <3>3 DEF Sockets
      <4>2. socket' = [next EXCEPT ![c] = [[next[c] EXCEPT !.socket = "open"] EXCEPT !.base = start]]
        BY <3>2, <3>7
      <4> HIDE DEF start
      <4>3. next[c] \in ViewerRecords
        BY <3>7
      <4>4. [[next[c] EXCEPT !.socket = "open"] EXCEPT !.base = start] \in ViewerRecords
        BY <4>1, <4>3 DEF ViewerRecords
      <4>5. /\ [[next[c] EXCEPT !.socket = "open"] EXCEPT !.base = start].socket = "open"
            /\ [[next[c] EXCEPT !.socket = "open"] EXCEPT !.base = start].base = start
            /\ [[next[c] EXCEPT !.socket = "open"] EXCEPT !.base = start].at = next[c].at
            /\ [[next[c] EXCEPT !.socket = "open"] EXCEPT !.base = start].got = next[c].got
        BY <4>3 DEF ViewerRecords
      <4> QED BY <3>7, <4>2, <4>4, <4>5
    <3>9. ViewerIsServed(c)'
      <4>1. cursor' = cursor /\ bufferCursor' = bufferCursor /\ listed' = "yes" /\ cursor <= cursor
        BY <1>0, <2>1, <2>3
      <4>2. \A k \in start..cursor - 1 : k < bufferCursor \/ \E i \in 1..Len(next[c].got) : next[c].got[i] = k
        <5>1. CASE from = -1
          BY <1>0, <5>1
        <5>2. CASE from # -1
          <6>1. start = next[c].base /\ low = bufferCursor
            BY <3>7, <5>2 DEF low
          <6> HIDE DEF start
          <6> QED BY <3>6, <6>1 DEF HasAll
        <5> QED BY <5>1, <5>2
      <4> HIDE DEF start
      <4> QED BY <3>1, <3>6, <3>8, <4>1, <4>2 DEF ViewerIsServed, HasAll
    <3>10. \A d \in Clients \ {c} : socket'[d] = socket[d]
      BY <3>6, <3>8 DEF HasAll
    <3>11. Served'
      BY <2>1, <3>1, <3>8, <3>9, <3>10, OneChanges
    <3>12. ReportsTold' /\ ListedIsMade' /\ subscribers' \subseteq Clients
      BY <1>0, <1>k, <2>1, <3>1 DEF ListedIsMade, Terminal!TypeOK
    <3> QED BY <1>0, <1>a, <2>1, <3>11, <3>12 DEF Terminal!TypeOK
  <2> QED BY <2>2, <2>3
<1>11. CASE UNCHANGED terminalVars
  BY <1>0, <1>11, <1>a, <1>k, ServedStays DEF terminalVars, Terminal!TypeOK, ListedIsMade
<1> QED BY <1>1, <1>2, <1>3, <1>4, <1>5, <1>6, <1>7, <1>8, <1>9, <1>10, <1>11 DEF Terminal!Next

(***************************************************************************)
(* The clients of a terminal get its output in order and nothing twice,    *)
(* miss only what the buffer has dropped, and are disconnected with it;    *)
(* the end of the process is tells once.                                    *)
(***************************************************************************)
THEOREM ClientsGetOutput ==
  ASSUME MaxCursor \in Nat, Limit \in Nat PROVE Spec => []TerminalIsTold
<1>1. Init => TerminalInv
  BY InitTerminalInv, Starts DEF PartsStart
<1>2. TerminalInv /\ [Next]_vars => TerminalInv'
  BY NextTerminalInv, Steps DEF PartsStep
<1>3. ASSUME TerminalInv PROVE TerminalIsTold
  <2>1. ASSUME NEW c \in Clients
        PROVE  /\ \A i, j \in DOMAIN socket[c].got : i < j => socket[c].got[i] < socket[c].got[j]
               /\ \A k \in socket[c].base..socket[c].at - 1 : k \in Terminal!Range(socket[c].got) \/ k < bufferCursor
    <3>1. socket[c].got \in Seq(0..MaxCursor) /\ ViewerIsServed(c)
      BY <1>3 DEF TerminalInv, Served, ViewerRecords
    <3>2. DOMAIN socket[c].got = 1..Len(socket[c].got)
      BY <3>1
    <3> QED BY <3>1, <3>2 DEF ViewerIsServed, Terminal!Range
  <2>2. Terminal!SocketsEnd
    BY <1>3 DEF TerminalInv, Served, ViewerIsServed, Terminal!SocketsEnd
  <2>3. Terminal!StreamIntact
    BY <2>1 DEF Terminal!StreamIntact
  <2> QED BY <1>3, <2>2, <2>3 DEF TerminalInv, TerminalIsTold, Terminal!TerminalIsTold
<1> QED BY <1>1, <1>2, <1>3, PTL DEF Spec

-----------------------------------------------------------------------------
(* The editor and its agent *)

\* No call has the name of the text.
EditorConstants == "text" \notin Tools /\ Nothing \notin Asked

Statuses == {"none", "pending", "running", "completed", "error"}
Pictures == {picture \in [Editor!Items -> Statuses \cup Nat] :
                picture["text"] \in Nat /\ \A t \in Tools : picture[t] \in Statuses}
News == ({"part"} \X Tools \X (Statuses \ {"none"})) \cup {<<"delta", "text", 1>>} \cup {<<"asked", r, "">> : r \in Asked}
Todos == (Tools \X (Statuses \ {"none"}) \X {"start", "started"}) \cup ({"text"} \X Nat \X {"start"})
Permits == {"new", "sent", "dropped", "queued", "open", "answered", "failed"}

EditorTyped ==
    /\ parts \in Pictures /\ shown \in Pictures /\ written \in Nat /\ parts["text"] <= written
    /\ news \in Seq(News)
    /\ handling = {} \/ \E e \in News, s \in {"start", "started"} : e[1] # "asked" /\ handling = {<<e, s>>}
    /\ managed \in BOOLEAN /\ toolStarts \subseteq Tools /\ disturbed \in BOOLEAN
    /\ load \in [stage : {"none", "loading", "replaying", "done"}, todo : SUBSET Todos]
    /\ load.stage # "replaying" => load.todo = {}
    /\ permit \in [Asked -> Permits] /\ prev \in [Asked -> Asked \cup {Nothing}] /\ tail \in Asked \cup {Nothing}

\* The requests that wait, in their order: each for the one before it, the first for
\* nobody or one that has settled; only that one may be open.
InLine(line) ==
    /\ line \in Seq(Asked)
    /\ \A i, j \in 1..Len(line) : line[i] = line[j] => i = j
    /\ \A r \in Asked : permit[r] \in {"queued", "open"} <=> \E i \in 1..Len(line) : line[i] = r
    /\ \A i \in 1..Len(line) : i > 1 => prev[line[i]] = line[i - 1] /\ permit[line[i]] = "queued"
    /\ line # <<>> => Editor!FirstInLine(line[1])
    /\ tail = IF line = <<>> THEN Nothing ELSE line[Len(line)]

\* A request is on its way once.
AskedOnce ==
    /\ \A i \in 1..Len(news) : news[i][1] = "asked" => permit[news[i][2]] = "sent"
    /\ \A i, j \in 1..Len(news) : news[i][1] = "asked" /\ news[j] = news[i] => i = j

\* What is shown after an event.
After(picture, e) ==
    IF e[1] = "part" THEN [picture EXCEPT ![e[2]] = e[3]]
    ELSE IF e[1] = "delta" THEN [picture EXCEPT !["text"] = @ + e[3]] ELSE picture

\* A call is pending first.
First(picture, e) == e[1] = "part" /\ e[3] = "pending" => picture[e[2]] = "none"

\* The events lead from picture to picture to the last one.
Leads(pictures, coming, last) ==
    /\ pictures \in Seq(Pictures) /\ Len(pictures) = Len(coming) + 1 /\ pictures[Len(coming) + 1] = last
    /\ \A i \in 1..Len(coming) : First(pictures[i], coming[i]) /\ pictures[i + 1] = After(pictures[i], coming[i])

\* What is shown when the replay is over.
Replayed(base, todo, picture) ==
    /\ base \in Pictures
    /\ \A i \in Editor!Items :
          /\ (\A p \in todo : p[1] # i) => base[i] = picture[i]
          /\ \A p \in todo : p[1] = i => base[i] = p[2]

\* And when the event in hand is handled.
InHand(hand, base, next, picture) ==
    \/ hand = {} /\ next = base
    \/ \E e \in News, s \in {"start", "started"} :
          /\ hand = {<<e, s>>} /\ next = After(base, e)
          /\ s = "start" => First(base, e)
          /\ s = "started" /\ e[1] = "part" /\ e[3] = "pending" => picture[e[2]] = "pending"

Saved == [parts EXCEPT !["text"] = written]

LeadsToSaved ==
    \E base \in Pictures, pictures \in Seq(Pictures) :
        /\ Leads(pictures, news, Saved)
        /\ Replayed(base, load.todo, shown)
        /\ InHand(handling, base, pictures[1], shown)

\* What a replay has still to tell, nothing has been told of.
ReplayGoesOn ==
    /\ \A h \in handling : h[2] = "start"
    /\ \A p, q \in load.todo : p[1] = q[1] => p = q
    /\ \A p \in load.todo :
          /\ p[1] = "text" => shown["text"] = 0
          /\ p[1] # "text" /\ p[3] = "start" => p[1] \notin toolStarts
          /\ p[1] # "text" /\ p[3] = "started" /\ p[2] = "pending" => shown[p[1]] = "pending"

Undisturbed ==
    /\ \A t \in toolStarts : shown[t] # "none"
    /\ load.stage = "none" /\ ~managed => shown = Editor!Unsaved /\ toolStarts = {} /\ handling = {}
    /\ load.stage # "none" => managed
    /\ load.stage = "loading" => shown = Editor!Unsaved /\ toolStarts = {}
    /\ load.stage = "replaying" => ReplayGoesOn
    /\ managed /\ load.stage # "loading" => LeadsToSaved

EditorInv == EditorTyped /\ (\E line \in Seq(Asked) : InLine(line)) /\ AskedOnce /\ (~disturbed => Undisturbed)

LEMMA NewsKinds ==
  ASSUME NEW e \in News
  PROVE  /\ e[1] = "asked" => e[2] \in Asked /\ e = <<"asked", e[2], "">>
         /\ e[1] = "part" => e[2] \in Tools /\ e[3] \in Statuses \ {"none"}
         /\ e[1] \notin {"asked", "part"} => e[1] = "delta" /\ e[2] = "text" /\ e[3] = 1
<1>1. CASE e \in {"part"} \X Tools \X (Statuses \ {"none"})
  BY <1>1
<1>2. CASE e = <<"delta", "text", 1>>
  BY <1>2
<1>3. CASE e \in {<<"asked", r, "">> : r \in Asked}
  <2>1. PICK r \in Asked : e = <<"asked", r, "">>
    BY <1>3
  <2> QED BY <2>1
<1> QED BY <1>1, <1>2, <1>3 DEF News

LEMMA AfterTyped ==
  ASSUME EditorConstants, NEW picture \in Pictures, NEW e \in News
  PROVE  After(picture, e) \in Pictures
<1>1. CASE e \in {"part"} \X Tools \X (Statuses \ {"none"})
  <2>1. e[1] = "part" /\ e[2] \in Tools /\ e[3] \in Statuses
    BY <1>1
  <2>2. After(picture, e) = [picture EXCEPT ![e[2]] = e[3]]
    BY <2>1 DEF After
  <2> QED BY <2>1, <2>2 DEF Pictures, EditorConstants, Editor!Items
<1>2. CASE e = <<"delta", "text", 1>>
  <2>1. After(picture, e) = [picture EXCEPT !["text"] = @ + 1]
    BY <1>2 DEF After
  <2> QED BY <2>1 DEF Pictures, EditorConstants, Editor!Items
<1>3. CASE e \in {<<"asked", r, "">> : r \in Asked}
  <2>1. e[1] = "asked"
    <3>1. PICK r \in Asked : e = <<"asked", r, "">>
      BY <1>3
    <3> QED BY <3>1
  <2> QED BY <2>1 DEF After
<1> QED BY <1>1, <1>2, <1>3 DEF News

\* One event more is published.
LEMMA LeadsOn ==
  ASSUME EditorConstants, NEW pictures, NEW coming \in Seq(News), NEW last \in Pictures, Leads(pictures, coming, last),
         NEW e \in News, First(last, e)
  PROVE  Leads(Append(pictures, After(last, e)), Append(coming, e), After(last, e))
<1>n. PICK n \in Nat : n = Len(coming)
  OBVIOUS
<1>x. PICK next : next = After(last, e)
  OBVIOUS
<1>p. PICK ps : ps = Append(pictures, next)
  OBVIOUS
<1>q. PICK es : es = Append(coming, e)
  OBVIOUS
<1>1. next \in Pictures
  BY <1>x, AfterTyped
<1>2. /\ pictures \in Seq(Pictures) /\ Len(pictures) = n + 1 /\ pictures[n + 1] = last
      /\ \A i \in 1..n : First(pictures[i], coming[i]) /\ pictures[i + 1] = After(pictures[i], coming[i])
  BY <1>n DEF Leads
<1>3. ps \in Seq(Pictures) /\ Len(ps) = n + 2 /\ ps[n + 2] = next /\ \A i \in 1..n + 1 : ps[i] = pictures[i]
  BY <1>1, <1>2, <1>p, AppendProperties
<1>4. Len(es) = n + 1 /\ es[n + 1] = e /\ \A i \in 1..n : es[i] = coming[i]
  BY <1>n, <1>q, AppendProperties
<1>5. ASSUME NEW i \in 1..n + 1 PROVE First(ps[i], es[i]) /\ ps[i + 1] = After(ps[i], es[i])
  <2>1. CASE i = n + 1
    <3>1. ps[i] = last /\ es[i] = e /\ ps[i + 1] = next
      BY <1>2, <1>3, <1>4, <2>1
    <3> QED BY <1>x, <3>1
  <2>2. CASE i \in 1..n
    <3>1. ps[i] = pictures[i] /\ es[i] = coming[i] /\ ps[i + 1] = pictures[i + 1]
      BY <1>3, <1>4, <2>2
    <3> QED BY <1>2, <2>2, <3>1
  <2> QED BY <2>1, <2>2
<1>6. Leads(ps, es, next)
  BY <1>3, <1>4, <1>5 DEF Leads
<1> QED BY <1>6, <1>p, <1>q, <1>x

\* The first one is taken.
LEMMA LeadsTail ==
  ASSUME NEW pictures, NEW coming \in Seq(News), coming # <<>>, NEW last, Leads(pictures, coming, last)
  PROVE  /\ Leads(Tail(pictures), Tail(coming), last)
         /\ Tail(pictures)[1] = After(pictures[1], Head(coming)) /\ First(pictures[1], Head(coming))
<1>n. PICK n \in Nat : n = Len(coming)
  OBVIOUS
<1>p. PICK ps : ps = Tail(pictures)
  OBVIOUS
<1>q. PICK es : es = Tail(coming)
  OBVIOUS
<1>1. /\ pictures \in Seq(Pictures) /\ Len(pictures) = n + 1 /\ pictures[n + 1] = last
      /\ \A i \in 1..n : First(pictures[i], coming[i]) /\ pictures[i + 1] = After(pictures[i], coming[i])
  BY <1>n DEF Leads
<1>2. n # 0
  BY <1>n
<1>3. ps \in Seq(Pictures) /\ Len(ps) = n /\ \A i \in 1..n : ps[i] = pictures[i + 1]
  BY <1>1, <1>2, <1>p
<1>4. Len(es) = n - 1 /\ \A i \in 1..n - 1 : es[i] = coming[i + 1]
  BY <1>n, <1>2, <1>q
<1>5. ASSUME NEW i \in 1..n - 1 PROVE First(ps[i], es[i]) /\ ps[i + 1] = After(ps[i], es[i])
  <2>1. i \in 1..n /\ i + 1 \in 1..n
    BY <1>2
  <2>2. ps[i] = pictures[i + 1] /\ es[i] = coming[i + 1] /\ ps[i + 1] = pictures[i + 1 + 1]
    BY <1>3, <1>4, <2>1
  <2> QED BY <1>1, <2>1, <2>2
<1>6. ps[n] = last /\ n - 1 + 1 = n
  BY <1>1, <1>2, <1>3
<1>7. Leads(ps, es, last)
  BY <1>2, <1>3, <1>4, <1>5, <1>6 DEF Leads
<1>8. Head(coming) = coming[1] /\ ps[1] = pictures[1 + 1] /\ 1 \in 1..n
  BY <1>2, <1>3, <1>n
<1>9. ps[1] = After(pictures[1], Head(coming)) /\ First(pictures[1], Head(coming))
  BY <1>1, <1>8
<1> QED BY <1>7, <1>9, <1>p, <1>q

\* The next pictures, as the next state has them.
LEMMA NextPictures ==
  ASSUME NEW base \in Pictures, NEW pictures \in Seq(Pictures), Leads(pictures, news', Saved'),
         Replayed(base, load'.todo, shown'), InHand(handling', base, pictures[1], shown')
  PROVE  LeadsToSaved'
<1>1. Leads(pictures, news, Saved)'
  BY DEF Leads, First, After, Pictures, Editor!Items, Saved, Statuses
<1>2. Replayed(base, load.todo, shown)'
  BY DEF Replayed, Pictures, Editor!Items, Statuses
<1>3. InHand(handling, base, pictures[1], shown)'
  BY DEF InHand, First, After, News, Statuses
<1> QED BY <1>1, <1>2, <1>3 DEF LeadsToSaved, Pictures, Editor!Items, Statuses

LEMMA LeadsFurther ==
  ASSUME EditorConstants, EditorTyped, LeadsToSaved, NEW e \in News, news' = Append(news, e),
         Saved' = After(Saved, e), First(Saved, e), UNCHANGED <<handling, load, shown>>
  PROVE  LeadsToSaved'
<1>0. Saved \in Pictures /\ news \in Seq(News)
  BY DEF EditorTyped, Saved, Pictures, EditorConstants, Editor!Items
<1>1. PICK base \in Pictures, pictures \in Seq(Pictures) :
          Leads(pictures, news, Saved) /\ Replayed(base, load.todo, shown) /\ InHand(handling, base, pictures[1], shown)
  BY DEF LeadsToSaved
<1>2. PICK ps : ps = Append(pictures, After(Saved, e))
  OBVIOUS
<1>3. Leads(ps, news', Saved')
  BY <1>0, <1>1, <1>2, LeadsOn
<1>4. ps \in Seq(Pictures)
  BY <1>3 DEF Leads
<1>5. ps[1] = pictures[1]
  <2>1. 1 \in 1..Len(pictures) /\ pictures \in Seq(Pictures)
    BY <1>0, <1>1 DEF Leads
  <2>2. After(Saved, e) \in Pictures
    BY <1>0, AfterTyped
  <2> QED BY <1>2, <2>1, <2>2, AppendProperties
<1> QED BY <1>1, <1>3, <1>4, <1>5, NextPictures

\* Who waits for a permission goes on waiting.
LEMMA LineStays ==
  ASSUME NEW line, InLine(line), UNCHANGED <<prev, tail>>,
         \A r \in Asked : permit'[r] = permit[r] \/ (permit[r] \in {"new", "sent"} /\ permit'[r] \in {"sent", "dropped"})
  PROVE  InLine(line)'
<1>1. \A r \in Asked : permit'[r] \in {"queued", "open"} <=> permit[r] \in {"queued", "open"}
  OBVIOUS
<1>2. \A i \in 1..Len(line) : line[i] \in Asked
  BY DEF InLine
<1>3. \A i \in 1..Len(line) : i > 1 => prev'[line[i]] = line[i - 1] /\ permit'[line[i]] = "queued"
  BY <1>2 DEF InLine
<1>4. line # <<>> => Editor!FirstInLine(line[1])'
  BY DEF InLine, Editor!FirstInLine
<1> QED BY <1>1, <1>3, <1>4 DEF InLine

LEMMA LineJoins ==
  ASSUME EditorConstants, EditorTyped, NEW line, InLine(line), NEW r \in Asked, permit[r] = "sent",
         permit' = [permit EXCEPT ![r] = "queued"], prev' = [prev EXCEPT ![r] = tail], tail' = r
  PROVE  \E next \in Seq(Asked) : InLine(next)'
<1>n. PICK n \in Nat : n = Len(line)
  BY DEF InLine
<1>x. PICK next : next = Append(line, r)
  OBVIOUS
<1>0. line \in Seq(Asked) /\ permit \in [Asked -> Permits] /\ prev \in [Asked -> Asked \cup {Nothing}]
  BY DEF InLine, EditorTyped
<1>1. next \in Seq(Asked) /\ Len(next) = n + 1 /\ next[n + 1] = r /\ \A i \in 1..n : next[i] = line[i]
  BY <1>0, <1>n, <1>x, AppendProperties
<1>2. \A i \in 1..n : line[i] \in Asked /\ line[i] # r
  BY <1>0, <1>n DEF InLine
<1>3. /\ permit'[r] = "queued" /\ prev'[r] = tail
      /\ \A q \in Asked : q # r => permit'[q] = permit[q] /\ prev'[q] = prev[q]
  BY <1>0
<1>4. \A i \in 1..n + 1 : i \in 1..n \/ i = n + 1
  OBVIOUS
<1>5. \A i, j \in 1..n + 1 : next[i] = next[j] => i = j
  BY <1>1, <1>2, <1>4, <1>n DEF InLine
<1>6. ASSUME NEW q \in Asked PROVE permit'[q] \in {"queued", "open"} <=> \E i \in 1..n + 1 : next[i] = q
  <2>1. CASE q = r
    <3>1. n + 1 \in 1..n + 1
      OBVIOUS
    <3> QED BY <1>1, <1>3, <2>1, <3>1
  <2>2. CASE q # r
    <3>1. \A i \in 1..n : i \in 1..n + 1
      OBVIOUS
    <3> QED BY <1>1, <1>3, <1>4, <1>n, <2>2, <3>1 DEF InLine
  <2> QED BY <2>1, <2>2
<1>7. ASSUME NEW i \in 1..n + 1, i > 1 PROVE prev'[next[i]] = next[i - 1] /\ permit'[next[i]] = "queued"
  <2>1. CASE i \in 1..n
    <3>1. next[i] = line[i] /\ next[i - 1] = line[i - 1] /\ line[i] # r /\ line[i] \in Asked
      BY <1>1, <1>2, <1>7, <2>1
    <3> QED BY <1>3, <1>7, <1>n, <2>1, <3>1 DEF InLine
  <2>2. CASE i = n + 1
    <3>1. n \in 1..n /\ line # <<>> /\ i - 1 = n
      BY <1>0, <1>7, <1>n, <2>2
    <3>2. tail = line[n]
      BY <1>n, <3>1 DEF InLine
    <3> QED BY <1>1, <1>3, <2>2, <3>1, <3>2
  <2> QED BY <1>4, <2>1, <2>2
<1>8. Editor!FirstInLine(next[1])'
  <2>1. CASE n = 0
    <3>1. line = <<>> /\ next[1] = r
      <4>0. line \in Seq(Asked) /\ Len(line) = 0
        BY <1>0, <1>n, <2>1
      <4>1. line = <<>>
        BY <4>0, EmptySeq
      <4> QED BY <1>1, <2>1, <4>1
    <3>2. tail = Nothing
      BY <3>1 DEF InLine
    <3> QED BY <1>3, <3>1, <3>2 DEF Editor!FirstInLine
  <2>2. CASE n # 0
    <3>1. line # <<>> /\ next[1] = line[1] /\ 1 \in 1..n
      BY <1>0, <1>1, <1>n, <2>2
    <3>2. Editor!FirstInLine(line[1])
      BY <3>1 DEF InLine
    <3>3. \A q \in Asked : permit[q] \in {"answered", "failed"} => permit'[q] \in {"answered", "failed"}
      BY <1>3
    <3>4. prev'[line[1]] = prev[line[1]]
      BY <1>2, <1>3, <3>1
    <3> QED BY <3>1, <3>2, <3>3, <3>4 DEF Editor!FirstInLine
  <2> QED BY <2>1, <2>2
<1>9. next # <<>>
  BY <1>1
<1>10. InLine(next)'
  BY <1>1, <1>5, <1>6, <1>7, <1>8, <1>9 DEF InLine
<1> QED BY <1>1, <1>10

\* The first one is asked, and settles.
LEMMA LineOpens ==
  ASSUME EditorConstants, EditorTyped, NEW line, InLine(line), NEW r \in Asked, permit[r] = "queued", Editor!FirstInLine(r),
         permit' = [permit EXCEPT ![r] = "open"], UNCHANGED <<prev, tail>>
  PROVE  InLine(line)'
<1>0. line \in Seq(Asked) /\ permit \in [Asked -> Permits] /\ \A i \in 1..Len(line) : line[i] \in Asked
  BY DEF InLine, EditorTyped
<1>1. PICK k \in 1..Len(line) : line[k] = r
  BY DEF InLine
<1>2. k = 1
  <2>1. SUFFICES ASSUME k > 1 PROVE FALSE
    BY <1>1
  <2>2. prev[r] = line[k - 1] /\ k - 1 \in 1..Len(line)
    BY <1>1, <2>1 DEF InLine
  <2>3. line[k - 1] \in Asked /\ permit[line[k - 1]] \in {"queued", "open"}
    BY <1>0, <2>2 DEF InLine
  <2> QED BY <2>2, <2>3 DEF Editor!FirstInLine, EditorConstants
<1>3. permit'[r] = "open" /\ \A q \in Asked : q # r => permit'[q] = permit[q]
  BY <1>0
<1>4. \A q \in Asked : permit'[q] \in {"queued", "open"} <=> permit[q] \in {"queued", "open"}
  BY <1>3
<1>5. ASSUME NEW i \in 1..Len(line), i > 1 PROVE prev'[line[i]] = line[i - 1] /\ permit'[line[i]] = "queued"
  <2>1. line[i] # r
    BY <1>1, <1>2, <1>5 DEF InLine
  <2> QED BY <1>0, <1>3, <1>5, <2>1 DEF InLine
<1>6. line # <<>> => Editor!FirstInLine(line[1])'
  <2>1. \A q \in Asked : permit[q] \in {"answered", "failed"} => permit'[q] \in {"answered", "failed"}
    BY <1>3
  <2> QED BY <2>1 DEF InLine, Editor!FirstInLine
<1> QED BY <1>4, <1>5, <1>6 DEF InLine

LEMMA LineLeaves ==
  ASSUME EditorConstants, EditorTyped, NEW line, InLine(line), NEW r \in Asked, permit[r] = "open",
         NEW how \in {"answered", "failed"}, permit' = [permit EXCEPT ![r] = how],
         UNCHANGED prev, tail' = IF tail = r THEN Nothing ELSE tail
  PROVE  \E next \in Seq(Asked) : InLine(next)'
<1>0. line \in Seq(Asked) /\ permit \in [Asked -> Permits] /\ \A i \in 1..Len(line) : line[i] \in Asked
  BY DEF InLine, EditorTyped
<1>n. PICK n \in Nat : n = Len(line)
  BY <1>0
<1>x. PICK next : next = Tail(line)
  OBVIOUS
<1>1. PICK k \in 1..n : line[k] = r
  BY <1>n DEF InLine
<1>2. k = 1 /\ n # 0 /\ line # <<>>
  BY <1>0, <1>1, <1>n DEF InLine
<1>3. next \in Seq(Asked) /\ Len(next) = n - 1 /\ \A i \in 1..n - 1 : next[i] = line[i + 1]
  BY <1>0, <1>2, <1>n, <1>x
<1>4. permit'[r] = how /\ \A q \in Asked : q # r => permit'[q] = permit[q]
  BY <1>0
<1>5. \A i \in 1..n - 1 : i + 1 \in 1..n /\ line[i + 1] # r /\ line[i + 1] \in Asked
  BY <1>0, <1>1, <1>2, <1>n DEF InLine
<1>6. \A i, j \in 1..n - 1 : next[i] = next[j] => i = j
  <2>1. \A i, j \in 1..n : line[i] = line[j] => i = j
    BY <1>n DEF InLine
  <2> QED BY <1>3, <1>5, <2>1
<1>7. ASSUME NEW q \in Asked PROVE permit'[q] \in {"queued", "open"} <=> \E i \in 1..n - 1 : next[i] = q
  <2>1. CASE q = r
    BY <1>3, <1>4, <1>5, <2>1
  <2>2. CASE q # r
    <3>1. ASSUME NEW i \in 1..n, line[i] = q PROVE i - 1 \in 1..n - 1 /\ next[i - 1] = q
      <4>1. i # 1
        BY <1>1, <1>2, <2>2, <3>1
      <4>2. i - 1 \in 1..n - 1 /\ i - 1 + 1 = i
        BY <4>1
      <4> QED BY <1>3, <3>1, <4>2
    <3>2. permit[q] \in {"queued", "open"} <=> \E i \in 1..n : line[i] = q
      BY <1>n DEF InLine
    <3>3. permit'[q] = permit[q]
      BY <1>4, <2>2
    <3>4. ASSUME NEW i \in 1..n - 1, next[i] = q PROVE \E j \in 1..n : line[j] = q
      BY <1>3, <1>5, <3>4
    <3> QED BY <3>1, <3>2, <3>3, <3>4
  <2> QED BY <2>1, <2>2
<1>8. ASSUME NEW i \in 1..n - 1, i > 1 PROVE prev'[next[i]] = next[i - 1] /\ permit'[next[i]] = "queued"
  <2>1. next[i] = line[i + 1] /\ next[i - 1] = line[i] /\ line[i + 1] # r /\ line[i + 1] \in Asked /\ i + 1 \in 1..n /\ i + 1 > 1 /\ i + 1 - 1 = i
    <3>1. i - 1 \in 1..n - 1 /\ i - 1 + 1 = i
      BY <1>8
    <3> QED BY <1>3, <1>5, <3>1
  <2>2. prev[line[i + 1]] = line[i + 1 - 1] /\ permit[line[i + 1]] = "queued"
    BY <1>n, <2>1 DEF InLine
  <2> QED BY <1>4, <2>1, <2>2
<1>9. next # <<>> => Editor!FirstInLine(next[1])'
  <2>1. SUFFICES ASSUME next # <<>> PROVE Editor!FirstInLine(next[1])'
    OBVIOUS
  <2>2. n > 1
    BY <1>2, <1>3, <2>1
  <2>3. next[1] = line[2] /\ 2 \in 1..n
    BY <1>3, <2>2
  <2>4. prev[line[2]] = line[2 - 1]
    BY <1>n, <2>3 DEF InLine
  <2>5. prev'[next[1]] = r
    BY <1>1, <1>2, <2>3, <2>4
  <2> QED BY <1>4, <2>5 DEF Editor!FirstInLine
<1>10. tail' = IF next = <<>> THEN Nothing ELSE next[Len(next)]
  <2>1. tail = line[n]
    BY <1>2, <1>n DEF InLine
  <2>2. CASE n = 1
    <3>1. next = <<>>
      BY <1>3, <2>2
    <3> QED BY <1>1, <1>2, <2>1, <2>2, <3>1
  <2>3. CASE n > 1
    <3>1. next # <<>> /\ next[n - 1] = line[n] /\ n - 1 \in 1..n - 1 /\ n - 1 + 1 = n
      BY <1>3, <2>3
    <3>2. tail # r
      BY <1>5, <2>1, <3>1
    <3> QED BY <1>3, <2>1, <3>1, <3>2
  <2> QED BY <1>2, <2>2, <2>3
<1>11. InLine(next)'
  BY <1>3, <1>6, <1>7, <1>8, <1>9, <1>10 DEF InLine
<1> QED BY <1>3, <1>11

LEMMA InitEditorInv == ASSUME EditorConstants, Editor!Init PROVE EditorInv
<1>1. Editor!Unsaved \in Pictures /\ Editor!Unsaved["text"] = 0
  BY DEF Editor!Unsaved, Pictures, Editor!Items, Statuses, EditorConstants
<1>2. EditorTyped
  <2>1. /\ parts = Editor!Unsaved /\ shown = Editor!Unsaved /\ written = 0 /\ news = <<>> /\ handling = {}
        /\ managed \in BOOLEAN /\ toolStarts = {} /\ disturbed = FALSE /\ tail = Nothing
        /\ load = [stage |-> "none", todo |-> {}]
    BY DEF Editor!Init
  <2>2. load \in [stage : {"none", "loading", "replaying", "done"}, todo : SUBSET Todos] /\ load.todo = {}
    BY <2>1
  <2>3. permit \in [Asked -> Permits] /\ prev \in [Asked -> Asked \cup {Nothing}]
    BY DEF Editor!Init, Permits
  <2>4. news \in Seq(News)
    BY <2>1
  <2>5. parts["text"] <= written /\ written \in Nat /\ toolStarts \subseteq Tools /\ tail \in Asked \cup {Nothing}
    BY <1>1, <2>1
  <2>6. parts \in Pictures /\ shown \in Pictures
    BY <1>1, <2>1
  <2>7. handling = {} \/ \E e \in News, s \in {"start", "started"} : e[1] # "asked" /\ handling = {<<e, s>>}
    BY <2>1
  <2>8. managed \in BOOLEAN /\ disturbed \in BOOLEAN
    BY <2>1
  <2> QED BY <2>2, <2>3, <2>4, <2>5, <2>6, <2>7, <2>8 DEF EditorTyped
<1>3. InLine(<<>>)
  BY DEF Editor!Init, InLine
<1>4. AskedOnce
  BY DEF Editor!Init, AskedOnce
<1>5. ASSUME managed PROVE LeadsToSaved
  <2>1. PICK pictures : pictures = <<Editor!Unsaved>>
    OBVIOUS
  <2>2. Saved = Editor!Unsaved
    BY <1>1 DEF Saved, Editor!Init, Editor!Unsaved
  <2>3. pictures \in Seq(Pictures) /\ Len(pictures) = 1 /\ pictures[1] = Editor!Unsaved
    BY <1>1, <2>1
  <2>4. Leads(pictures, news, Saved)
    <3>1. news = <<>> /\ Len(news) = 0
      BY DEF Editor!Init
    <3> QED BY <2>2, <2>3, <3>1 DEF Leads
  <2>5. Replayed(Editor!Unsaved, load.todo, shown) /\ InHand(handling, Editor!Unsaved, pictures[1], shown)
    BY <1>1, <2>3 DEF Editor!Init, Replayed, InHand
  <2> QED BY <1>1, <2>3, <2>4, <2>5 DEF LeadsToSaved
<1>6. Undisturbed
  BY <1>5 DEF Editor!Init, Undisturbed
<1>7. <<>> \in Seq(Asked)
  OBVIOUS
<1> QED BY <1>2, <1>3, <1>4, <1>6, <1>7 DEF EditorInv

\* The news, when an event is published and when one is taken.
LEMMA NewsPublished ==
  ASSUME EditorTyped, AskedOnce, NEW e \in News, news' = Append(news, e),
         \A r \in Asked : permit[r] = "sent" => permit'[r] = "sent",
         e[1] = "asked" => permit[e[2]] # "sent" /\ permit'[e[2]] = "sent"
  PROVE  news' \in Seq(News) /\ AskedOnce'
<1>n. PICK n \in Nat : n = Len(news)
  BY DEF EditorTyped
<1>1. news' \in Seq(News) /\ Len(news') = n + 1 /\ news'[n + 1] = e /\ \A i \in 1..n : news'[i] = news[i]
  BY <1>n, AppendProperties DEF EditorTyped
<1>2. \A i \in 1..n + 1 : i \in 1..n \/ i = n + 1
  OBVIOUS
<1>3. \A i \in 1..n : news[i] \in News
  BY <1>n DEF EditorTyped
<1>4. \A i \in 1..n : news[i][1] = "asked" => news[i][2] \in Asked /\ permit[news[i][2]] = "sent"
  <2>1. \A i \in 1..n : news[i][1] = "asked" => permit[news[i][2]] = "sent"
    BY <1>n DEF AskedOnce
  <2> QED BY <1>3, <2>1, NewsKinds
<1>5. \A i \in 1..n + 1 : news'[i][1] = "asked" => permit'[news'[i][2]] = "sent"
  BY <1>1, <1>2, <1>4
<1>6. \A i, j \in 1..n + 1 : news'[i][1] = "asked" /\ news'[j] = news'[i] => i = j
  <2>1. \A i, j \in 1..n : news[i][1] = "asked" /\ news[j] = news[i] => i = j
    BY <1>n DEF AskedOnce
  <2>2. \A i \in 1..n : news[i] = e => e[1] # "asked"
    BY <1>4
  <2> QED BY <1>1, <1>2, <2>1, <2>2
<1> QED BY <1>1, <1>5, <1>6 DEF AskedOnce

LEMMA NewsTaken ==
  ASSUME EditorTyped, AskedOnce, news # <<>>, news' = Tail(news),
         \A r \in Asked : permit[r] = "sent" /\ ~(Head(news)[1] = "asked" /\ Head(news)[2] = r) => permit'[r] = "sent"
  PROVE  /\ news' \in Seq(News) /\ AskedOnce' /\ Head(news) \in News
         /\ Head(news)[1] = "asked" => Head(news)[2] \in Asked /\ permit[Head(news)[2]] = "sent"
<1>n. PICK n \in Nat : n = Len(news)
  BY DEF EditorTyped
<1>0. n # 0 /\ Head(news) = news[1] /\ 1 \in 1..n
  BY <1>n DEF EditorTyped
<1>1. news' \in Seq(News) /\ Len(news') = n - 1 /\ \A i \in 1..n - 1 : news'[i] = news[i + 1]
  BY <1>n, <1>0 DEF EditorTyped
<1>2. \A i \in 1..n : news[i] \in News
  BY <1>n DEF EditorTyped
<1>3. \A i \in 1..n : news[i][1] = "asked" => news[i][2] \in Asked /\ permit[news[i][2]] = "sent"
  <2>1. \A i \in 1..n : news[i][1] = "asked" => permit[news[i][2]] = "sent"
    BY <1>n DEF AskedOnce
  <2> QED BY <1>2, <2>1, NewsKinds
<1>4. \A i, j \in 1..n : news[i][1] = "asked" /\ news[j] = news[i] => i = j
  BY <1>n DEF AskedOnce
<1>5. \A i \in 1..n - 1 : i + 1 \in 1..n /\ i + 1 # 1
  OBVIOUS
<1>6. ASSUME NEW i \in 1..n - 1, news[i + 1][1] = "asked" PROVE permit'[news[i + 1][2]] = "sent"
  <2>1. news[i + 1] # news[1]
    BY <1>0, <1>4, <1>5, <1>6
  <2>2. ~(news[1][1] = "asked" /\ news[1][2] = news[i + 1][2])
    <3>1. ASSUME news[1][1] = "asked", news[1][2] = news[i + 1][2] PROVE news[i + 1] = news[1]
      <4>1. news[1] \in News /\ news[i + 1] \in News
        BY <1>0, <1>2, <1>5
      <4>2. news[1] = <<"asked", news[1][2], "">> /\ news[i + 1] = <<"asked", news[i + 1][2], "">>
        BY <1>6, <3>1, <4>1, NewsKinds
      <4> QED BY <3>1, <4>2
    <3> QED BY <2>1, <3>1
  <2> QED BY <1>0, <1>3, <1>5, <1>6, <2>2
<1>7. \A i, j \in 1..n - 1 : news[i + 1][1] = "asked" /\ news[j + 1] = news[i + 1] => i = j
  <2>1. \A i, j \in 1..n - 1 : i + 1 = j + 1 => i = j
    OBVIOUS
  <2> QED BY <1>4, <1>5, <2>1
<1>8. AskedOnce'
  <2>1. \A i \in 1..n - 1 : news'[i][1] = "asked" => permit'[news'[i][2]] = "sent"
    BY <1>1, <1>6
  <2>2. \A i, j \in 1..n - 1 : news'[i][1] = "asked" /\ news'[j] = news'[i] => i = j
    BY <1>1, <1>7
  <2> QED BY <1>1, <2>1, <2>2 DEF AskedOnce
<1> QED BY <1>0, <1>1, <1>2, <1>3, <1>8

\* What the chain of permissions and the news need of a step, and what the pictures do.
LEMMA SavedTyped ==
  ASSUME EditorConstants, EditorTyped
  PROVE  /\ Saved \in Pictures /\ Saved["text"] = written /\ \A t \in Tools : Saved[t] = parts[t] /\ t # "text"
         /\ "text" \in Editor!Items /\ \A t \in Tools : t \in Editor!Items
         /\ \A p \in Pictures : p \in [Editor!Items -> Statuses \cup Nat] /\ DOMAIN p = Editor!Items
BY DEF EditorTyped, Saved, Pictures, EditorConstants, Editor!Items

LEMMA PartSaved ==
  ASSUME EditorConstants, EditorInv, NEW t \in Tools, NEW value \in Statuses \ {"none"}, Editor!SavePart(t, value)
  PROVE  EditorInv'
<1>0. EditorTyped /\ AskedOnce
  BY DEF EditorInv
<1>e. PICK e : e = <<"part", t, value>>
  OBVIOUS
<1>1. /\ parts' = [parts EXCEPT ![t] = value] /\ news' = Append(news, e)
      /\ <<parts[t], value>> \in
           {<<"none", "pending">>, <<"pending", "running">>, <<"running", "completed">>, <<"pending", "error">>, <<"running", "error">>}
      /\ UNCHANGED <<written, handling, managed, toolStarts, load, shown, permit, prev, tail, disturbed>>
  BY <1>e DEF Editor!SavePart, Editor!Publish
<1>2. e \in News /\ e[1] = "part" /\ e[2] = t /\ e[3] = value
  BY <1>e DEF News
<1>3. parts[t] = Saved[t] /\ (value = "pending" => parts[t] = "none")
  BY <1>0, <1>1, SavedTyped
<1>4. First(Saved, e) /\ After(Saved, e) = [Saved EXCEPT ![t] = value]
  BY <1>2, <1>3 DEF First, After
<1>5. parts' \in Pictures /\ parts'["text"] = parts["text"]
  BY <1>0, <1>1 DEF EditorTyped, Pictures, EditorConstants, Editor!Items
<1>6. Saved' = [Saved EXCEPT ![t] = value]
  BY <1>0, <1>1, SavedTyped DEF Saved, EditorTyped, Pictures
<1>7. news' \in Seq(News) /\ AskedOnce'
  <2>1. e[1] # "asked" /\ \A r \in Asked : permit[r] = "sent" => permit'[r] = "sent"
    BY <1>1, <1>2
  <2> QED BY <1>0, <1>1, <1>2, <2>1, NewsPublished
<1>8. EditorTyped'
  BY <1>0, <1>1, <1>5, <1>7 DEF EditorTyped, News, Statuses, Pictures, Editor!Items, Permits, Todos
<1>9. ASSUME NEW line, InLine(line) PROVE InLine(line)'
  BY <1>1, <1>9, LineStays
<1>10. LeadsToSaved => LeadsToSaved'
  BY <1>0, <1>1, <1>2, <1>4, <1>6, LeadsFurther
<1>11. Undisturbed => Undisturbed'
  BY <1>1, <1>10 DEF Undisturbed, ReplayGoesOn, Editor!Unsaved, Editor!Items
<1> QED BY <1>1, <1>7, <1>8, <1>9, <1>11 DEF EditorInv

\* What does not change the pictures.
LEMMA PicturesStay ==
  ASSUME EditorConstants, EditorTyped, Saved' = Saved, UNCHANGED <<news, handling, managed, toolStarts, load, shown>>
  PROVE  Undisturbed => Undisturbed'
<1>1. LeadsToSaved => LeadsToSaved'
  <2>1. SUFFICES ASSUME LeadsToSaved PROVE LeadsToSaved'
    OBVIOUS
  <2>2. PICK base \in Pictures, pictures \in Seq(Pictures) :
            Leads(pictures, news, Saved) /\ Replayed(base, load.todo, shown) /\ InHand(handling, base, pictures[1], shown)
    BY <2>1 DEF LeadsToSaved
  <2> QED BY <2>2, NextPictures
<1> QED BY <1>1 DEF Undisturbed, ReplayGoesOn, Editor!Unsaved, Editor!Items

LEMMA DeltaPublished == ASSUME EditorConstants, EditorInv, Editor!Delta PROVE EditorInv'
<1>0. EditorTyped /\ AskedOnce
  BY DEF EditorInv
<1>e. PICK e : e = <<"delta", "text", 1>>
  OBVIOUS
<1>1. /\ written' = written + 1 /\ news' = Append(news, e)
      /\ UNCHANGED <<parts, handling, managed, toolStarts, load, shown, permit, prev, tail, disturbed>>
  BY <1>e DEF Editor!Delta, Editor!Publish
<1>2. e \in News /\ e[1] = "delta" /\ e[2] = "text" /\ e[3] = 1
  BY <1>e DEF News
<1>3. First(Saved, e) /\ After(Saved, e) = [Saved EXCEPT !["text"] = @ + 1]
  BY <1>2 DEF First, After
<1>4. Saved["text"] = written /\ written \in Nat /\ parts["text"] <= written /\ parts["text"] \in Nat
  BY <1>0, SavedTyped DEF EditorTyped, Pictures
<1>5. Saved' = After(Saved, e)
  BY <1>0, <1>1, <1>3, <1>4, SavedTyped DEF Saved, EditorTyped, Pictures
<1>7. news' \in Seq(News) /\ AskedOnce'
  <2>1. e[1] # "asked" /\ \A r \in Asked : permit[r] = "sent" => permit'[r] = "sent"
    BY <1>1, <1>2
  <2> QED BY <1>0, <1>1, <1>2, <2>1, NewsPublished
<1>8. EditorTyped'
  <2>1. written' \in Nat /\ parts["text"] <= written'
    BY <1>1, <1>4
  <2> QED BY <1>0, <1>1, <1>7, <2>1 DEF EditorTyped, News, Statuses, Pictures, Editor!Items, Permits, Todos
<1>9. ASSUME NEW line, InLine(line) PROVE InLine(line)'
  BY <1>1, <1>9, LineStays
<1>10. LeadsToSaved => LeadsToSaved'
  BY <1>0, <1>1, <1>2, <1>3, <1>5, LeadsFurther
<1>11. Undisturbed => Undisturbed'
  BY <1>1, <1>10 DEF Undisturbed, ReplayGoesOn, Editor!Unsaved, Editor!Items
<1> QED BY <1>1, <1>7, <1>8, <1>9, <1>11 DEF EditorInv

LEMMA TextSaved == ASSUME EditorConstants, EditorInv, Editor!TextEnds PROVE EditorInv'
<1>0. EditorTyped /\ AskedOnce
  BY DEF EditorInv
<1>1. /\ parts' = [parts EXCEPT !["text"] = written]
      /\ UNCHANGED <<written, news, handling, managed, toolStarts, load, shown, permit, prev, tail, disturbed>>
  BY DEF Editor!TextEnds
<1>2. Saved' = Saved /\ parts' = Saved
  BY <1>0, <1>1, SavedTyped DEF Saved, EditorTyped, Pictures
<1>3. parts' \in Pictures /\ parts'["text"] = written
  BY <1>0, <1>2, SavedTyped
<1>4. EditorTyped'
  <2>1. parts'["text"] <= written' /\ written' \in Nat
    BY <1>0, <1>1, <1>3 DEF EditorTyped
  <2> QED BY <1>0, <1>1, <1>3, <2>1 DEF EditorTyped, News, Statuses, Pictures, Editor!Items, Permits, Todos
<1>5. ASSUME NEW line, InLine(line) PROVE InLine(line)'
  BY <1>1, <1>5, LineStays
<1>6. AskedOnce'
  BY <1>0, <1>1 DEF AskedOnce
<1>7. Undisturbed => Undisturbed'
  BY <1>0, <1>1, <1>2, PicturesStay
<1> QED BY <1>1, <1>4, <1>5, <1>6, <1>7 DEF EditorInv

LEMMA RequestPublished == ASSUME EditorConstants, EditorInv, NEW r \in Asked, Editor!Ask(r) PROVE EditorInv'
<1>0. EditorTyped /\ AskedOnce
  BY DEF EditorInv
<1>e. PICK e : e = <<"asked", r, "">>
  OBVIOUS
<1>1. /\ permit[r] = "new" /\ permit' = [permit EXCEPT ![r] = "sent"] /\ news' = Append(news, e)
      /\ UNCHANGED <<parts, written, handling, managed, toolStarts, load, shown, prev, tail, disturbed>>
  BY <1>e DEF Editor!Ask, Editor!Publish
<1>2. e \in News /\ e[1] = "asked" /\ e[2] = r
  BY <1>e DEF News
<1>3. permit \in [Asked -> Permits] /\ permit' \in [Asked -> Permits]
      /\ permit'[r] = "sent" /\ \A q \in Asked : q # r => permit'[q] = permit[q]
  BY <1>0, <1>1 DEF EditorTyped, Permits
<1>4. First(Saved, e) /\ After(Saved, e) = Saved /\ Saved' = Saved
  BY <1>1, <1>2 DEF First, After, Saved
<1>7. news' \in Seq(News) /\ AskedOnce'
  <2>1. \A q \in Asked : permit[q] = "sent" => permit'[q] = "sent"
    BY <1>3
  <2> QED BY <1>0, <1>1, <1>2, <1>3, <2>1, NewsPublished
<1>8. EditorTyped'
  BY <1>0, <1>1, <1>3, <1>7 DEF EditorTyped, News, Statuses, Pictures, Editor!Items, Permits, Todos
<1>9. ASSUME NEW line, InLine(line) PROVE InLine(line)'
  <2>1. \A q \in Asked : permit'[q] = permit[q] \/ (permit[q] \in {"new", "sent"} /\ permit'[q] \in {"sent", "dropped"})
    BY <1>1, <1>3
  <2> QED BY <1>1, <1>9, <2>1, LineStays
<1>10. LeadsToSaved => LeadsToSaved'
  BY <1>0, <1>1, <1>2, <1>4, LeadsFurther
<1>11. Undisturbed => Undisturbed'
  BY <1>1, <1>10 DEF Undisturbed, ReplayGoesOn, Editor!Unsaved, Editor!Items
<1> QED BY <1>1, <1>7, <1>8, <1>9, <1>11 DEF EditorInv

LEMMA ChainGoesOn == ASSUME EditorConstants, EditorInv, Editor!ChainStep PROVE EditorInv'
<1>0. EditorTyped /\ AskedOnce
  BY DEF EditorInv
<1>1. PICK r \in Asked : Editor!Open(r) \/ Editor!Reply(r)
  BY DEF Editor!ChainStep
<1>2. UNCHANGED <<parts, written, news, handling, managed, toolStarts, load, shown, prev, disturbed>>
  BY <1>1 DEF Editor!Open, Editor!Reply
<1>3. PICK line \in Seq(Asked) : InLine(line)
  BY DEF EditorInv
<1>4. permit \in [Asked -> Permits] /\ Saved' = Saved
  BY <1>0, <1>2 DEF EditorTyped, Saved
\* What there is to show of the chain.
<1>a. ASSUME permit' \in [Asked -> Permits], tail' \in Asked \cup {Nothing}, permit[r] # "sent",
             \A q \in Asked : q # r => permit'[q] = permit[q], NEW next \in Seq(Asked), InLine(next)'
      PROVE  EditorInv'
  <2>1. EditorTyped'
    BY <1>0, <1>2, <1>a DEF EditorTyped, News, Statuses, Pictures, Editor!Items, Permits, Todos
  <2>2. AskedOnce'
    <3>1. \A i \in 1..Len(news) : news[i] \in News
      BY <1>0 DEF EditorTyped
    <3>2. \A i \in 1..Len(news) : news[i][1] = "asked" => news[i][2] \in Asked /\ permit[news[i][2]] = "sent"
      BY <1>0, <3>1, NewsKinds DEF AskedOnce
    <3>3. \A i \in 1..Len(news) : news[i][1] = "asked" => permit'[news[i][2]] = "sent"
      BY <1>a, <3>2
    <3> QED BY <1>0, <1>2, <3>3 DEF AskedOnce
  <2>3. Undisturbed => Undisturbed'
    BY <1>0, <1>2, <1>4, PicturesStay
  <2> QED BY <1>2, <1>a, <2>1, <2>2, <2>3 DEF EditorInv
<1>5. CASE Editor!Open(r)
  <2>1. permit[r] = "queued" /\ Editor!FirstInLine(r) /\ permit' = [permit EXCEPT ![r] = "open"] /\ UNCHANGED tail
    BY <1>5 DEF Editor!Open
  <2>2. InLine(line)'
    BY <1>0, <1>2, <1>3, <2>1, LineOpens
  <2>3. permit' \in [Asked -> Permits] /\ \A q \in Asked : q # r => permit'[q] = permit[q]
    BY <1>4, <2>1 DEF Permits
  <2>4. tail' \in Asked \cup {Nothing}
    BY <1>0, <2>1 DEF EditorTyped
  <2> QED BY <1>a, <2>1, <2>2, <2>3, <2>4
<1>6. CASE Editor!Reply(r)
  <2>1. permit[r] = "open" /\ tail' = IF tail = r THEN Nothing ELSE tail
    BY <1>6 DEF Editor!Reply, Editor!Leave
  <2>2. PICK how \in {"answered", "failed"} : permit' = [permit EXCEPT ![r] = how]
    BY <1>6 DEF Editor!Reply, Editor!Settles
  <2>3. PICK next \in Seq(Asked) : InLine(next)'
    BY <1>0, <1>2, <1>3, <2>1, <2>2, LineLeaves
  <2>4. permit' \in [Asked -> Permits] /\ \A q \in Asked : q # r => permit'[q] = permit[q]
    BY <1>4, <2>2 DEF Permits
  <2>5. tail' \in Asked \cup {Nothing}
    BY <1>0, <2>1 DEF EditorTyped
  <2> QED BY <1>a, <2>1, <2>3, <2>4, <2>5
<1> QED BY <1>1, <1>5, <1>6

LEMMA EventTaken == ASSUME EditorConstants, EditorInv, Editor!Take PROVE EditorInv'
<1>0. EditorTyped /\ AskedOnce
  BY DEF EditorInv
<1>e. PICK e : e = Head(news)
  OBVIOUS
<1>1. /\ handling = {} /\ news # <<>> /\ e[1] # "asked" /\ news' = Tail(news)
      /\ handling' = IF managed THEN {<<e, "start">>} ELSE {}
      /\ UNCHANGED <<parts, written, managed, toolStarts, load, shown, permit, prev, tail, disturbed>>
  BY <1>e DEF Editor!Take, Editor!Quiet
<1>2. news' \in Seq(News) /\ AskedOnce' /\ e \in News
  <2>1. \A r \in Asked : permit[r] = "sent" => permit'[r] = "sent"
    BY <1>1
  <2> QED BY <1>0, <1>1, <1>e, <2>1, NewsTaken
<1>3. handling' = {} \/ \E d \in News, s \in {"start", "started"} : d[1] # "asked" /\ handling' = {<<d, s>>}
  BY <1>1, <1>2
<1>4. EditorTyped'
  BY <1>0, <1>1, <1>2, <1>3 DEF EditorTyped, News, Statuses, Pictures, Editor!Items, Permits, Todos
<1>5. ASSUME NEW line, InLine(line) PROVE InLine(line)'
  BY <1>1, <1>5, LineStays
<1>6. ASSUME managed, LeadsToSaved PROVE LeadsToSaved'
  <2>1. PICK base \in Pictures, pictures \in Seq(Pictures) :
            Leads(pictures, news, Saved) /\ Replayed(base, load.todo, shown) /\ InHand(handling, base, pictures[1], shown)
    BY <1>6 DEF LeadsToSaved
  <2>2. pictures[1] = base
    BY <1>1, <2>1 DEF InHand
  <2>3. PICK ps : ps = Tail(pictures)
    OBVIOUS
  <2>4. Leads(ps, news', Saved) /\ ps[1] = After(base, e) /\ First(base, e)
    BY <1>0, <1>1, <1>e, <2>1, <2>2, <2>3, LeadsTail DEF EditorTyped
  <2>5. ps \in Seq(Pictures) /\ Saved' = Saved
    BY <1>1, <2>4 DEF Leads, Saved
  <2>6. InHand(handling', base, ps[1], shown')
    <3>1. handling' = {<<e, "start">>} /\ "start" \in {"start", "started"} /\ "start" # "started"
      BY <1>1, <1>6
    <3> QED BY <1>2, <2>4, <3>1 DEF InHand
  <2> QED BY <1>1, <2>1, <2>4, <2>5, <2>6, NextPictures
<1>7. \A h \in handling' : h[2] = "start"
  BY <1>1
<1>8. Undisturbed => Undisturbed'
  BY <1>1, <1>6, <1>7 DEF Undisturbed, ReplayGoesOn, Editor!Unsaved, Editor!Items
<1> QED BY <1>1, <1>2, <1>4, <1>5, <1>8 DEF EditorInv

LEMMA RequestTaken == ASSUME EditorConstants, EditorInv, Editor!TakeAsked PROVE EditorInv'
<1>0. EditorTyped /\ AskedOnce
  BY DEF EditorInv
<1>e. PICK e : e = Head(news)
  OBVIOUS
<1>r. PICK r : r = e[2]
  OBVIOUS
<1>1. /\ handling = {} /\ news # <<>> /\ e[1] = "asked" /\ news' = Tail(news)
      /\ IF managed THEN permit' = [permit EXCEPT ![r] = "queued"] /\ prev' = [prev EXCEPT ![r] = tail] /\ tail' = r
         ELSE permit' = [permit EXCEPT ![r] = "dropped"] /\ UNCHANGED <<prev, tail>>
      /\ UNCHANGED <<parts, written, handling, managed, toolStarts, load, shown, disturbed>>
  BY <1>e, <1>r DEF Editor!TakeAsked, Editor!Quiet
<1>2. permit \in [Asked -> Permits] /\ prev \in [Asked -> Asked \cup {Nothing}] /\ tail \in Asked \cup {Nothing}
  BY <1>0 DEF EditorTyped
<1>3. permit' \in [Asked -> Permits] /\ \A q \in Asked : q # r => permit'[q] = permit[q]
  BY <1>1, <1>2 DEF Permits
<1>4. news' \in Seq(News) /\ AskedOnce' /\ e \in News /\ r \in Asked /\ permit[r] = "sent"
  <2>1. \A q \in Asked : permit[q] = "sent" /\ ~(e[1] = "asked" /\ e[2] = q) => permit'[q] = "sent"
    BY <1>1, <1>3, <1>r
  <2> QED BY <1>0, <1>1, <1>e, <1>r, <2>1, NewsTaken
<1>5. prev' \in [Asked -> Asked \cup {Nothing}] /\ tail' \in Asked \cup {Nothing}
  BY <1>1, <1>2, <1>4
<1>6. EditorTyped'
  BY <1>0, <1>1, <1>3, <1>4, <1>5 DEF EditorTyped, News, Statuses, Pictures, Editor!Items, Permits, Todos
<1>7. PICK line \in Seq(Asked) : InLine(line)
  BY DEF EditorInv
<1>8. \E next \in Seq(Asked) : InLine(next)'
  <2>1. CASE managed
    BY <1>0, <1>1, <1>4, <1>7, <2>1, LineJoins
  <2>2. CASE ~managed
    <3>1. permit' = [permit EXCEPT ![r] = "dropped"] /\ UNCHANGED <<prev, tail>>
      BY <1>1, <2>2
    <3>2. \A q \in Asked : permit'[q] = permit[q] \/ (permit[q] \in {"new", "sent"} /\ permit'[q] \in {"sent", "dropped"})
      BY <1>2, <1>3, <1>4, <3>1
    <3> QED BY <1>7, <3>1, <3>2, LineStays
  <2> QED BY <2>1, <2>2
<1>9. LeadsToSaved => LeadsToSaved'
  <2>1. SUFFICES ASSUME LeadsToSaved PROVE LeadsToSaved'
    OBVIOUS
  <2>2. PICK base \in Pictures, pictures \in Seq(Pictures) :
            Leads(pictures, news, Saved) /\ Replayed(base, load.todo, shown) /\ InHand(handling, base, pictures[1], shown)
    BY <2>1 DEF LeadsToSaved
  <2>3. PICK ps : ps = Tail(pictures)
    OBVIOUS
  <2>4. Leads(ps, news', Saved) /\ ps[1] = pictures[1]
    BY <1>0, <1>1, <1>e, <2>2, <2>3, LeadsTail DEF EditorTyped, After
  <2>5. ps \in Seq(Pictures) /\ Saved' = Saved
    BY <1>1, <2>4 DEF Leads, Saved
  <2> QED BY <1>1, <2>2, <2>4, <2>5, NextPictures
<1>10. Undisturbed => Undisturbed'
  BY <1>1, <1>9 DEF Undisturbed, ReplayGoesOn, Editor!Unsaved, Editor!Items
<1> QED BY <1>1, <1>4, <1>6, <1>8, <1>10 DEF EditorInv

LEMMA StreamBreaks == ASSUME EditorConstants, EditorInv, Editor!Break PROVE EditorInv'
<1>0. EditorTyped
  BY DEF EditorInv
<1>1. /\ news' = <<>> /\ permit' = [r \in Asked |-> IF permit[r] = "sent" THEN "dropped" ELSE permit[r]] /\ disturbed' = TRUE
      /\ UNCHANGED <<parts, written, handling, managed, toolStarts, load, shown, prev, tail>>
  BY DEF Editor!Break
<1>2. permit' \in [Asked -> Permits] /\ news' \in Seq(News)
  BY <1>0, <1>1 DEF EditorTyped, Permits
<1>3. EditorTyped'
  BY <1>0, <1>1, <1>2 DEF EditorTyped, News, Statuses, Pictures, Editor!Items, Permits, Todos
<1>4. AskedOnce'
  BY <1>1 DEF AskedOnce
<1>5. ASSUME NEW line, InLine(line) PROVE InLine(line)'
  <2>1. \A q \in Asked : permit'[q] = permit[q] \/ (permit[q] \in {"new", "sent"} /\ permit'[q] \in {"sent", "dropped"})
    BY <1>1
  <2> QED BY <1>1, <1>5, <2>1, LineStays
<1> QED BY <1>1, <1>3, <1>4, <1>5 DEF EditorInv

\* What concerns neither the requests nor the news.
LEMMA RequestsStay ==
  ASSUME EditorInv, UNCHANGED <<news, permit, prev, tail>>, EditorTyped', ~disturbed' => Undisturbed'
  PROVE  EditorInv'
<1>1. AskedOnce'
  BY DEF EditorInv, AskedOnce
<1>2. PICK line \in Seq(Asked) : InLine(line)
  BY DEF EditorInv
<1>3. InLine(line)'
  BY <1>2, LineStays
<1> QED BY <1>1, <1>2, <1>3 DEF EditorInv

\* A replay that is over leaves nothing to tell.
LEMMA NothingToReplay ==
  ASSUME NEW base \in Pictures, NEW picture \in Pictures, Replayed(base, {}, picture)
  PROVE  base = picture
<1>1. \A i \in Editor!Items : base[i] = picture[i]
  BY DEF Replayed
<1> QED BY <1>1 DEF Pictures

LEMMA EventHandled == ASSUME EditorConstants, EditorInv, NEW h \in handling, Editor!Handle(h) PROVE EditorInv'
<1>0. EditorTyped
  BY DEF EditorInv
<1>1. PICK e \in News, s \in {"start", "started"} : e[1] # "asked" /\ handling = {<<e, s>>}
  BY <1>0 DEF EditorTyped
<1>2. h = <<e, s>> /\ h[1] = e /\ h[2] = s
  BY <1>1
<1>3. /\ disturbed' = (disturbed \/ Editor!Overlaps)
      /\ UNCHANGED <<parts, written, news, managed, load, permit, prev, tail>>
  BY DEF Editor!Handle
<1>t. PICK t : t = e[2]
  OBVIOUS
<1>4. /\ e[1] = "part" => t \in Tools /\ e[3] \in Statuses \ {"none"}
      /\ e[1] # "part" => e[1] = "delta" /\ e[3] = 1
  BY <1>1, <1>t, NewsKinds
<1>5. shown \in Pictures /\ toolStarts \subseteq Tools
  BY <1>0 DEF EditorTyped
<1>6. \/ /\ e[1] = "part" /\ s = "start"
         /\ toolStarts' = toolStarts \cup {t} /\ shown' = IF t \in toolStarts THEN shown ELSE [shown EXCEPT ![t] = "pending"]
         /\ handling' = {<<e, "started">>}
      \/ /\ e[1] = "part" /\ s = "started"
         /\ toolStarts' = (IF e[3] \in Editor!Final THEN toolStarts \ {t} ELSE toolStarts)
         /\ shown' = IF e[3] = "pending" THEN shown ELSE [shown EXCEPT ![t] = e[3]]
         /\ handling' = {}
      \/ /\ e[1] = "delta"
         /\ shown' = [shown EXCEPT !["text"] = @ + 1] /\ UNCHANGED toolStarts
         /\ handling' = {}
  <2>1. (handling \ {h}) \cup {<<e, "started">>} = {<<e, "started">>} /\ handling \ {h} = {}
    BY <1>1, <1>2
  <2> QED BY <1>1, <1>2, <1>4, <1>t, <2>1 DEF Editor!Handle, Editor!Announce, Editor!Tell, Editor!Say
<1>7. /\ shown' \in Pictures /\ toolStarts' \subseteq Tools
      /\ handling' = {} \/ (handling' = {<<e, "started">>} /\ e[1] = "part")
  <2>1. shown' \in Pictures
    <3>1. ASSUME NEW v \in Statuses, t \in Tools PROVE [shown EXCEPT ![t] = v] \in Pictures
      BY <1>5, <3>1 DEF Pictures, EditorConstants, Editor!Items
    <3>2. [shown EXCEPT !["text"] = @ + 1] \in Pictures
      BY <1>5 DEF Pictures, EditorConstants, Editor!Items
    <3>3. "pending" \in Statuses
      BY DEF Statuses
    <3> QED BY <1>4, <1>5, <1>6, <3>1, <3>2, <3>3
  <2> QED BY <1>4, <1>5, <1>6, <2>1
<1>8. EditorTyped'
  <2>1. disturbed' \in BOOLEAN
    BY <1>0, <1>3 DEF EditorTyped, Editor!Overlaps
  <2>2. handling' = {} \/ \E d \in News, x \in {"start", "started"} : d[1] # "asked" /\ handling' = {<<d, x>>}
    BY <1>1, <1>7
  <2> QED BY <1>0, <1>3, <1>7, <2>1, <2>2 DEF EditorTyped, News, Statuses, Pictures, Editor!Items, Permits, Todos
<1>9. ASSUME ~disturbed' PROVE Undisturbed'
  <2>1. ~disturbed /\ Undisturbed /\ load.stage \in {"none", "done"} /\ load.todo = {}
    BY <1>0, <1>3, <1>9 DEF EditorInv, Editor!Overlaps, EditorTyped
  <2>2. managed /\ LeadsToSaved
    BY <1>1, <2>1 DEF Undisturbed
  <2>3. PICK base \in Pictures, pictures \in Seq(Pictures) :
            Leads(pictures, news, Saved) /\ Replayed(base, load.todo, shown) /\ InHand(handling, base, pictures[1], shown)
    BY <2>2 DEF LeadsToSaved
  <2>4. base = shown
    BY <1>5, <2>1, <2>3, NothingToReplay
  <2>5. /\ pictures[1] = After(shown, e) /\ (s = "start" => First(shown, e))
        /\ s = "started" /\ e[1] = "part" /\ e[3] = "pending" => shown[t] = "pending"
    BY <1>1, <1>t, <2>3, <2>4 DEF InHand
  <2>6. /\ e[1] = "part" => After(shown, e) = [shown EXCEPT ![t] = e[3]]
        /\ e[1] = "delta" => After(shown, e) = [shown EXCEPT !["text"] = @ + 1]
    BY <1>4, <1>t DEF After
  <2>7. \A x \in toolStarts' : shown'[x] # "none"
    <3>1. \A x \in toolStarts : shown[x] # "none" /\ x \in Tools /\ x # "text"
      BY <1>5, <2>1 DEF Undisturbed, EditorConstants
    <3>2. DOMAIN shown = Editor!Items /\ \A x \in Tools : x \in Editor!Items
      BY <1>5 DEF Pictures, Editor!Items
    <3> QED BY <1>4, <1>6, <3>1, <3>2
  <2>8. LeadsToSaved'
    <3>1. InHand(handling', shown', pictures[1], shown')
      <4>1. CASE e[1] = "part" /\ s = "start"
        <5>1. handling' = {<<e, "started">>} /\ shown' = IF t \in toolStarts THEN shown ELSE [shown EXCEPT ![t] = "pending"]
          BY <1>6, <4>1
        <5>2. t \in Tools /\ t \in DOMAIN shown /\ DOMAIN shown = Editor!Items
          BY <1>4, <1>5, <4>1 DEF Pictures, Editor!Items
        <5>3. After(shown', e) = [shown' EXCEPT ![t] = e[3]]
          BY <1>t, <4>1 DEF After
        <5>4. [shown' EXCEPT ![t] = e[3]] = [shown EXCEPT ![t] = e[3]]
          BY <1>5, <5>1, <5>2 DEF Pictures
        <5>5. e[3] = "pending" => shown'[t] = "pending"
          <6>1. e[3] = "pending" => shown[t] = "none"
            BY <1>t, <2>5, <4>1 DEF First
          <6>2. e[3] = "pending" => t \notin toolStarts
            BY <2>1, <6>1 DEF Undisturbed
          <6> QED BY <5>1, <5>2, <6>2
        <5>6. pictures[1] = After(shown', e) /\ "started" \in {"start", "started"} /\ "started" # "start"
          BY <2>5, <2>6, <4>1, <5>3, <5>4
        <5> QED BY <1>t, <5>1, <5>5, <5>6 DEF InHand
      <4>2. CASE e[1] = "part" /\ s = "started"
        <5>1. handling' = {} /\ shown' = IF e[3] = "pending" THEN shown ELSE [shown EXCEPT ![t] = e[3]]
          BY <1>6, <4>2
        <5>2. e[3] = "pending" => [shown EXCEPT ![t] = e[3]] = shown
          BY <1>4, <1>5, <2>5, <4>2 DEF Pictures
        <5>3. pictures[1] = shown'
          BY <2>5, <2>6, <4>2, <5>1, <5>2
        <5> QED BY <5>1, <5>3 DEF InHand
      <4>3. CASE e[1] = "delta"
        BY <1>6, <2>5, <2>6, <4>3 DEF InHand
      <4> QED BY <1>1, <1>4, <4>1, <4>2, <4>3
    <3>2. Replayed(shown', load'.todo, shown')
      BY <1>3, <1>7, <2>1 DEF Replayed
    <3>3. Leads(pictures, news', Saved')
      BY <1>3, <2>3 DEF Saved
    <3> QED BY <1>7, <3>1, <3>2, <3>3, NextPictures
  <2> QED BY <1>3, <2>1, <2>2, <2>7, <2>8 DEF Undisturbed
<1> QED BY <1>3, <1>8, <1>9, RequestsStay

LEMMA LoadBegins == ASSUME EditorConstants, EditorInv, Editor!Load PROVE EditorInv'
<1>0. EditorTyped
  BY DEF EditorInv
<1>1. /\ load.stage = "none" /\ load' = [load EXCEPT !.stage = "loading"] /\ managed' = TRUE /\ shown' = Editor!Unsaved
      /\ disturbed' = (disturbed \/ handling # {} \/ shown # Editor!Unsaved)
      /\ UNCHANGED <<parts, written, news, handling, toolStarts, permit, prev, tail>>
  BY DEF Editor!Load, Editor!Quiet
<1>2. Editor!Unsaved \in Pictures /\ \A t \in Tools : Editor!Unsaved[t] = "none"
  BY DEF Editor!Unsaved, Pictures, Editor!Items, Statuses, EditorConstants
<1>3. /\ load' \in [stage : {"none", "loading", "replaying", "done"}, todo : SUBSET Todos] /\ load'.stage = "loading"
      /\ load'.todo = {}
  BY <1>0, <1>1 DEF EditorTyped
<1>4. EditorTyped'
  <2>1. disturbed' \in BOOLEAN
    BY <1>0, <1>1 DEF EditorTyped
  <2> QED BY <1>0, <1>1, <1>2, <1>3, <2>1 DEF EditorTyped, News, Statuses, Pictures, Editor!Items, Permits, Todos
<1>5. ASSUME ~disturbed' PROVE Undisturbed'
  <2>1. Undisturbed /\ shown = Editor!Unsaved
    BY <1>0, <1>1, <1>5 DEF EditorInv, EditorTyped
  <2>2. toolStarts = {}
    BY <1>0, <1>2, <2>1 DEF Undisturbed, EditorTyped
  <2>3. shown' = Editor!Unsaved'
    BY <1>1 DEF Editor!Unsaved, Editor!Items
  <2> QED BY <1>1, <1>3, <2>2, <2>3 DEF Undisturbed
<1> QED BY <1>1, <1>4, <1>5, RequestsStay

LEMMA MessagesRead == ASSUME EditorConstants, EditorInv, Editor!ReadMessages PROVE EditorInv'
<1>0. EditorTyped
  BY DEF EditorInv
<1>x. PICK todo : todo = {<<i, parts[i], "start">> : i \in {j \in Editor!Items : parts[j] # Editor!Unsaved[j]}}
  OBVIOUS
<1>1. /\ load.stage = "loading" /\ load' = [stage |-> "replaying", todo |-> todo]
      /\ disturbed' = (disturbed \/ news # <<>> \/ handling # {} \/ parts["text"] # written)
      /\ UNCHANGED <<parts, written, news, handling, managed, toolStarts, shown, permit, prev, tail>>
  BY <1>x DEF Editor!ReadMessages, Editor!Quiet
<1>2. parts \in Pictures /\ \A t \in Tools : Editor!Unsaved[t] = "none" /\ t # "text"
  BY <1>0 DEF EditorTyped, Editor!Unsaved, Editor!Items, EditorConstants
<1>3. todo \in SUBSET Todos
  <2>1. ASSUME NEW i \in Editor!Items, parts[i] # Editor!Unsaved[i] PROVE <<i, parts[i], "start">> \in Todos
    <3>1. CASE i = "text"
      BY <1>2, <3>1 DEF Todos, Pictures
    <3>2. CASE i \in Tools
      BY <1>2, <2>1, <3>2 DEF Todos, Pictures
    <3> QED BY <3>1, <3>2 DEF Editor!Items
  <2> QED BY <1>x, <2>1
<1>4. load' \in [stage : {"none", "loading", "replaying", "done"}, todo : SUBSET Todos] /\ load'.stage = "replaying" /\ load'.todo = todo
  BY <1>1, <1>3
<1>5. EditorTyped'
  <2>1. disturbed' \in BOOLEAN
    BY <1>0, <1>1 DEF EditorTyped
  <2> QED BY <1>0, <1>1, <1>4, <2>1 DEF EditorTyped, News, Statuses, Pictures, Editor!Items, Permits, Todos
<1>6. ASSUME ~disturbed' PROVE Undisturbed'
  <2>1. ~disturbed /\ Undisturbed /\ news = <<>> /\ handling = {} /\ parts["text"] = written
    BY <1>0, <1>1, <1>6 DEF EditorInv, EditorTyped
  <2>2. managed /\ shown = Editor!Unsaved /\ toolStarts = {}
    BY <1>1, <2>1 DEF Undisturbed
  <2>3. Saved = parts
    BY <1>2, <2>1 DEF Saved, Pictures, Editor!Items
  <2>4. \A p \in todo : p[1] \in Editor!Items /\ p[2] = parts[p[1]] /\ p[3] = "start" /\ p = <<p[1], p[2], p[3]>>
    BY <1>x
  <2>5. ReplayGoesOn'
    <3>1. \A p, q \in todo : p[1] = q[1] => p = q
      BY <2>4
    <3>2. shown'["text"] = 0 /\ \A p \in todo : p[1] \notin toolStarts' /\ p[3] # "started"
      BY <1>1, <2>2, <2>4 DEF Editor!Unsaved, Editor!Items
    <3> QED BY <1>1, <1>4, <2>1, <3>1, <3>2 DEF ReplayGoesOn
  <2>6. LeadsToSaved'
    <3>1. PICK pictures : pictures = <<parts>>
      OBVIOUS
    <3>2. pictures \in Seq(Pictures) /\ Len(pictures) = 1 /\ pictures[1] = parts
      BY <1>2, <3>1
    <3>3. Leads(pictures, news', Saved')
      <4>1. news' = <<>> /\ Len(news') = 0 /\ Saved' = parts
        BY <1>1, <2>1, <2>3 DEF Saved
      <4> QED BY <3>2, <4>1 DEF Leads
    <3>4. Replayed(parts, todo, shown)
      <4>1. ASSUME NEW i \in Editor!Items, \A p \in todo : p[1] # i PROVE parts[i] = shown[i]
        <5>1. parts[i] # Editor!Unsaved[i] => <<i, parts[i], "start">> \in todo
          BY <1>x
        <5> QED BY <2>2, <4>1, <5>1
      <4> QED BY <1>2, <2>4, <4>1 DEF Replayed
    <3>5. InHand(handling', parts, pictures[1], shown')
      BY <1>1, <2>1, <3>2 DEF InHand
    <3> QED BY <1>1, <1>2, <1>4, <3>2, <3>3, <3>4, <3>5, NextPictures
  <2> QED BY <1>1, <1>4, <2>1, <2>2, <2>5, <2>6 DEF Undisturbed
<1> QED BY <1>1, <1>5, <1>6, RequestsStay

\* A part is told of, or begins to be.
LEMMA ReplayStep ==
  ASSUME EditorConstants, EditorInv, load.stage = "replaying", NEW p \in load.todo, NEW todo \in SUBSET Todos,
         load' = [load EXCEPT !.todo = todo], shown' \in Pictures, toolStarts' \subseteq Tools,
         UNCHANGED <<parts, written, news, handling, managed, permit, prev, tail, disturbed>>,
         \A i \in Editor!Items : i # p[1] => shown'[i] = shown[i],
         \A q : q[1] # p[1] => (q \in todo <=> q \in load.todo),
         toolStarts' \subseteq toolStarts \cup {p[1]},
         Undisturbed => /\ \A q \in todo : q[1] = p[1] => q = <<p[1], p[2], "started">> /\ p[1] # "text"
                        /\ (\A q \in todo : q[1] # p[1]) => shown'[p[1]] = p[2]
                        /\ (\E q \in todo : q[1] = p[1]) /\ p[2] = "pending" => shown'[p[1]] = "pending"
                        /\ p[1] \in toolStarts' => shown'[p[1]] # "none"
  PROVE  EditorInv'
<1>0. EditorTyped
  BY DEF EditorInv
<1>1. /\ load' \in [stage : {"none", "loading", "replaying", "done"}, todo : SUBSET Todos]
      /\ load'.stage = "replaying" /\ load'.todo = todo /\ load.todo \in SUBSET Todos
  BY <1>0 DEF EditorTyped
<1>2. EditorTyped'
  BY <1>0, <1>1 DEF EditorTyped, News, Statuses, Pictures, Editor!Items, Permits, Todos
<1>p. p[1] \in Editor!Items /\ \A q \in load.todo : q[1] \in Editor!Items
  BY <1>1 DEF Todos, Editor!Items
<1>3. ASSUME ~disturbed' PROVE Undisturbed'
  <2>1. Undisturbed /\ managed /\ ReplayGoesOn /\ LeadsToSaved
    BY <1>3 DEF EditorInv, Undisturbed
  <2>2. \A t \in toolStarts' : shown'[t] # "none"
    <3>1. toolStarts \subseteq Editor!Items
      BY <1>0 DEF EditorTyped, Editor!Items
    <3> QED BY <2>1, <3>1 DEF Undisturbed
  <2>3. LeadsToSaved'
    <3>1. PICK base \in Pictures, pictures \in Seq(Pictures) :
              Leads(pictures, news, Saved) /\ Replayed(base, load.todo, shown) /\ InHand(handling, base, pictures[1], shown)
      BY <2>1 DEF LeadsToSaved
    <3>2. Replayed(base, todo, shown')
      <4>1. base[p[1]] = p[2]
        BY <1>p, <3>1 DEF Replayed
      <4>2. ASSUME NEW i \in Editor!Items, i # p[1]
            PROVE  ((\A q \in todo : q[1] # i) => base[i] = shown'[i]) /\ (\A q \in todo : q[1] = i => base[i] = q[2])
        BY <3>1, <4>2 DEF Replayed
      <4>3. \A q \in todo : q[1] = p[1] => base[p[1]] = q[2]
        BY <2>1, <4>1
      <4>4. (\A q \in todo : q[1] # p[1]) => base[p[1]] = shown'[p[1]]
        BY <2>1, <4>1
      <4> QED BY <3>1, <4>2, <4>3, <4>4 DEF Replayed
    <3>3. InHand(handling', base, pictures[1], shown')
      <4>1. ASSUME NEW e \in News, NEW s \in {"start", "started"}, handling = {<<e, s>>},
                   pictures[1] = After(base, e), s = "start" => First(base, e)
            PROVE  InHand(handling', base, pictures[1], shown')
        <5>1. s = "start"
          <6>1. <<e, s>> \in handling
            BY <4>1
          <6>2. <<e, s>>[2] = "start"
            BY <2>1, <6>1 DEF ReplayGoesOn
          <6> QED BY <6>2
        <5> QED BY <4>1, <5>1 DEF InHand
      <4>2. CASE handling = {} /\ pictures[1] = base
        BY <4>2 DEF InHand
      <4> QED BY <3>1, <4>1, <4>2 DEF InHand
    <3>4. Leads(pictures, news', Saved')
      BY <3>1 DEF Saved
    <3> QED BY <1>1, <3>2, <3>3, <3>4, NextPictures
  <2>4. ReplayGoesOn'
    <3>1. \A q, r \in todo : q[1] = r[1] => q = r
      BY <2>1 DEF ReplayGoesOn
    <3>2. ASSUME NEW q \in todo
          PROVE  /\ q[1] = "text" => shown'["text"] = 0
                 /\ q[1] # "text" /\ q[3] = "start" => q[1] \notin toolStarts'
                 /\ q[1] # "text" /\ q[3] = "started" /\ q[2] = "pending" => shown'[q[1]] = "pending"
      <4>1. CASE q[1] = p[1]
        <5>1. q[2] = p[2] /\ q[3] = "started" /\ q[1] # "text"
          BY <2>1, <4>1
        <5> QED BY <2>1, <4>1, <5>1
      <4>2. CASE q[1] # p[1]
        <5>1. q \in load.todo /\ shown'[q[1]] = shown[q[1]]
          BY <1>p, <4>2
        <5> QED BY <2>1, <4>2, <5>1 DEF ReplayGoesOn
      <4> QED BY <4>1, <4>2
    <3>3. \A h \in handling' : h[2] = "start"
      BY <2>1 DEF ReplayGoesOn
    <3> QED BY <1>1, <3>1, <3>2, <3>3 DEF ReplayGoesOn
  <2> QED BY <1>1, <2>1, <2>2, <2>3, <2>4 DEF Undisturbed
<1> QED BY <1>2, <1>3, RequestsStay

LEMMA PartReplayed == ASSUME EditorConstants, EditorInv, NEW p \in load.todo, Editor!Replay(p) PROVE EditorInv'
<1>0. EditorTyped
  BY DEF EditorInv
<1>1. /\ load.stage = "replaying" /\ load.todo \in SUBSET Todos /\ "todo" \in DOMAIN load
      /\ UNCHANGED <<parts, written, news, handling, managed, permit, prev, tail, disturbed>>
  BY <1>0 DEF Editor!Replay, EditorTyped
<1>2. shown \in Pictures /\ shown \in [Editor!Items -> Statuses \cup Nat] /\ toolStarts \subseteq Tools
  BY <1>0 DEF EditorTyped, Pictures
<1>3. \/ p[1] = "text" /\ p[2] \in Nat /\ p = <<p[1], p[2], "start">>
      \/ /\ p[1] \in Tools /\ p[1] # "text" /\ p[2] \in Statuses \ {"none"} /\ p[3] \in {"start", "started"}
         /\ p = <<p[1], p[2], p[3]>>
  BY <1>1 DEF Todos, EditorConstants
<1>4. p[1] \in Editor!Items
  BY <1>3 DEF Editor!Items
<1>5. Undisturbed => ReplayGoesOn
  BY <1>1 DEF Undisturbed
<1>6. CASE p[1] = "text"
  <2>1. PICK todo : todo = load.todo \ {p}
    OBVIOUS
  <2>2. load' = [load EXCEPT !.todo = todo] /\ shown' = [shown EXCEPT !["text"] = @ + p[2]] /\ toolStarts' = toolStarts
    BY <1>6, <2>1 DEF Editor!Replay, Editor!Say
  <2>3. /\ shown \in Pictures /\ shown["text"] \in Nat /\ "text" \in Editor!Items /\ "text" \notin Tools
    BY <1>2 DEF Pictures, Editor!Items, EditorConstants
  <2>4. shown'["text"] = shown["text"] + p[2] /\ \A i \in Editor!Items : i # "text" => shown'[i] = shown[i]
    BY <1>2, <2>2, <2>3
  <2>5. shown' \in Pictures
    <3>1. shown["text"] + p[2] \in Nat
      BY <1>3, <1>6, <2>3
    <3>2. shown' \in [Editor!Items -> Statuses \cup Nat]
      BY <1>2, <2>2, <2>3, <3>1
    <3>3. \A t \in Tools : shown'[t] \in Statuses
      BY <2>3, <2>4 DEF Pictures, Editor!Items
    <3> QED BY <2>4, <3>1, <3>2, <3>3 DEF Pictures
  <2>6. todo \in SUBSET Todos /\ (\A q : q[1] # p[1] => (q \in todo <=> q \in load.todo))
    BY <1>1, <2>1
  <2>7. Undisturbed => shown'[p[1]] = p[2] /\ \A q \in todo : q[1] # p[1]
    <3>1. ASSUME Undisturbed PROVE shown["text"] = 0 /\ \A q \in todo : q[1] # p[1]
      BY <1>5, <1>6, <2>1, <3>1 DEF ReplayGoesOn
    <3> QED BY <1>3, <1>6, <2>4, <3>1
  <2>8. p[1] \notin toolStarts'
    BY <1>2, <1>6, <2>2, <2>3
  <2>9. /\ toolStarts' \subseteq toolStarts \cup {p[1]} /\ toolStarts' \subseteq Tools
        /\ \A i \in Editor!Items : i # p[1] => shown'[i] = shown[i]
    BY <1>2, <1>6, <2>2, <2>4
  <2>10. Undisturbed => /\ \A q \in todo : q[1] = p[1] => q = <<p[1], p[2], "started">> /\ p[1] # "text"
                        /\ (\A q \in todo : q[1] # p[1]) => shown'[p[1]] = p[2]
                        /\ (\E q \in todo : q[1] = p[1]) /\ p[2] = "pending" => shown'[p[1]] = "pending"
                        /\ p[1] \in toolStarts' => shown'[p[1]] # "none"
    BY <2>7, <2>8
  <2> QED BY ONLY EditorConstants, EditorInv, <1>1, <2>2, <2>5, <2>6, <2>9, <2>10, ReplayStep
<1>7. CASE p[1] # "text" /\ p[3] = "start"
  <2>1. PICK new : new = <<p[1], p[2], "started">>
    OBVIOUS
  <2>2. PICK todo : todo = (load.todo \ {p}) \cup {new}
    OBVIOUS
  <2>3. /\ load' = [load EXCEPT !.todo = todo] /\ toolStarts' = toolStarts \cup {p[1]}
        /\ shown' = IF p[1] \in toolStarts THEN shown ELSE [shown EXCEPT ![p[1]] = "pending"]
    BY <1>7, <2>1, <2>2 DEF Editor!Replay, Editor!Announce
  <2>4. new \in Todos /\ new[1] = p[1] /\ p[1] \in Tools
    BY <1>3, <1>7, <2>1 DEF Todos
  <2>5. todo \in SUBSET Todos /\ (\A q : q[1] # p[1] => (q \in todo <=> q \in load.todo)) /\ new \in todo
    BY <1>1, <2>2, <2>4
  <2>6. /\ shown' \in Pictures /\ \A i \in Editor!Items : i # p[1] => shown'[i] = shown[i]
        /\ p[1] \notin toolStarts => shown'[p[1]] = "pending"
    <3>1. \A i \in Editor!Items : i # p[1] => shown'[i] = shown[i]
      BY <1>2, <1>4, <2>3
    <3>2. p[1] \notin toolStarts => shown'[p[1]] = "pending"
      BY <1>2, <1>4, <2>3
    <3>3. "pending" \in Statuses /\ shown' \in [Editor!Items -> Statuses \cup Nat]
      BY <1>2, <1>4, <2>3 DEF Statuses
    <3>4. "text" \in Editor!Items /\ Tools \subseteq Editor!Items
      BY DEF Editor!Items
    <3>5. shown'["text"] \in Nat
      BY <1>2, <1>7, <3>1, <3>4 DEF Pictures
    <3>6. ASSUME NEW t \in Tools PROVE shown'[t] \in Statuses
      <4>1. shown[t] \in Statuses
        BY <1>2 DEF Pictures
      <4>2. t # p[1] => shown'[t] = shown[t]
        BY <3>1, <3>4
      <4>3. shown'[p[1]] \in {shown[p[1]], "pending"}
        BY <1>2, <1>4, <2>3
      <4> QED BY <3>3, <4>1, <4>2, <4>3
    <3> QED BY <3>1, <3>2, <3>3, <3>5, <3>6 DEF Pictures
  <2>7. toolStarts' \subseteq toolStarts \cup {p[1]} /\ toolStarts' \subseteq Tools
    BY <1>2, <2>3, <2>4
  <2>8. ASSUME Undisturbed
        PROVE  /\ \A q \in todo : q[1] = p[1] => q = <<p[1], p[2], "started">> /\ p[1] # "text"
               /\ (\A q \in todo : q[1] # p[1]) => shown'[p[1]] = p[2]
               /\ (\E q \in todo : q[1] = p[1]) /\ p[2] = "pending" => shown'[p[1]] = "pending"
               /\ p[1] \in toolStarts' => shown'[p[1]] # "none"
    <3>1. p[1] \notin toolStarts /\ \A q \in load.todo : q[1] = p[1] => q = p
      BY <1>5, <1>7, <2>8 DEF ReplayGoesOn
    <3>2. \A q \in todo : q[1] = p[1] => q = new
      BY <2>2, <3>1
    <3> QED BY <1>7, <2>1, <2>4, <2>5, <2>6, <3>1, <3>2
  <2> QED BY ONLY EditorConstants, EditorInv, <1>1, <2>3, <2>5, <2>6, <2>7, <2>8, ReplayStep
<1>8. CASE p[1] # "text" /\ p[3] = "started"
  <2>1. PICK todo : todo = load.todo \ {p}
    OBVIOUS
  <2>2. /\ load' = [load EXCEPT !.todo = todo]
        /\ toolStarts' = IF p[2] \in Editor!Final THEN toolStarts \ {p[1]} ELSE toolStarts
        /\ shown' = IF p[2] = "pending" THEN shown ELSE [shown EXCEPT ![p[1]] = p[2]]
    BY <1>8, <2>1 DEF Editor!Replay, Editor!Tell
  <2>3. p[1] \in Tools /\ p[2] \in Statuses \ {"none"}
    BY <1>3, <1>8
  <2>4. todo \in SUBSET Todos /\ (\A q : q[1] # p[1] => (q \in todo <=> q \in load.todo))
    BY <1>1, <2>1
  <2>5. /\ shown' \in Pictures /\ \A i \in Editor!Items : i # p[1] => shown'[i] = shown[i]
        /\ p[2] # "pending" => shown'[p[1]] = p[2]
    <3>1. \A i \in Editor!Items : i # p[1] => shown'[i] = shown[i]
      BY <1>2, <1>4, <2>2
    <3>2. p[2] # "pending" => shown'[p[1]] = p[2]
      BY <1>2, <1>4, <2>2
    <3>3. p[2] \in Statuses /\ shown' \in [Editor!Items -> Statuses \cup Nat]
      BY <1>2, <1>4, <2>2, <2>3
    <3>4. "text" \in Editor!Items /\ Tools \subseteq Editor!Items
      BY DEF Editor!Items
    <3>5. shown'["text"] \in Nat
      BY <1>2, <1>8, <3>1, <3>4 DEF Pictures
    <3>6. ASSUME NEW t \in Tools PROVE shown'[t] \in Statuses
      <4>1. shown[t] \in Statuses
        BY <1>2 DEF Pictures
      <4>2. t # p[1] => shown'[t] = shown[t]
        BY <3>1, <3>4
      <4>3. shown'[p[1]] \in {shown[p[1]], p[2]}
        BY <1>2, <1>4, <2>2
      <4> QED BY <3>3, <4>1, <4>2, <4>3
    <3> QED BY <3>1, <3>2, <3>3, <3>5, <3>6 DEF Pictures
  <2>6. toolStarts' \subseteq toolStarts \cup {p[1]} /\ toolStarts' \subseteq Tools
    BY <1>2, <2>2
  <2>7. ASSUME Undisturbed
        PROVE  /\ \A q \in todo : q[1] = p[1] => q = <<p[1], p[2], "started">> /\ p[1] # "text"
               /\ (\A q \in todo : q[1] # p[1]) => shown'[p[1]] = p[2]
               /\ (\E q \in todo : q[1] = p[1]) /\ p[2] = "pending" => shown'[p[1]] = "pending"
               /\ p[1] \in toolStarts' => shown'[p[1]] # "none"
    <3>1. \A q \in todo : q[1] # p[1]
      BY <1>5, <2>1, <2>7 DEF ReplayGoesOn
    <3>2. p[2] = "pending" => shown[p[1]] = "pending"
      BY <1>5, <1>8, <2>7 DEF ReplayGoesOn
    <3>3. shown'[p[1]] = p[2] /\ p[2] # "none"
      BY <2>2, <2>3, <2>5, <3>2
    <3> QED BY <3>1, <3>3
  <2> QED BY ONLY EditorConstants, EditorInv, <1>1, <2>2, <2>4, <2>5, <2>6, <2>7, ReplayStep
<1> QED BY <1>3, <1>6, <1>7, <1>8

LEMMA ReplayEnds == ASSUME EditorConstants, EditorInv, Editor!Loaded PROVE EditorInv'
<1>0. EditorTyped
  BY DEF EditorInv
<1>1. /\ load.stage = "replaying" /\ load.todo = {} /\ load' = [load EXCEPT !.stage = "done"]
      /\ UNCHANGED <<parts, written, news, handling, managed, toolStarts, shown, permit, prev, tail, disturbed>>
  BY DEF Editor!Loaded
<1>2. /\ load' \in [stage : {"none", "loading", "replaying", "done"}, todo : SUBSET Todos] /\ load'.stage = "done"
      /\ load'.todo = {}
  BY <1>0, <1>1 DEF EditorTyped
<1>3. EditorTyped'
  BY <1>0, <1>1, <1>2 DEF EditorTyped, News, Statuses, Pictures, Editor!Items, Permits, Todos
<1>4. ASSUME ~disturbed' PROVE Undisturbed'
  <2>1. Undisturbed /\ managed /\ LeadsToSaved
    BY <1>1, <1>4 DEF EditorInv, Undisturbed
  <2>2. PICK base \in Pictures, pictures \in Seq(Pictures) :
            Leads(pictures, news, Saved) /\ Replayed(base, load.todo, shown) /\ InHand(handling, base, pictures[1], shown)
    BY <2>1 DEF LeadsToSaved
  <2>3. Leads(pictures, news', Saved') /\ Replayed(base, load'.todo, shown') /\ InHand(handling', base, pictures[1], shown')
    BY <1>1, <1>2, <2>2 DEF Saved
  <2>4. LeadsToSaved'
    BY <2>3, NextPictures
  <2> QED BY <1>1, <1>2, <2>1, <2>4 DEF Undisturbed
<1> QED BY <1>1, <1>3, <1>4, RequestsStay

LEMMA NextEditorInv == ASSUME EditorConstants, EditorInv, [Editor!Next]_editorVars PROVE EditorInv'
<1>1. CASE UNCHANGED editorVars
  <2>0. EditorTyped /\ (~disturbed => Undisturbed)
    BY DEF EditorInv
  <2>1. UNCHANGED <<parts, written, news, handling, managed, toolStarts, load, shown, permit, prev, tail, disturbed>>
    BY <1>1 DEF editorVars
  <2>2. EditorTyped'
    BY <2>0, <2>1 DEF EditorTyped, News, Statuses, Pictures, Editor!Items, Permits, Todos
  <2>3. Saved' = Saved
    BY <2>1 DEF Saved
  <2>4. Undisturbed => Undisturbed'
    BY <2>0, <2>1, <2>3, PicturesStay
  <2> QED BY <2>0, <2>1, <2>2, <2>4, RequestsStay
<1>2. ASSUME NEW t \in Tools, NEW value \in {"pending", "running", "completed", "error"}, Editor!SavePart(t, value)
      PROVE  EditorInv'
  <2>1. value \in Statuses \ {"none"}
    BY DEF Statuses
  <2> QED BY <1>2, <2>1, PartSaved
<1>3. ASSUME NEW r \in Asked, Editor!Ask(r) PROVE EditorInv'
  BY <1>3, RequestPublished
<1>4. ASSUME NEW h \in handling, Editor!Handle(h) PROVE EditorInv'
  BY <1>4, EventHandled
<1>5. ASSUME NEW p \in load.todo, Editor!Replay(p) PROVE EditorInv'
  BY <1>5, PartReplayed
<1>6. CASE Editor!Delta \/ Editor!TextEnds \/ Editor!Take \/ Editor!TakeAsked \/ Editor!Break
  BY <1>6, DeltaPublished, TextSaved, EventTaken, RequestTaken, StreamBreaks
<1>7. CASE Editor!ChainStep \/ Editor!Load \/ Editor!ReadMessages \/ Editor!Loaded
  BY <1>7, ChainGoesOn, LoadBegins, MessagesRead, ReplayEnds
<1> QED BY <1>1, <1>2, <1>3, <1>4, <1>5, <1>6, <1>7 DEF Editor!Next

LEMMA EditorInvTells == ASSUME EditorConstants, EditorInv PROVE Editor!EditorFollows
<1>0. EditorTyped /\ (~disturbed => Undisturbed)
  BY DEF EditorInv
<1>1. Editor!TypeOK
  <2>1. \A h, k \in handling : h = k
    BY <1>0 DEF EditorTyped
  <2> QED BY <1>0, <2>1 DEF Editor!TypeOK, EditorTyped, Permits
<1>2. Editor!EditorShowsSaved
  <2>1. SUFFICES ASSUME managed, handling = {}, news = <<>>, ~disturbed, load.stage \in {"none", "done"}
                 PROVE  shown = [parts EXCEPT !["text"] = written]
    BY DEF Editor!EditorShowsSaved, Editor!Quiet
  <2>2. LeadsToSaved /\ load.todo = {} /\ shown \in Pictures
    BY <1>0, <2>1 DEF Undisturbed, EditorTyped
  <2>3. PICK base \in Pictures, pictures \in Seq(Pictures) :
            Leads(pictures, news, Saved) /\ Replayed(base, load.todo, shown) /\ InHand(handling, base, pictures[1], shown)
    BY <2>2 DEF LeadsToSaved
  <2>4. base = shown
    BY <2>2, <2>3, NothingToReplay
  <2>5. pictures[1] = base
    BY <2>1, <2>3 DEF InHand
  <2>6. pictures[1] = Saved
    <3>1. Len(news) = 0
      BY <2>1
    <3> QED BY <2>3, <3>1 DEF Leads
  <2> QED BY <2>4, <2>5, <2>6 DEF Saved
<1>3. Editor!OneDialog
  <2>1. PICK line \in Seq(Asked) : InLine(line)
    BY DEF EditorInv
  <2>2. \A r \in Asked : permit[r] = "open" => r = line[1]
    BY <2>1 DEF InLine
  <2> QED BY <2>2 DEF Editor!OneDialog
<1> QED BY <1>1, <1>2, <1>3 DEF Editor!EditorFollows

\* acp/agent.ts: when all events are handled, no event was lost and no replay overlapped with
\* one, the editor shows the statuses and the text that the session has, and it is never asked
\* for two permissions of a session at a time.
THEOREM EditorIsTold == ASSUME EditorConstants PROVE Spec => []Editor!EditorFollows
<1>1. Init => EditorInv
  BY InitEditorInv, Starts DEF PartsStart
<1>2. EditorInv /\ [Next]_vars => EditorInv'
  BY NextEditorInv, Steps DEF PartsStep
<1>3. EditorInv => Editor!EditorFollows
  BY EditorInvTells
<1> QED BY <1>1, <1>2, <1>3, PTL DEF Spec

-----------------------------------------------------------------------------
(* The terminal client and its session *)

TuiConstants == MaxWrites \in Nat \ {0} /\ Unloaded \notin [Messages -> 0..MaxWrites]

Writes == 0..MaxWrites
Stores == [Messages -> Writes]
ServerEvents == [type : {"updated", "removed"}, message : Messages, write : 1..MaxWrites]

\* What an event leaves of its message.
Value(e) == IF e.type = "updated" THEN e.write ELSE 0

\* The last event of a message.
LastOf(coming, m, i) ==
    i \in 1..Len(coming) /\ coming[i].message = m /\ \A j \in 1..Len(coming) : j > i => coming[j].message # m

NoneOf(coming, m) == \A i \in 1..Len(coming) : coming[i].message # m

\* The last event of a message tells what the server has.
TellServer(coming, have) ==
    \A m \in Messages, i \in 1..Len(coming) : LastOf(coming, m, i) => have[m] = Value(coming[i])

\* What the events do not tell of, or only of the time before, the picture has.
FitServer(coming, picture, have, since) ==
    \A m \in Messages : (\A i \in 1..Len(coming) : coming[i].message = m => coming[i].write <= since) => picture[m] = have[m]

TuiTyped ==
    /\ now \in 1..MaxWrites /\ server \in Stores /\ conn \in {"up", "down", "over"}
    /\ stream \in Seq(ServerEvents) /\ batch \in Seq(ServerEvents)
    /\ store = Unloaded \/ store \in Stores
    /\ sync \in [at : {"none", "asked", "replied", "done"}, reply : Stores, asOf : Writes]
    /\ timer \in BOOLEAN /\ missed \in BOOLEAN /\ overtaken \in BOOLEAN
    /\ sync.asOf <= now

Coming == batch \o stream

\* No event was lost, and none came before the answer.
TuiInStep ==
    /\ TellServer(Coming, server)
    /\ sync.at = "replied" => FitServer(Coming, sync.reply, server, sync.asOf)
    /\ sync.at = "done" => store \in Stores /\ FitServer(Coming, store, server, 0)

TuiInv ==
    /\ TuiTyped
    /\ conn = "down" => stream = <<>> /\ batch = <<>>
    /\ conn = "over" => missed
    /\ ~missed /\ ~overtaken => TuiInStep

-----------------------------------------------------------------------------

\* What a batch leaves in the store: of each message what its last event says, or what it was.
Leaves(s, coming, next) ==
    /\ next \in Stores
    /\ \A m \in Messages :
          \/ \E i \in 1..Len(coming) : LastOf(coming, m, i) /\ next[m] = Value(coming[i])
          \/ NoneOf(coming, m) /\ (s # Unloaded => next[m] = s[m])

Step(f, s, coming, n) == f = [i \in 0..n |-> IF i = 0 THEN s ELSE Tui!Reduce(f[i - 1], coming[i])]

\* The stores between the events of a batch.
LEMMA StoresBetween ==
  ASSUME NEW s, NEW coming, NEW n \in Nat
  PROVE  \E f : Step(f, s, coming, n)
<1>. DEFINE Good == {k \in Nat : \E f : Step(f, s, coming, k)}
<1>1. 0 \in Good
  <2>1. PICK f : f = [i \in 0..0 |-> s]
    OBVIOUS
  <2>2. f = [i \in 0..0 |-> IF i = 0 THEN s ELSE Tui!Reduce(f[i - 1], coming[i])]
    BY <2>1
  <2> QED BY <2>2 DEF Step
<1>2. ASSUME NEW k \in Nat, k \in Good PROVE k + 1 \in Good
  <2>1. PICK f : Step(f, s, coming, k)
    BY <1>2
  <2>2. PICK g : g = [i \in 0..k + 1 |-> IF i = 0 THEN s ELSE Tui!Reduce(f[i - 1], coming[i])]
    OBVIOUS
  <2>3. \A i \in 0..k : g[i] = f[i]
    BY <2>1, <2>2 DEF Step
  <2>4. ASSUME NEW i \in 0..k + 1 PROVE g[i] = IF i = 0 THEN s ELSE Tui!Reduce(g[i - 1], coming[i])
    <3>1. g[i] = IF i = 0 THEN s ELSE Tui!Reduce(f[i - 1], coming[i])
      BY <2>2
    <3>2. i # 0 => i - 1 \in 0..k
      OBVIOUS
    <3>3. i # 0 => g[i - 1] = f[i - 1]
      BY <2>3, <3>2
    <3> QED BY <3>1, <3>3
  <2>5. g = [i \in 0..k + 1 |-> IF i = 0 THEN s ELSE Tui!Reduce(g[i - 1], coming[i])]
    <3>1. PICK h : h = [i \in 0..k + 1 |-> IF i = 0 THEN s ELSE Tui!Reduce(g[i - 1], coming[i])]
      OBVIOUS
    <3>2. DOMAIN g = 0..k + 1 /\ DOMAIN h = 0..k + 1 /\ \A i \in 0..k + 1 : g[i] = h[i]
      BY <2>2, <2>4, <3>1
    <3>3. g = [i \in 0..k + 1 |-> g[i]] /\ h = [i \in 0..k + 1 |-> h[i]]
      BY <2>2, <3>1
    <3>4. g = h
      BY <3>2, <3>3
    <3> QED BY <3>1, <3>4
  <2> QED BY <2>5 DEF Step
<1>3. \A k \in Nat : k \in Good
  <2> HIDE DEF Good
  <2> QED BY <1>1, <1>2, Numbers!InductionOnNat
<1> QED BY <1>3

LEMMA AppliedIsLast ==
  ASSUME NEW s, NEW coming, Len(coming) \in Nat
  PROVE  \E f : Step(f, s, coming, Len(coming)) /\ Tui!Applied(s, coming) = f[Len(coming)]
<1>1. \E f : Step(f, s, coming, Len(coming))
  BY StoresBetween
<1>2. PICK f : f = CHOOSE g : Step(g, s, coming, Len(coming))
  OBVIOUS
<1>3. Step(f, s, coming, Len(coming))
  BY <1>1, <1>2, Zenon
<1>4. Tui!Applied(s, coming) = (CHOOSE g : Step(g, s, coming, Len(coming)))[Len(coming)]
  BY DEF Tui!Applied, Step
<1> QED BY <1>2, <1>3, <1>4

\* What does not throw leaves what its last events say.
LEMMA BatchLeaves ==
  ASSUME TuiConstants, NEW s, s = Unloaded \/ s \in Stores, NEW coming \in Seq(ServerEvents), coming # <<>> \/ s # Unloaded,
         ~(coming # <<>> /\ Tui!Throws(s, Head(coming)))
  PROVE  Leaves(s, coming, Tui!Applied(s, coming))
<1>n. PICK n \in Nat : n = Len(coming)
  OBVIOUS
<1>1. PICK f : Step(f, s, coming, n) /\ Tui!Applied(s, coming) = f[n]
  BY <1>n, AppliedIsLast
<1>2. f[0] = s /\ \A i \in 1..n : f[i] = Tui!Reduce(f[i - 1], coming[i])
  BY <1>1 DEF Step
<1>3. \A i \in 1..n : coming[i] \in ServerEvents
  BY <1>n
<1>4. s = Unloaded => n # 0 /\ coming[1].type = "updated"
  <2>1. s = Unloaded => coming # <<>> /\ Head(coming).type # "removed"
    BY DEF Tui!Throws
  <2>2. coming # <<>> => n # 0 /\ Head(coming) = coming[1]
    BY <1>n
  <2>3. n # 0 => coming[1].type \in {"updated", "removed"}
    BY <1>3 DEF ServerEvents
  <2> QED BY <2>1, <2>2, <2>3
\* As it is after k events.
<1> DEFINE LastBy(m, k, i) == i \in 1..k /\ coming[i].message = m /\ \A j \in 1..k : j > i => coming[j].message # m
           AfterEvent(k) == /\ f[k] \in Stores
                       /\ \A m \in Messages :
                             \/ \E i \in 1..k : LastBy(m, k, i) /\ f[k][m] = Value(coming[i])
                             \/ (\A i \in 1..k : coming[i].message # m) /\ (s # Unloaded => f[k][m] = s[m])
           Good == {k \in Nat : k <= n => (k = 0 /\ s = Unloaded) \/ AfterEvent(k)}
<1>5. 0 \in Good
  <2>1. s # Unloaded => AfterEvent(0)
    BY <1>2
  <2> QED BY <2>1
<1>6. ASSUME NEW k \in Nat, k \in Good PROVE k + 1 \in Good
  <2>1. SUFFICES ASSUME k + 1 <= n PROVE AfterEvent(k + 1)
    OBVIOUS
  <2>2. k + 1 \in 1..n /\ k + 1 - 1 = k /\ k <= n
    BY <2>1
  <2>3. PICK e \in ServerEvents : e = coming[k + 1]
    BY <1>3, <2>2
  <2>4. f[k + 1] = Tui!Reduce(f[k], e)
    BY <1>2, <2>2, <2>3
  <2>5. e.type \in {"updated", "removed"} /\ e.message \in Messages /\ e.write \in Writes /\ Value(e) \in Writes
    BY <2>3 DEF ServerEvents, Value, Writes, TuiConstants
  <2>6. PICK b : b = IF f[k] = Unloaded THEN Tui!Empty ELSE f[k]
    OBVIOUS
  <2>7. Unloaded \notin Stores /\ Tui!Empty \in Stores
    BY DEF TuiConstants, Stores, Writes, Tui!Empty
  <2>8. b \in Stores /\ (f[k] = Unloaded => k = 0 /\ s = Unloaded /\ e.type = "updated")
    <3>1. CASE k = 0 /\ s = Unloaded
      BY <1>2, <1>4, <2>3, <2>6, <2>7, <3>1
    <3>2. CASE AfterEvent(k)
      BY <2>6, <2>7, <3>2
    <3> QED BY <1>6, <2>2, <3>1, <3>2
  <2>9. f[k + 1] = [b EXCEPT ![e.message] = Value(e)]
    BY <2>4, <2>5, <2>6, <2>8 DEF Tui!Reduce, Value
  <2>10. f[k + 1] \in Stores /\ f[k + 1][e.message] = Value(e) /\ \A m \in Messages : m # e.message => f[k + 1][m] = b[m]
    BY <2>5, <2>8, <2>9 DEF Stores
  <2>11. ASSUME NEW m \in Messages
         PROVE  \/ \E i \in 1..k + 1 : LastBy(m, k + 1, i) /\ f[k + 1][m] = Value(coming[i])
                \/ (\A i \in 1..k + 1 : coming[i].message # m) /\ (s # Unloaded => f[k + 1][m] = s[m])
    <3>1. CASE m = e.message
      <4>1. k + 1 \in 1..k + 1 /\ LastBy(m, k + 1, k + 1) /\ f[k + 1][m] = Value(coming[k + 1])
        BY <2>3, <2>10, <3>1
      <4> QED BY <4>1
    <3>2. CASE m # e.message
      <4>1. CASE AfterEvent(k)
        <5>1. f[k + 1][m] = f[k][m]
          BY <2>6, <2>7, <2>10, <3>2, <4>1
        <5>2. ASSUME NEW i \in 1..k, LastBy(m, k, i), f[k][m] = Value(coming[i])
              PROVE  i \in 1..k + 1 /\ LastBy(m, k + 1, i) /\ f[k + 1][m] = Value(coming[i])
          BY <2>3, <3>2, <5>1, <5>2
        <5>3. ASSUME \A i \in 1..k : coming[i].message # m, s # Unloaded => f[k][m] = s[m]
              PROVE  (\A i \in 1..k + 1 : coming[i].message # m) /\ (s # Unloaded => f[k + 1][m] = s[m])
          BY <2>3, <3>2, <5>1, <5>3
        <5> QED BY <4>1, <5>2, <5>3
      <4>2. CASE k = 0 /\ s = Unloaded
        <5>1. \A i \in 1..k + 1 : coming[i].message # m
          BY <2>3, <3>2, <4>2
        <5> QED BY <4>2, <5>1
      <4> QED BY <1>6, <2>2, <4>1, <4>2
    <3> QED BY <3>1, <3>2
  <2> QED BY <2>10, <2>11
<1>7. n \in Good
  <2> HIDE DEF Good
  <2> QED BY <1>5, <1>6, Numbers!InductionOnNat
<1>8. AfterEvent(n)
  BY <1>4, <1>7
<1> QED BY <1>1, <1>8, <1>n DEF Leaves, LastOf, NoneOf

-----------------------------------------------------------------------------

\* What lies where, after two sequences are joined.
LEMMA Joined ==
  ASSUME NEW coming \in Seq(ServerEvents), NEW rest \in Seq(ServerEvents)
  PROVE  /\ coming \o rest \in Seq(ServerEvents) /\ Len(coming \o rest) = Len(coming) + Len(rest)
         /\ \A i \in 1..Len(coming) : i \in 1..Len(coming \o rest) /\ (coming \o rest)[i] = coming[i]
         /\ \A i \in 1..Len(rest) : /\ Len(coming) + i \in 1..Len(coming \o rest)
                                    /\ (coming \o rest)[Len(coming) + i] = rest[i]
         /\ \A i \in 1..Len(coming \o rest) : i \in 1..Len(coming) \/ \E j \in 1..Len(rest) : i = Len(coming) + j
<1>n. PICK n \in Nat, k \in Nat : n = Len(coming) /\ k = Len(rest)
  OBVIOUS
<1>x. PICK full : full = coming \o rest
  OBVIOUS
<1>1. full \in Seq(ServerEvents) /\ Len(full) = n + k
  BY <1>n, <1>x, ConcatProperties
<1>2. \A i \in 1..Len(full) : full[i] = IF i <= Len(coming) THEN coming[i] ELSE rest[i - Len(coming)]
  BY <1>x, ConcatProperties
<1>3. \A i \in 1..n : i \in 1..n + k /\ full[i] = coming[i]
  BY <1>n, <1>1, <1>2
<1>4. ASSUME NEW i \in 1..k PROVE n + i \in 1..n + k /\ full[n + i] = rest[i]
  <2>1. n + i \in 1..n + k /\ ~(n + i <= n) /\ n + i - n = i
    OBVIOUS
  <2> QED BY <1>n, <1>1, <1>2, <2>1
<1>5. ASSUME NEW i \in 1..n + k PROVE i \in 1..n \/ \E j \in 1..k : i = n + j
  <2>1. CASE i > n
    <3>1. i - n \in 1..k /\ i = n + (i - n)
      BY <2>1
    <3> QED BY <3>1
  <2> QED BY <2>1
<1> QED BY <1>n, <1>x, <1>1, <1>3, <1>4, <1>5

LEMMA HeadMoves ==
  ASSUME NEW before \in Seq(ServerEvents), NEW rest \in Seq(ServerEvents), rest # <<>>
  PROVE  Append(before, Head(rest)) \o Tail(rest) = before \o rest
<1>n. PICK n \in Nat, k \in Nat : n = Len(before) /\ k = Len(rest) /\ k # 0
  <2>1. Len(before) \in Nat /\ Len(rest) \in Nat /\ Len(rest) # 0
    OBVIOUS
  <2> QED BY <2>1
<1>1. PICK h \in ServerEvents, t \in Seq(ServerEvents) : h = Head(rest) /\ t = Tail(rest)
  BY HeadTailProperties
<1>2. h = rest[1] /\ Len(t) = k - 1 /\ \A i \in 1..k - 1 : t[i] = rest[i + 1]
  BY <1>n, <1>1
<1>3. PICK b \in Seq(ServerEvents) : b = Append(before, h)
  BY AppendProperties
<1>4. Len(b) = n + 1 /\ b[n + 1] = h /\ \A i \in 1..n : b[i] = before[i]
  BY <1>n, <1>3, AppendProperties
<1>5. PICK x, y : x = b \o t /\ y = before \o rest
  OBVIOUS
<1>6. /\ x \in Seq(ServerEvents) /\ y \in Seq(ServerEvents) /\ Len(x) = n + k /\ Len(y) = n + k
  <2>1. Len(x) = Len(b) + Len(t) /\ Len(y) = Len(before) + Len(rest) /\ x \in Seq(ServerEvents) /\ y \in Seq(ServerEvents)
    BY <1>5, Joined
  <2> QED BY <1>n, <1>2, <1>4, <2>1
<1>7. ASSUME NEW i \in 1..n + k PROVE x[i] = y[i]
  <2>1. x[i] = (IF i <= n + 1 THEN b[i] ELSE t[i - (n + 1)]) /\ y[i] = IF i <= n THEN before[i] ELSE rest[i - n]
    BY <1>n, <1>4, <1>5, <1>6, ConcatProperties
  <2>2. CASE i <= n
    BY <1>4, <2>1, <2>2
  <2>3. CASE i = n + 1
    <3>1. i - n = 1 /\ ~(i <= n)
      BY <2>3
    <3> QED BY <1>2, <1>4, <2>1, <2>3, <3>1
  <2>4. CASE i > n + 1
    <3>1. i - (n + 1) \in 1..k - 1 /\ i - (n + 1) + 1 = i - n /\ ~(i <= n) /\ ~(i <= n + 1)
      BY <2>4
    <3> QED BY <1>2, <2>1, <3>1
  <2> QED BY <2>2, <2>3, <2>4
<1>8. x = y
  BY <1>6, <1>7, SeqEqual
<1> QED BY <1>1, <1>3, <1>5, <1>8

\* One event more is published.
LEMMA EventAdded ==
  ASSUME TuiConstants, NEW coming \in Seq(ServerEvents), NEW e \in ServerEvents, NEW have \in Stores, TellServer(coming, have),
         NEW next, next = [have EXCEPT ![e.message] = Value(e)]
  PROVE  /\ TellServer(Append(coming, e), next)
         /\ \A picture, since : since \in Writes /\ since < e.write /\ FitServer(coming, picture, have, since) =>
                FitServer(Append(coming, e), picture, next, since)
<1>n. PICK n \in Nat : n = Len(coming)
  OBVIOUS
<1>1. PICK full : full = Append(coming, e)
  OBVIOUS
<1>2. Len(full) = n + 1 /\ full[n + 1] = e /\ \A i \in 1..n : full[i] = coming[i]
  BY <1>n, <1>1, AppendProperties
<1>3. e.message \in Messages /\ next[e.message] = Value(e) /\ \A m \in Messages : m # e.message => next[m] = have[m]
  BY DEF ServerEvents, Stores
<1>4. ASSUME NEW m \in Messages, NEW i \in 1..n + 1, LastOf(full, m, i) PROVE next[m] = Value(full[i])
  <2>1. CASE i = n + 1
    BY <1>2, <1>3, <1>4, <2>1 DEF LastOf
  <2>2. CASE i \in 1..n
    <3>1. m # e.message
      <4>1. n + 1 \in 1..Len(full) /\ n + 1 > i
        BY <1>2, <2>2
      <4> QED BY <1>2, <1>4, <4>1 DEF LastOf
    <3>2. LastOf(coming, m, i)
      BY <1>2, <1>4, <1>n, <2>2 DEF LastOf
    <3>3. have[m] = Value(coming[i])
      BY <1>n, <2>2, <3>2 DEF TellServer
    <3> QED BY <1>2, <1>3, <2>2, <3>1, <3>3
  <2> QED BY <2>1, <2>2
<1>5. TellServer(full, next)
  BY <1>2, <1>4 DEF TellServer
<1>6. ASSUME NEW picture, NEW since \in Writes, since < e.write, FitServer(coming, picture, have, since),
             NEW m \in Messages, \A i \in 1..n + 1 : full[i].message = m => full[i].write <= since
      PROVE  picture[m] = next[m]
  <2>1. \A i \in 1..n : coming[i].message = m => coming[i].write <= since
    BY <1>2, <1>6
  <2>2. picture[m] = have[m]
    BY <1>n, <1>6, <2>1 DEF FitServer
  <2>3. m # e.message
    <3>1. n + 1 \in 1..n + 1 /\ e.write \in 1..MaxWrites /\ since \in Writes
      BY <1>6 DEF ServerEvents
    <3>2. ~(e.write <= since)
      BY <1>6, <3>1 DEF Writes, TuiConstants
    <3> QED BY <1>2, <1>6, <3>1, <3>2
  <2> QED BY <1>3, <2>2, <2>3
<1> QED BY <1>1, <1>2, <1>5, <1>6 DEF FitServer

\* The first events are applied.
LEMMA EventsGone ==
  ASSUME TuiConstants, NEW coming \in Seq(ServerEvents), NEW rest \in Seq(ServerEvents), NEW have, TellServer(coming \o rest, have)
  PROVE  /\ TellServer(rest, have)
         /\ \A picture, since :
               FitServer(coming \o rest, picture, have, since) /\ (\A i \in 1..Len(coming) : coming[i].write <= since) =>
                   FitServer(rest, picture, have, since)
         /\ \A s, next :
               s \in Stores /\ FitServer(coming \o rest, s, have, 0) /\ Leaves(s, coming, next) => FitServer(rest, next, have, 0)
<1>x. PICK full : full = coming \o rest
  OBVIOUS
<1>n. PICK n \in Nat, k \in Nat : n = Len(coming) /\ k = Len(rest)
  OBVIOUS
<1>1. /\ full \in Seq(ServerEvents) /\ Len(full) = n + k
      /\ \A i \in 1..n : i \in 1..n + k /\ full[i] = coming[i]
      /\ \A i \in 1..k : n + i \in 1..n + k /\ full[n + i] = rest[i]
      /\ \A i \in 1..n + k : i \in 1..n \/ \E j \in 1..k : i = n + j
  BY <1>x, <1>n, Joined
<1>2. TellServer(full, have)
  BY <1>x
<1>3. ASSUME NEW m \in Messages, NEW i \in 1..k, LastOf(rest, m, i) PROVE have[m] = Value(rest[i])
  <2>1. ASSUME NEW j \in 1..n + k, j > n + i PROVE full[j].message # m
    <3>1. PICK l \in 1..k : j = n + l
      <4>1. j \notin 1..n
        BY <2>1
      <4>2. j \in 1..n \/ \E l \in 1..k : j = n + l
        BY <1>1
      <4> QED BY <4>1, <4>2
    <3>2. l > i
      BY <2>1, <3>1
    <3>3. rest[l].message # m
      BY <1>3, <1>n, <3>2 DEF LastOf
    <3> QED BY <1>1, <3>1, <3>3
  <2>2. LastOf(full, m, n + i)
    BY <1>1, <1>3, <2>1 DEF LastOf
  <2> QED BY <1>1, <1>2, <2>2 DEF TellServer
<1>4. TellServer(rest, have)
  BY <1>3, <1>n DEF TellServer
<1>5. ASSUME NEW picture, NEW since, FitServer(full, picture, have, since), \A i \in 1..n : coming[i].write <= since,
             NEW m \in Messages, \A i \in 1..k : rest[i].message = m => rest[i].write <= since
      PROVE  picture[m] = have[m]
  <2>1. ASSUME NEW i \in 1..n + k, full[i].message = m PROVE full[i].write <= since
    <3>1. CASE i \in 1..n
      BY <1>1, <1>5, <3>1
    <3>2. ASSUME NEW j \in 1..k, i = n + j PROVE full[i].write <= since
      BY <1>1, <1>5, <2>1, <3>2
    <3> QED BY <1>1, <3>1, <3>2
  <2> QED BY <1>1, <1>5, <2>1 DEF FitServer
<1>6. ASSUME NEW s \in Stores, NEW next, FitServer(full, s, have, 0), Leaves(s, coming, next),
             NEW m \in Messages, \A i \in 1..k : rest[i].message = m => rest[i].write <= 0
      PROVE  next[m] = have[m]
  <2>1. \A i \in 1..k : rest[i].message # m
    <3>1. \A i \in 1..k : rest[i].write \in 1..MaxWrites
      <4>1. \A i \in 1..k : rest[i] \in ServerEvents
        BY <1>n
      <4> QED BY <4>1 DEF ServerEvents
    <3> QED BY <1>6, <3>1 DEF TuiConstants
  <2>2. ASSUME NEW i \in 1..n, LastOf(coming, m, i), next[m] = Value(coming[i]) PROVE next[m] = have[m]
    <3>1. ASSUME NEW j \in 1..n + k, j > i PROVE full[j].message # m
      <4>1. CASE j \in 1..n
        BY <1>1, <1>n, <2>2, <3>1, <4>1 DEF LastOf
      <4>2. ASSUME NEW l \in 1..k, j = n + l PROVE full[j].message # m
        BY <1>1, <2>1, <4>2
      <4> QED BY <1>1, <4>1, <4>2
    <3>2. LastOf(full, m, i)
      BY <1>1, <1>n, <2>2, <3>1 DEF LastOf
    <3> QED BY <1>1, <1>2, <2>2, <3>2 DEF TellServer
  <2>3. ASSUME NoneOf(coming, m), next[m] = s[m] PROVE next[m] = have[m]
    <3>1. \A i \in 1..n + k : full[i].message # m
      <4>1. ASSUME NEW i \in 1..n + k PROVE full[i].message # m
        <5>1. CASE i \in 1..n
          BY <1>1, <1>n, <2>3, <5>1 DEF NoneOf
        <5>2. ASSUME NEW j \in 1..k, i = n + j PROVE full[i].message # m
          BY <1>1, <2>1, <5>2
        <5> QED BY <1>1, <5>1, <5>2
      <4> QED BY <4>1
    <3> QED BY <1>1, <1>6, <2>3, <3>1 DEF FitServer
  <2>4. s # Unloaded
    BY <1>6 DEF TuiConstants, Stores, Writes
  <2> QED BY <1>6, <1>n, <2>2, <2>3, <2>4 DEF Leaves, LastOf
<1>7. \A picture, since : FitServer(full, picture, have, since) /\ (\A i \in 1..n : coming[i].write <= since) => FitServer(rest, picture, have, since)
  BY <1>5, <1>n DEF FitServer
<1>8. \A s, next : s \in Stores /\ FitServer(full, s, have, 0) /\ Leaves(s, coming, next) => FitServer(rest, next, have, 0)
  BY <1>6, <1>n DEF FitServer
<1> QED BY <1>4, <1>7, <1>8, <1>n, <1>x

-----------------------------------------------------------------------------

LEMMA InitTuiInv == ASSUME TuiConstants, Tui!Init PROVE TuiInv
<1>1. /\ now = 1 /\ server \in [Messages -> 0..1] /\ stream = <<>> /\ conn = "up" /\ batch = <<>> /\ timer = FALSE
      /\ store = Unloaded /\ sync = [at |-> "none", reply |-> Tui!Empty, asOf |-> 0] /\ missed = FALSE /\ overtaken = FALSE
  BY DEF Tui!Init
<1>2. server \in Stores /\ Tui!Empty \in Stores /\ 1 \in 1..MaxWrites /\ 0 \in Writes /\ 0 <= 1
  BY <1>1 DEF Stores, Writes, TuiConstants, Tui!Empty
<1>3. stream \in Seq(ServerEvents) /\ batch \in Seq(ServerEvents) /\ Len(stream) = 0
  BY <1>1
<1>4. TuiTyped
  BY <1>1, <1>2, <1>3 DEF TuiTyped
<1>5. Len(Coming) = 0
  BY <1>1, <1>3, Joined DEF Coming
<1>6. TuiInStep
  BY <1>1, <1>5 DEF TuiInStep, TellServer
<1> QED BY <1>1, <1>4, <1>6 DEF TuiInv

\* The server writes, and the client may hear of it.
LEMMA ServerWrites ==
  ASSUME TuiConstants, TuiInv, NEW m \in Messages, NEW type \in {"updated", "removed"}, now < MaxWrites, Tui!Publish(type, m),
         server' = [server EXCEPT ![m] = IF type = "updated" THEN now' ELSE 0],
         UNCHANGED <<conn, batch, timer, store, sync, overtaken>>
  PROVE  TuiInv'
<1>0. TuiTyped
  BY DEF TuiInv
<1>1. PICK e : e = [type |-> type, message |-> m, write |-> now']
  OBVIOUS
<1>2. /\ now' = now + 1
      /\ conn = "up" => stream' = Append(stream, e) /\ missed' = missed
      /\ conn # "up" => missed' = TRUE /\ stream' = stream
  BY <1>1 DEF Tui!Publish
<1>3. now' \in 1..MaxWrites /\ now' \in Writes /\ now < now' /\ sync.asOf < now' /\ 0 < now' /\ sync.asOf \in Writes
      /\ 0 \in Writes
  BY <1>0, <1>2 DEF TuiTyped, TuiConstants, Writes
<1>4. e \in ServerEvents /\ e.message = m /\ e.write = now' /\ Value(e) = IF type = "updated" THEN now' ELSE 0
  BY <1>1, <1>3 DEF ServerEvents, Value
<1>5. server' = [server EXCEPT ![e.message] = Value(e)] /\ server' \in Stores /\ server \in Stores
  BY <1>0, <1>3, <1>4 DEF TuiTyped, Stores, Writes
<1>6. stream' \in Seq(ServerEvents)
  <2>1. stream \in Seq(ServerEvents)
    BY <1>0 DEF TuiTyped
  <2>2. Append(stream, e) \in Seq(ServerEvents)
    BY <1>4, <2>1, AppendProperties
  <2> QED BY <1>2, <2>1, <2>2
<1>7. TuiTyped'
  <2>1. missed' \in BOOLEAN /\ sync.asOf <= now'
    <3>1. missed' \in BOOLEAN
      BY <1>0, <1>2 DEF TuiTyped
    <3>2. now' \in Nat /\ sync.asOf \in Nat
      BY <1>3 DEF TuiConstants, Writes
    <3> QED BY <1>3, <3>1, <3>2
  <2> QED BY <1>0, <1>3, <1>5, <1>6, <2>1 DEF TuiTyped, Stores, ServerEvents, Writes
<1>8. ASSUME ~missed', ~overtaken' PROVE TuiInStep'
  <2>1. conn = "up" /\ ~missed /\ ~overtaken /\ TuiInStep
    BY <1>2, <1>8 DEF TuiInv
  <2>2. Coming' = Append(Coming, e)
    <3>1. batch \in Seq(ServerEvents) /\ stream \in Seq(ServerEvents)
      BY <1>0 DEF TuiTyped
    <3>2. batch \o Append(stream, e) = Append(batch \o stream, e)
      <4>1. <<e>> \in Seq(ServerEvents) /\ batch \o stream \in Seq(ServerEvents)
        BY <1>4, <3>1, Joined
      <4>2. Append(stream, e) = stream \o <<e>>
        BY <1>4, <3>1, AppendIsConcat
      <4>3. Append(batch \o stream, e) = (batch \o stream) \o <<e>>
        BY <1>4, <4>1, AppendIsConcat
      <4>4. (batch \o stream) \o <<e>> = batch \o (stream \o <<e>>)
        BY <3>1, <4>1, ConcatAssociative
      <4> QED BY <4>2, <4>3, <4>4
    <3> QED BY <1>2, <2>1, <3>2 DEF Coming
  <2>3. Coming \in Seq(ServerEvents)
    BY <1>0, Joined DEF TuiTyped, Coming
  <2>4. TellServer(Coming, server)
    BY <2>1 DEF TuiInStep
  <2>5. /\ TellServer(Append(Coming, e), server')
        /\ \A picture, since : since \in Writes /\ since < e.write /\ FitServer(Coming, picture, server, since) =>
               FitServer(Append(Coming, e), picture, server', since)
    BY <1>4, <1>5, <2>3, <2>4, EventAdded
  <2>6. TellServer(Coming', server')
    BY <2>2, <2>5
  <2>7. sync.at = "replied" => FitServer(Coming', sync.reply, server', sync.asOf)
    BY <1>3, <1>4, <2>1, <2>2, <2>5 DEF TuiInStep
  <2>8. sync.at = "done" => store \in Stores /\ FitServer(Coming', store, server', 0)
    BY <1>3, <1>4, <2>1, <2>2, <2>5 DEF TuiInStep
  <2>9. /\ TellServer(Coming, server)'
        /\ sync'.at = "replied" => FitServer(Coming, sync.reply, server, sync.asOf)'
        /\ sync'.at = "done" => (store \in Stores)' /\ FitServer(Coming, store, server, 0)'
    BY <2>6, <2>7, <2>8 DEF TellServer, FitServer, LastOf, Value, Stores, Writes
  <2> QED BY <2>9 DEF TuiInStep
<1>9. (conn' = "down" => stream' = <<>> /\ batch' = <<>>) /\ (conn' = "over" => missed')
  BY <1>2 DEF TuiInv
<1> QED BY <1>7, <1>8, <1>9 DEF TuiInv

\* The primes of what is told, as the next state has it.
LEMMA NextInStep ==
  ASSUME TellServer(Coming', server'),
         sync'.at = "replied" => FitServer(Coming', sync'.reply, server', sync'.asOf),
         sync'.at = "done" => store' \in Stores /\ FitServer(Coming', store', server', 0)
  PROVE  TuiInStep'
<1>1. /\ TellServer(Coming, server)'
      /\ sync'.at = "replied" => FitServer(Coming, sync.reply, server, sync.asOf)'
      /\ sync'.at = "done" => (store \in Stores)' /\ FitServer(Coming, store, server, 0)'
  BY DEF TellServer, FitServer, LastOf, Value, Stores, Writes
<1> QED BY <1>1 DEF TuiInStep

\* A batch is applied, or throws.
LEMMA BatchApplied ==
  ASSUME TuiConstants, TuiInv, NEW coming \in Seq(ServerEvents), NEW rest \in Seq(ServerEvents), NEW gone \in BOOLEAN,
         Tui!Flush(coming, gone), Coming = coming \o rest, stream' \in Seq(ServerEvents),
         ~missed' => Coming' = rest, UNCHANGED <<now, server, sync>>, conn' \in {"up", "down", "over"},
         conn' = "down" => stream' = <<>>, conn' = "over" => missed'
  PROVE  TuiInv'
<1>0. TuiTyped
  BY DEF TuiInv
<1>1. /\ batch' = <<>> /\ timer' = FALSE
      /\ Tui!Thrown(coming) => store' = store
      /\ ~Tui!Thrown(coming) => store' = Tui!Applied(store, coming)
      /\ missed' = (missed \/ gone \/ Tui!Thrown(coming))
      /\ overtaken' = (overtaken \/ \E i \in 1..Len(coming) : sync.at = "replied" /\ coming[i].write > sync.asOf)
  BY DEF Tui!Flush
<1>2. store = Unloaded \/ store \in Stores
  BY <1>0 DEF TuiTyped
<1>3. Tui!Thrown(coming) <=> coming # <<>> /\ Tui!Throws(store, Head(coming))
  BY DEF Tui!Thrown
<1>4. ASSUME ~Tui!Thrown(coming), coming # <<>> \/ store # Unloaded PROVE Leaves(store, coming, store')
  <2>1. Leaves(store, coming, Tui!Applied(store, coming))
    BY <1>2, <1>3, <1>4, BatchLeaves
  <2> QED BY <1>1, <1>4, <2>1
<1>5. ASSUME coming = <<>>, store = Unloaded PROVE store' = store
  <2>1. Len(coming) = 0
    BY <1>5
  <2>2. PICK f : Step(f, store, coming, 0) /\ Tui!Applied(store, coming) = f[0]
    BY <2>1, AppliedIsLast
  <2>3. f[0] = store
    BY <2>2 DEF Step
  <2> QED BY <1>1, <1>3, <1>5, <2>2, <2>3
<1>6. store' = Unloaded \/ store' \in Stores
  BY <1>1, <1>2, <1>4, <1>5 DEF Leaves
<1>7. TuiTyped'
  <2>1. missed' \in BOOLEAN /\ overtaken' \in BOOLEAN
    BY <1>0, <1>1 DEF TuiTyped, Tui!Thrown, Tui!Throws
  <2>2. batch' \in Seq(ServerEvents)
    BY <1>1
  <2> QED BY <1>0, <1>1, <1>6, <2>1, <2>2 DEF TuiTyped, Stores, ServerEvents, Writes
<1>8. ASSUME ~missed', ~overtaken' PROVE TuiInStep'
  <2>1. ~missed /\ ~overtaken /\ ~Tui!Thrown(coming) /\ Coming' = rest
    BY <1>1, <1>8
  <2>2. TuiInStep /\ TellServer(coming \o rest, server)
    BY <2>1 DEF TuiInv, TuiInStep
  <2>3. TellServer(rest, server)
    BY <2>2, EventsGone
  <2>4. ASSUME sync.at = "replied" PROVE FitServer(rest, sync.reply, server, sync.asOf)
    <3>1. \A i \in 1..Len(coming) : coming[i].write <= sync.asOf
      <4>1. ASSUME NEW i \in 1..Len(coming) PROVE coming[i].write <= sync.asOf
        <5>1. coming[i] \in ServerEvents
          OBVIOUS
        <5>2. coming[i].write \in Nat /\ sync.asOf \in Nat
          BY <1>0, <5>1 DEF ServerEvents, TuiTyped, Writes, TuiConstants
        <5>3. ~(coming[i].write > sync.asOf)
          BY <1>1, <1>8, <2>4
        <5> QED BY <5>2, <5>3
      <4> QED BY <4>1
    <3>2. FitServer(coming \o rest, sync.reply, server, sync.asOf)
      BY <2>2, <2>4 DEF TuiInStep
    <3> QED BY <2>2, <3>1, <3>2, EventsGone
  <2>5. ASSUME sync.at = "done" PROVE store' \in Stores /\ FitServer(rest, store', server, 0)
    <3>1. store \in Stores /\ FitServer(coming \o rest, store, server, 0)
      BY <2>2, <2>5 DEF TuiInStep
    <3>2. store # Unloaded
      BY <3>1 DEF TuiConstants, Stores, Writes
    <3>3. Leaves(store, coming, store')
      BY <1>4, <2>1, <3>2
    <3>4. FitServer(rest, store', server, 0)
      BY <2>2, <3>1, <3>3, EventsGone
    <3> QED BY <3>3, <3>4 DEF Leaves
  <2> QED BY <2>1, <2>3, <2>4, <2>5, NextInStep
<1>9. conn' = "down" => batch' = <<>>
  BY <1>1
<1> QED BY <1>7, <1>8, <1>9 DEF TuiInv

LEMMA EventHeard == ASSUME TuiConstants, TuiInv, Tui!HandleEvent PROVE TuiInv'
<1>0. TuiTyped
  BY DEF TuiInv
<1>1. PICK coming : coming = Append(batch, Head(stream))
  OBVIOUS
<1>2. conn = "up" /\ stream # <<>> /\ stream' = Tail(stream) /\ UNCHANGED <<now, server, ends, sync>>
  BY DEF Tui!HandleEvent
<1>3. batch \in Seq(ServerEvents) /\ stream \in Seq(ServerEvents) /\ Head(stream) \in ServerEvents /\ Tail(stream) \in Seq(ServerEvents)
  BY <1>0, <1>2, HeadTailProperties DEF TuiTyped
<1>4. coming \in Seq(ServerEvents)
  BY <1>1, <1>3, AppendProperties
<1>5. Coming = coming \o Tail(stream)
  BY <1>1, <1>2, <1>3, HeadMoves DEF Coming
<1>6. CASE batch' = coming /\ timer' = TRUE /\ UNCHANGED <<store, missed, overtaken, conn>>
  <2>1. TuiTyped'
    BY <1>0, <1>2, <1>3, <1>4, <1>6 DEF TuiTyped, Stores, ServerEvents, Writes
  <2>2. Coming' = Coming
    BY <1>2, <1>5, <1>6 DEF Coming
  <2>3. ASSUME ~missed', ~overtaken' PROVE TuiInStep'
    <3>1. TuiInStep
      BY <1>6, <2>3 DEF TuiInv
    <3> QED BY <1>2, <1>6, <2>2, <3>1, NextInStep DEF TuiInStep
  <2> QED BY <1>2, <1>6, <2>1, <2>3 DEF TuiInv
<1>7. CASE Tui!FlushInLoop(coming, FALSE, "up")
  <2>1. Tui!Flush(coming, FALSE) /\ conn' = IF Tui!Thrown(coming) THEN "over" ELSE "up"
    BY <1>7 DEF Tui!FlushInLoop
  <2>2. batch' = <<>> /\ (Tui!Thrown(coming) => missed')
    BY <2>1 DEF Tui!Flush
  <2>3. Coming' = Tail(stream)
    BY <1>2, <1>3, <2>2, ConcatEmptySeq DEF Coming
  <2>4. conn' = "over" => missed'
    BY <2>1, <2>2
  <2>5. conn' \in {"up", "down", "over"} /\ conn' # "down"
    BY <2>1
  <2> QED BY <1>2, <1>3, <1>4, <1>5, <2>1, <2>3, <2>4, <2>5, BatchApplied
<1> QED BY <1>1, <1>6, <1>7 DEF Tui!HandleEvent

LEMMA TimerApplies == ASSUME TuiConstants, TuiInv, Tui!TimerFires PROVE TuiInv'
<1>0. TuiTyped
  BY DEF TuiInv
<1>1. Tui!Flush(batch, FALSE) /\ UNCHANGED <<now, server, stream, conn, sync>>
  BY DEF Tui!TimerFires
<1>2. batch \in Seq(ServerEvents) /\ stream \in Seq(ServerEvents) /\ conn \in {"up", "down", "over"}
  BY <1>0 DEF TuiTyped
<1>3. batch' = <<>> /\ (missed => missed')
  BY <1>1 DEF Tui!Flush
<1>4. Coming' = stream
  BY <1>1, <1>2, <1>3, ConcatEmptySeq DEF Coming
<1>5. (conn' = "down" => stream' = <<>>) /\ (conn' = "over" => missed')
  BY <1>1, <1>3 DEF TuiInv
<1> QED BY <1>1, <1>2, <1>4, <1>5, BatchApplied DEF Coming

LEMMA StreamIsOver == ASSUME TuiConstants, TuiInv, Tui!StreamEnds PROVE TuiInv'
<1>0. TuiTyped
  BY DEF TuiInv
<1>1. PICK gone \in BOOLEAN : gone = (stream # <<>>)
  OBVIOUS
<1>2. /\ stream' = <<>> /\ Tui!Flush(batch, gone) /\ conn' = (IF Tui!Thrown(batch) THEN "over" ELSE "down")
      /\ UNCHANGED <<now, server, sync>>
  BY <1>1 DEF Tui!StreamEnds, Tui!FlushInLoop
<1>3. batch \in Seq(ServerEvents) /\ stream \in Seq(ServerEvents) /\ stream' \in Seq(ServerEvents)
  BY <1>0, <1>2 DEF TuiTyped
<1>4. batch' = <<>> /\ (gone => missed') /\ (Tui!Thrown(batch) => missed')
  BY <1>2 DEF Tui!Flush
<1>5. ~missed' => Coming' = stream
  BY <1>1, <1>2, <1>3, <1>4, ConcatEmptySeq DEF Coming
<1>6. conn' \in {"up", "down", "over"} /\ (conn' = "over" => missed')
  BY <1>2, <1>4
<1> QED BY <1>1, <1>2, <1>3, <1>5, <1>6, BatchApplied DEF Coming

\* What leaves the events as they are.
LEMMA EventsStay ==
  ASSUME TuiInv, UNCHANGED <<now, server, stream, batch, timer, missed, overtaken>>, TuiTyped',
         (conn' = "down" => conn = "down") /\ (conn' = "over" => conn = "over"),
         TuiInStep => /\ sync'.at = "replied" => FitServer(Coming, sync'.reply, server, sync'.asOf)
                      /\ sync'.at = "done" => store' \in Stores /\ FitServer(Coming, store', server, 0)
  PROVE  TuiInv'
<1>1. Coming' = Coming
  BY DEF Coming
<1>2. ASSUME ~missed', ~overtaken' PROVE TuiInStep'
  <2>1. TuiInStep /\ TellServer(Coming, server)
    BY <1>2 DEF TuiInv, TuiInStep
  <2> QED BY <1>1, <2>1, NextInStep
<1> QED BY <1>2 DEF TuiInv

LEMMA NextTuiInv == ASSUME TuiConstants, TuiInv, [Tui!Next]_tuiVars PROVE TuiInv'
<1>0. TuiTyped
  BY DEF TuiInv
<1>1. ASSUME NEW m \in Messages, Tui!Update(m) PROVE TuiInv'
  BY <1>1, ServerWrites DEF Tui!Update
<1>2. ASSUME NEW m \in Messages, Tui!RemoveMessage(m) PROVE TuiInv'
  BY <1>2, ServerWrites DEF Tui!RemoveMessage
<1>3. CASE Tui!HandleEvent
  BY <1>3, EventHeard
<1>4. CASE Tui!StreamEnds
  BY <1>4, StreamIsOver
<1>5. CASE Tui!TimerFires
  BY <1>5, TimerApplies
<1>6. CASE Tui!Reconnect
  <2>1. conn' = "up" /\ UNCHANGED <<now, server, stream, batch, timer, store, sync, missed, overtaken>>
    BY <1>6 DEF Tui!Reconnect
  <2>2. TuiTyped'
    BY <1>0, <2>1 DEF TuiTyped, Stores, ServerEvents, Writes
  <2> QED BY <2>1, <2>2, EventsStay DEF TuiInStep
<1>7. CASE Tui!SyncAsk
  <2>1. sync' = [sync EXCEPT !.at = "asked"] /\ UNCHANGED <<now, server, stream, conn, batch, timer, store, missed, overtaken>>
    BY <1>7 DEF Tui!SyncAsk
  <2>2. TuiTyped' /\ sync'.at = "asked"
    BY <1>0, <2>1 DEF TuiTyped, Stores, ServerEvents, Writes
  <2> QED BY <2>1, <2>2, EventsStay
<1>8. CASE Tui!SyncReply
  <2>1. UNCHANGED <<now, server, stream, conn, batch, timer, store, missed, overtaken>>
    BY <1>8 DEF Tui!SyncReply
  <2>2. CASE sync' = [at |-> "replied", reply |-> server, asOf |-> now]
    <3>1. now \in Writes /\ now <= now
      BY <1>0 DEF TuiTyped, Writes, TuiConstants
    <3>2. TuiTyped'
      BY <1>0, <2>1, <2>2, <3>1 DEF TuiTyped, Stores, ServerEvents, Writes
    <3>3. FitServer(Coming, sync'.reply, server, sync'.asOf) /\ sync'.at = "replied"
      BY <2>2 DEF FitServer
    <3> QED BY <2>1, <3>2, <3>3, EventsStay
  <2>3. CASE sync' = [sync EXCEPT !.at = "none"]
    <3>1. TuiTyped' /\ sync'.at = "none"
      BY <1>0, <2>1, <2>3 DEF TuiTyped, Stores, ServerEvents, Writes
    <3> QED BY <2>1, <3>1, EventsStay
  <2> QED BY <1>8, <2>2, <2>3 DEF Tui!SyncReply
<1>9. CASE Tui!SyncApply
  <2>1. /\ sync.at = "replied" /\ store' = sync.reply /\ sync' = [sync EXCEPT !.at = "done"]
        /\ UNCHANGED <<now, server, stream, conn, batch, timer, missed, overtaken>>
    BY <1>9 DEF Tui!SyncApply
  <2>2. sync.reply \in Stores
    BY <1>0 DEF TuiTyped
  <2>3. TuiTyped' /\ sync'.at = "done"
    BY <1>0, <2>1, <2>2 DEF TuiTyped, Stores, ServerEvents, Writes
  <2>4. ASSUME TuiInStep PROVE FitServer(Coming, sync.reply, server, 0)
    <3>1. FitServer(Coming, sync.reply, server, sync.asOf)
      BY <2>1, <2>4 DEF TuiInStep
    <3>2. ASSUME NEW i \in 1..Len(Coming), Coming[i].write <= 0 PROVE Coming[i].write <= sync.asOf
      <4>1. Coming \in Seq(ServerEvents)
        BY <1>0, Joined DEF TuiTyped, Coming
      <4>2. Coming[i].write \in Nat /\ sync.asOf \in Nat
        <5>1. Coming[i] \in ServerEvents
          BY <4>1
        <5> QED BY <1>0, <5>1 DEF ServerEvents, TuiTyped, Writes, TuiConstants
      <4> QED BY <3>2, <4>2
    <3> QED BY <3>1, <3>2 DEF FitServer
  <2> QED BY <2>1, <2>2, <2>3, <2>4, EventsStay
<1>10. CASE UNCHANGED tuiVars
  <2>1. UNCHANGED <<now, server, stream, conn, batch, timer, store, sync, missed, overtaken>>
    BY <1>10 DEF tuiVars
  <2>2. TuiTyped'
    BY <1>0, <2>1 DEF TuiTyped, Stores, ServerEvents, Writes
  <2> QED BY <2>1, <2>2, EventsStay DEF TuiInStep
<1> QED BY <1>1, <1>2, <1>3, <1>4, <1>5, <1>6, <1>7, <1>8, <1>9, <1>10 DEF Tui!Next, Tui!GoesOn

LEMMA TuiInvShows == ASSUME TuiConstants, TuiInv PROVE Tui!TypeOK /\ Tui!ShowsServer
<1>0. TuiTyped
  BY DEF TuiInv
<1>1. Tui!TypeOK
  BY <1>0 DEF Tui!TypeOK, TuiTyped, Stores, Writes
<1>2. ASSUME sync.at = "done", stream = <<>>, batch = <<>>, ~missed, ~overtaken PROVE store = server
  <2>1. store \in Stores /\ FitServer(Coming, store, server, 0) /\ server \in Stores
    BY <1>0, <1>2 DEF TuiInv, TuiInStep, TuiTyped
  <2>2. Len(Coming) = 0
    <3>1. Len(batch) = 0 /\ Len(stream) = 0 /\ batch \in Seq(ServerEvents) /\ stream \in Seq(ServerEvents)
      BY <1>2
    <3> QED BY <3>1, Joined DEF Coming
  <2>3. \A m \in Messages : store[m] = server[m]
    BY <2>1, <2>2 DEF FitServer
  <2> QED BY <2>1, <2>3 DEF Stores
<1> QED BY <1>1, <1>2 DEF Tui!ShowsServer, Tui!Settled

\* cli/cmd/tui: when all events have come and a session is synced, the terminal client shows the
\* messages that the server has, if no event was lost with a connection or a batch and none
\* overtook the answer to sync.
THEOREM TerminalShowsServer == ASSUME TuiConstants PROVE Spec => []Tui!TypeOK /\ []Tui!ShowsServer
<1>1. Init => TuiInv
  BY InitTuiInv, Starts DEF PartsStart
<1>2. TuiInv /\ [Next]_vars => TuiInv'
  BY NextTuiInv, Steps DEF PartsStep
<1>3. TuiInv => Tui!TypeOK /\ Tui!ShowsServer
  BY TuiInvShows
<1> QED BY <1>1, <1>2, <1>3, PTL DEF Spec

-----------------------------------------------------------------------------
(* A session in a remote workspace *)

\* Nobody writes but the move while the session moves, and a request takes rows.
WorkspaceConstants == OneWriter = TRUE /\ BatchSize \in Nat \ {0}

LogEvents == [by : {"local", "remote", "other"}, n : Nat]
Posts == [seq : Nat, event : LogEvents]
LoopStates == {"none", "top", "connect", "history", "replay", "connected", "sleep", "ended"}
LoopRecords == [pc : LoopStates, aborted : BOOLEAN, asked : Nat, history : Seq(Posts), stream : Seq(Posts)]
RestoreRecords == [pc : {"none", "posting", "failed", "done"}, rows : Seq(Posts), at : Nat, tries : Nat]
ProxyRecords == [pc : {"none", "sent", "waiting", "passed", "failed"}, before : Nat, after : Nat, need : Nat]

WorkspaceTyped ==
    /\ log \in [Workspace!Devices -> Seq(LogEvents)]
    /\ moved \in BOOLEAN
    /\ restore \in RestoreRecords
    /\ loop \in [Loops -> LoopRecords]
    /\ removal \in {"no", "sessions", "stopped"}
    /\ proxied \in ProxyRecords

\* One log is how the other begins.
Follows(short, long) == Len(short) <= Len(long) /\ \A i \in 1..Len(short) : short[i] = long[i]

\* The log that the move posts.
Posted == [i \in 1..Len(restore.rows) |-> restore.rows[i].event]

\* Before a move one device has all; during one the remote log is how the posted one
\* begins; then the local log is how the remote one begins.
LogsGoOn ==
    /\ restore.pc = "none" =>
          \/ log.remote = <<>> /\ ~moved
          \/ log.remote # <<>> /\ log.remote[1].by # "local" /\ Follows(log.local, log.remote)
    /\ restore.pc \in {"posting", "failed"} =>
          /\ Follows(log.remote, Posted)
          /\ removal = "no" => moved /\ log.local = Posted
          /\ removal # "no" => Follows(log.local, log.remote)
    /\ restore.pc = "posting" => restore.at <= Len(log.remote) /\ restore.at < Len(restore.rows)
    /\ restore.pc = "done" => Follows(Posted, log.remote) /\ Follows(log.local, log.remote)
    /\ log.local # <<>> /\ ~moved => restore.pc = "none" /\ log.remote = <<>>
    /\ \A i \in 1..Len(restore.rows) : restore.rows[i].seq = i

\* What travels is an event of the remote log.
Names(m, remote) == m.seq \in 1..Len(remote) /\ m.event = remote[m.seq]

\* An event of the remote log is here, on its way, or of another process.
Comes(p, local, remote, i) ==
    \/ i <= Len(local)
    \/ \E k \in 1..Len(p.history) : p.history[k].seq = i
    \/ \E k \in 1..Len(p.stream) : p.stream[k].seq = i
    \/ \E j \in 1..i : remote[j].by = "other"

\* The history is a piece of the remote log, the stream goes through it in order, and
\* while the workspace is there nothing between the two is missed.
LoopIsFed(p, local, remote, here) ==
    /\ \A k \in 1..Len(p.stream) : Names(p.stream[k], remote)
    /\ \A j, k \in 1..Len(p.stream) : j < k => p.stream[j].seq < p.stream[k].seq
    /\ \A k \in 1..Len(p.history) : Names(p.history[k], remote) /\ p.history[k].seq = p.history[1].seq + k - 1
    /\ here /\ p.pc = "history" => p.asked <= Len(local)
    /\ p.pc = "connected" => p.history = <<>>
    /\ here /\ p.pc \in {"replay", "connected"} => \A i \in 1..Len(remote) : Comes(p, local, remote, i)

\* A fence names the remote log as it was.
FenceIsSet ==
    /\ proxied.pc \in {"waiting", "passed"} =>
          proxied.need = IF proxied.after = proxied.before THEN 0 ELSE proxied.after
    /\ proxied.pc = "passed" /\ removal = "no" => Len(log.local) >= proxied.need

WorkspaceInv ==
    /\ WorkspaceTyped /\ LogsGoOn /\ FenceIsSet
    /\ \A l \in Loops : LoopIsFed(loop[l], log.local, log.remote, removal = "no")

-----------------------------------------------------------------------------

LEMMA RowsAre ==
  ASSUME NEW s \in Seq(LogEvents), NEW first \in Nat \ {0}
  PROVE  /\ Workspace!Rows(s, first) \in Seq(Posts)
         /\ Len(Workspace!Rows(s, first)) = IF first <= Len(s) THEN Len(s) - first + 1 ELSE 0
         /\ \A i \in 1..Len(Workspace!Rows(s, first)) :
               /\ Workspace!Rows(s, first)[i].seq = first + i - 1
               /\ Workspace!Rows(s, first)[i].event = s[first + i - 1]
               /\ first + i - 1 \in 1..Len(s)
<1>1. PICK n \in Nat : n = Len(s)
  OBVIOUS
<1>2. PICK k \in Nat : k = IF first <= n THEN n - first + 1 ELSE 0
  <2>1. first <= n => n - first + 1 \in Nat
    OBVIOUS
  <2> QED BY <2>1
<1>3. 1..n - first + 1 = 1..k
  BY <1>2
<1>4. PICK r : r = [i \in 1..k |-> [seq |-> first + i - 1, event |-> s[first + i - 1]]]
  OBVIOUS
<1>5. Workspace!Rows(s, first) = r
  BY <1>1, <1>3, <1>4 DEF Workspace!Rows
<1>6. ASSUME NEW i \in 1..k
      PROVE  first + i - 1 \in 1..n /\ r[i] \in Posts /\ r[i].seq = first + i - 1 /\ r[i].event = s[first + i - 1]
  <2>1. first + i - 1 \in 1..n
    BY <1>2
  <2>2. s[first + i - 1] \in LogEvents
    BY <1>1, <2>1
  <2>3. r[i] = [seq |-> first + i - 1, event |-> s[first + i - 1]]
    BY <1>4
  <2> QED BY <2>1, <2>2, <2>3 DEF Posts
<1>7. r \in Seq(Posts) /\ Len(r) = k
  <2>1. r \in [1..k -> Posts]
    BY <1>4, <1>6
  <2> QED BY <2>1, SeqDef
<1> QED BY <1>1, <1>2, <1>5, <1>6, <1>7

Replays(f, s, ms, n) == f = [i \in 0..n |-> IF i = 0 THEN s ELSE Workspace!Replay(f[i - 1], ms[i])]

\* The logs between the events that are replayed.
LEMMA LogsBetween ==
  ASSUME NEW s, NEW ms, NEW n \in Nat
  PROVE  \E f : Replays(f, s, ms, n)
<1>. DEFINE Good == {k \in Nat : \E f : Replays(f, s, ms, k)}
<1>1. 0 \in Good
  <2>1. PICK f : f = [i \in 0..0 |-> s]
    OBVIOUS
  <2>2. f = [i \in 0..0 |-> IF i = 0 THEN s ELSE Workspace!Replay(f[i - 1], ms[i])]
    BY <2>1
  <2> QED BY <2>2 DEF Replays
<1>2. ASSUME NEW k \in Nat, k \in Good PROVE k + 1 \in Good
  <2>1. PICK f : Replays(f, s, ms, k)
    BY <1>2
  <2>2. PICK g : g = [i \in 0..k + 1 |-> IF i = 0 THEN s ELSE Workspace!Replay(f[i - 1], ms[i])]
    OBVIOUS
  <2>3. \A i \in 0..k : g[i] = f[i]
    BY <2>1, <2>2 DEF Replays
  <2>4. ASSUME NEW i \in 0..k + 1 PROVE g[i] = IF i = 0 THEN s ELSE Workspace!Replay(g[i - 1], ms[i])
    <3>1. g[i] = IF i = 0 THEN s ELSE Workspace!Replay(f[i - 1], ms[i])
      BY <2>2
    <3>2. i # 0 => i - 1 \in 0..k
      OBVIOUS
    <3>3. i # 0 => g[i - 1] = f[i - 1]
      BY <2>3, <3>2
    <3> QED BY <3>1, <3>3
  <2>5. g = [i \in 0..k + 1 |-> IF i = 0 THEN s ELSE Workspace!Replay(g[i - 1], ms[i])]
    <3>1. PICK h : h = [i \in 0..k + 1 |-> IF i = 0 THEN s ELSE Workspace!Replay(g[i - 1], ms[i])]
      OBVIOUS
    <3>2. DOMAIN g = 0..k + 1 /\ DOMAIN h = 0..k + 1 /\ \A i \in 0..k + 1 : g[i] = h[i]
      BY <2>2, <2>4, <3>1
    <3>3. g = [i \in 0..k + 1 |-> g[i]] /\ h = [i \in 0..k + 1 |-> h[i]]
      BY <2>2, <3>1
    <3>4. g = h
      BY <3>2, <3>3
    <3> QED BY <3>1, <3>4
  <2> QED BY <2>5 DEF Replays
<1>3. \A k \in Nat : k \in Good
  <2> HIDE DEF Good
  <2> QED BY <1>1, <1>2, Numbers!InductionOnNat
<1> QED BY <1>3

LEMMA ReplayAllIsLast ==
  ASSUME NEW s, NEW ms, Len(ms) \in Nat
  PROVE  \E f : Replays(f, s, ms, Len(ms)) /\ Workspace!ReplayAll(s, ms) = f[Len(ms)]
<1>1. \E f : Replays(f, s, ms, Len(ms))
  BY LogsBetween
<1>2. PICK f : f = CHOOSE g : Replays(g, s, ms, Len(ms))
  OBVIOUS
<1>3. Replays(f, s, ms, Len(ms))
  BY <1>1, <1>2, Zenon
<1>4. Workspace!ReplayAll(s, ms) = (CHOOSE g : Replays(g, s, ms, Len(ms)))[Len(ms)]
  BY DEF Workspace!ReplayAll, Replays
<1> QED BY <1>2, <1>3, <1>4

\* A piece of another log.
Piece(ms, first, long) ==
    \A k \in 1..Len(ms) : ms[k].seq = first + k - 1 /\ ms[k].seq \in 1..Len(long) /\ ms[k].event = long[ms[k].seq]

\* A piece that begins in a log, or where it ends, lengthens it by what it lacks; one
\* that begins later throws.
LEMMA ReplayAllLeaves ==
  ASSUME NEW s \in Seq(LogEvents), NEW long \in Seq(LogEvents), NEW ms \in Seq(Posts), NEW first \in Nat \ {0},
         Piece(ms, first, long)
  PROVE  LET next == Workspace!ReplayAll(s, ms)
             goes == first <= Len(s) + 1 /\ first + Len(ms) - 1 > Len(s)
         IN  /\ next \in Seq(LogEvents)
             /\ Len(next) = IF goes THEN first + Len(ms) - 1 ELSE Len(s)
             /\ \A i \in 1..Len(next) : next[i] = IF i <= Len(s) THEN s[i] ELSE long[i]
<1>n. PICK n \in Nat : n = Len(ms)
  OBVIOUS
<1>m. PICK m \in Nat : m = Len(s)
  OBVIOUS
<1>1. PICK f : Replays(f, s, ms, n) /\ Workspace!ReplayAll(s, ms) = f[n]
  BY <1>n, ReplayAllIsLast
<1>2. f[0] = s /\ \A i \in 1..n : f[i] = Workspace!Replay(f[i - 1], ms[i])
  BY <1>1 DEF Replays
<1> DEFINE Goes(k) == first <= m + 1 /\ first + k - 1 > m
           AfterPost(k) == /\ f[k] \in Seq(LogEvents)
                           /\ Len(f[k]) = IF Goes(k) THEN first + k - 1 ELSE m
                           /\ \A i \in 1..Len(f[k]) : f[k][i] = IF i <= m THEN s[i] ELSE long[i]
           Good == {k \in Nat : k <= n => AfterPost(k)}
<1>3. 0 \in Good
  BY <1>2, <1>m
<1>4. ASSUME NEW k \in Nat, k \in Good PROVE k + 1 \in Good
  <2>1. SUFFICES ASSUME k + 1 <= n PROVE AfterPost(k + 1)
    OBVIOUS
  <2>2. k + 1 \in 1..n /\ k + 1 - 1 = k /\ k <= n
    BY <2>1
  <2>3. AfterPost(k) /\ f[k + 1] = Workspace!Replay(f[k], ms[k + 1])
    BY <1>2, <1>4, <2>2
  <2>4. /\ ms[k + 1].seq = first + k /\ first + k \in 1..Len(long) /\ ms[k + 1].event = long[first + k]
        /\ ms[k + 1].event \in LogEvents
    <3>1. ms[k + 1].seq = first + (k + 1) - 1 /\ ms[k + 1].seq \in 1..Len(long) /\ ms[k + 1].event = long[ms[k + 1].seq]
      BY <1>n, <2>2 DEF Piece
    <3>2. first + (k + 1) - 1 = first + k
      OBVIOUS
    <3> QED BY <3>1, <3>2
  <2>5. PICK g \in Seq(LogEvents), len \in Nat : g = f[k] /\ len = Len(g)
    BY <2>3
  <2>6. len = (IF Goes(k) THEN first + k - 1 ELSE m) /\ \A i \in 1..len : g[i] = IF i <= m THEN s[i] ELSE long[i]
    BY <2>3, <2>5
  <2>7. CASE first + k = len + 1
    <3>1. f[k + 1] = Append(g, long[first + k])
      BY <2>3, <2>4, <2>5, <2>7 DEF Workspace!Replay
    <3>2. f[k + 1] \in Seq(LogEvents) /\ Len(f[k + 1]) = len + 1 /\ (\A i \in 1..len : f[k + 1][i] = g[i]) /\ f[k + 1][len + 1] = long[first + k]
      BY <2>4, <2>5, <3>1
    <3>3. len >= m /\ Goes(k + 1) /\ len + 1 = first + (k + 1) - 1
      BY <2>6, <2>7
    <3>4. ASSUME NEW i \in 1..len + 1 PROVE f[k + 1][i] = IF i <= m THEN s[i] ELSE long[i]
      <4>1. CASE i \in 1..len
        BY <2>6, <3>2, <4>1
      <4>2. CASE i = len + 1
        <5>1. i = first + k /\ ~(i <= m)
          BY <2>7, <3>3, <4>2
        <5> QED BY <3>2, <4>2, <5>1
      <4> QED BY <4>1, <4>2
    <3> QED BY <3>2, <3>3, <3>4
  <2>8. CASE first + k # len + 1
    <3>1. f[k + 1] = g
      BY <2>3, <2>4, <2>5, <2>8 DEF Workspace!Replay
    <3>2. len = m /\ ~Goes(k + 1)
      BY <2>6, <2>8
    <3> QED BY <2>5, <2>6, <3>1, <3>2
  <2> QED BY <2>7, <2>8
<1>5. n \in Good
  <2> HIDE DEF Good
  <2>1. Nat \subseteq Good
    BY <1>3, <1>4, Numbers!InductionOnNat
  <2> QED BY <2>1
<1>6. AfterPost(n)
  BY <1>5
<1> QED BY <1>1, <1>6, <1>n, <1>m

-----------------------------------------------------------------------------

LEMMA FollowsAppend ==
  ASSUME NEW s \in Seq(LogEvents), NEW t \in Seq(LogEvents), NEW e \in LogEvents, Follows(s, t)
  PROVE  Follows(s, Append(t, e))
BY DEF Follows

LEMMA FollowsOn ==
  ASSUME NEW s \in Seq(LogEvents), NEW t \in Seq(LogEvents), NEW u \in Seq(LogEvents), Follows(s, t), Follows(t, u)
  PROVE  Follows(s, u)
<1>1. PICK k \in Nat, m \in Nat, n \in Nat : k = Len(s) /\ m = Len(t) /\ n = Len(u)
  OBVIOUS
<1>2. k <= m /\ m <= n /\ (\A i \in 1..k : s[i] = t[i]) /\ \A i \in 1..m : t[i] = u[i]
  BY <1>1 DEF Follows
<1>3. ASSUME NEW i \in 1..k PROVE s[i] = u[i]
  <2>1. i \in 1..m
    BY <1>2
  <2> QED BY <1>2, <2>1
<1> QED BY <1>1, <1>2, <1>3 DEF Follows

LEMMA NamesStay ==
  ASSUME NEW m \in Posts, NEW r \in Seq(LogEvents), NEW t \in Seq(LogEvents), Follows(r, t), Names(m, r)
  PROVE  Names(m, t)
BY DEF Names, Follows

\* A loop that is told nothing misses nothing of what the log is longer by, when that is
\* here or another process's.
LEMMA LoopStays ==
  ASSUME NEW p \in LoopRecords, NEW q \in LoopRecords, NEW a \in Seq(LogEvents), NEW b \in Seq(LogEvents),
         NEW r \in Seq(LogEvents), NEW t \in Seq(LogEvents), NEW h \in BOOLEAN, NEW g \in BOOLEAN,
         LoopIsFed(p, a, r, h), Follows(r, t), g => h /\ Len(a) <= Len(b),
         q.pc = p.pc, q.asked = p.asked, q.history = p.history, q.stream = p.stream,
         g => \A i \in Len(r) + 1..Len(t) : i <= Len(b) \/ t[i].by = "other"
  PROVE  LoopIsFed(q, b, t, g)
<1>1. PICK la \in Nat, lb \in Nat, lr \in Nat, lt \in Nat : la = Len(a) /\ lb = Len(b) /\ lr = Len(r) /\ lt = Len(t)
  OBVIOUS
<1>2. p.stream \in Seq(Posts) /\ p.history \in Seq(Posts) /\ p.asked \in Nat
  BY DEF LoopRecords
<1>3. \A k \in 1..Len(q.stream) : Names(q.stream[k], t)
  <2>1. ASSUME NEW k \in 1..Len(p.stream) PROVE Names(p.stream[k], t)
    BY <1>2, NamesStay DEF LoopIsFed
  <2> QED BY <2>1
<1>4. \A k \in 1..Len(q.history) : Names(q.history[k], t) /\ q.history[k].seq = q.history[1].seq + k - 1
  <2>1. ASSUME NEW k \in 1..Len(p.history) PROVE Names(p.history[k], t)
    BY <1>2, NamesStay DEF LoopIsFed
  <2> QED BY <2>1 DEF LoopIsFed
<1>5. \A j, k \in 1..Len(q.stream) : j < k => q.stream[j].seq < q.stream[k].seq
  BY DEF LoopIsFed
<1>6. g /\ q.pc = "history" => q.asked <= Len(b)
  BY <1>1, <1>2 DEF LoopIsFed
<1>7. q.pc = "connected" => q.history = <<>>
  BY DEF LoopIsFed
<1>8. ASSUME g, q.pc \in {"replay", "connected"}, NEW i \in 1..lt PROVE Comes(q, b, t, i)
  <2>1. CASE i \in 1..lr
    <3>1. Comes(p, a, r, i)
      BY <1>1, <1>8, <2>1 DEF LoopIsFed
    <3>2. la <= lb
      BY <1>1, <1>8
    <3>3. ASSUME NEW j \in 1..i, r[j].by = "other" PROVE t[j].by = "other"
      <4>1. j \in 1..lr
        BY <2>1
      <4> QED BY <1>1, <3>3, <4>1 DEF Follows
    <3> QED BY <1>1, <3>1, <3>2, <3>3 DEF Comes
  <2>2. CASE i \in lr + 1..lt
    <3>1. i <= lb \/ t[i].by = "other"
      BY <1>1, <1>8, <2>2
    <3>2. i \in 1..i
      OBVIOUS
    <3> QED BY <1>1, <3>1, <3>2 DEF Comes
  <2> QED BY <2>1, <2>2
<1>9. g /\ q.pc \in {"replay", "connected"} => \A i \in 1..Len(t) : Comes(q, b, t, i)
  BY <1>1, <1>8
<1> QED BY <1>3, <1>4, <1>5, <1>6, <1>7, <1>9 DEF LoopIsFed

\* A loop whose stream is open is told of a new event.
LEMMA LoopTold ==
  ASSUME NEW p \in LoopRecords, NEW q \in LoopRecords, NEW a \in Seq(LogEvents), NEW r \in Seq(LogEvents),
         NEW e \in LogEvents, NEW h \in BOOLEAN, LoopIsFed(p, a, r, h),
         q.pc = p.pc, q.asked = p.asked, q.history = p.history,
         q.stream = Append(p.stream, [seq |-> Len(r) + 1, event |-> e])
  PROVE  LoopIsFed(q, a, Append(r, e), h)
<1>1. PICK lr \in Nat, n \in Nat, m \in Posts : lr = Len(r) /\ n = Len(p.stream) /\ m = [seq |-> lr + 1, event |-> e]
  <2>1. Len(r) \in Nat /\ Len(p.stream) \in Nat
    BY DEF LoopRecords
  <2>2. [seq |-> Len(r) + 1, event |-> e] \in Posts
    BY <2>1 DEF Posts
  <2> QED BY <2>1, <2>2
<1>2. p.stream \in Seq(Posts) /\ p.history \in Seq(Posts) /\ m \in Posts
  BY <1>1 DEF LoopRecords, Posts
<1>3. PICK t \in Seq(LogEvents) : t = Append(r, e)
  <2>1. Append(r, e) \in Seq(LogEvents)
    OBVIOUS
  <2> QED BY <2>1
<1>4. Len(t) = lr + 1 /\ t[lr + 1] = e /\ (\A i \in 1..lr : t[i] = r[i]) /\ Follows(r, t)
  BY <1>1, <1>3 DEF Follows
<1>5. /\ Len(q.stream) = n + 1 /\ q.stream[n + 1] = m
      /\ \A k \in 1..n : q.stream[k] = p.stream[k] /\ p.stream[k] \in Posts
  BY <1>1, <1>2
<1>6. \A k \in 1..n : Names(p.stream[k], r)
  BY <1>1 DEF LoopIsFed
<1>7. ASSUME NEW k \in 1..n + 1 PROVE Names(q.stream[k], t)
  <2>1. CASE k \in 1..n
    BY <1>4, <1>5, <1>6, <2>1, NamesStay
  <2>2. CASE k = n + 1
    BY <1>1, <1>4, <1>5, <2>2 DEF Names
  <2> QED BY <1>1, <2>1, <2>2
<1>8. ASSUME NEW k \in 1..Len(p.history) PROVE Names(p.history[k], t)
  <2>1. p.history[k] \in Posts /\ Names(p.history[k], r)
    BY <1>2 DEF LoopIsFed
  <2> QED BY <1>4, <2>1, NamesStay
<1>9. ASSUME NEW j \in 1..n + 1, NEW k \in 1..n + 1, j < k PROVE q.stream[j].seq < q.stream[k].seq
  <2>1. j \in 1..n /\ q.stream[j] = p.stream[j]
    BY <1>5, <1>9
  <2>2. CASE k \in 1..n
    <3>1. q.stream[k] = p.stream[k]
      BY <1>5, <2>2
    <3> QED BY <1>1, <1>9, <2>1, <2>2, <3>1 DEF LoopIsFed
  <2>3. CASE k = n + 1
    <3>1. q.stream[j].seq \in 1..lr /\ q.stream[k].seq = lr + 1
      BY <1>1, <1>5, <1>6, <2>1, <2>3 DEF Names
    <3> QED BY <1>1, <3>1
  <2> QED BY <1>1, <1>9, <2>2, <2>3
<1>10. ASSUME h, q.pc \in {"replay", "connected"}, NEW i \in 1..lr + 1 PROVE Comes(q, a, t, i)
  <2>1. CASE i \in 1..lr
    <3>1. Comes(p, a, r, i)
      BY <1>1, <1>10, <2>1 DEF LoopIsFed
    <3>2. ASSUME NEW k \in 1..n PROVE k \in 1..n + 1 /\ q.stream[k].seq = p.stream[k].seq
      BY <1>5
    <3>3. ASSUME NEW j \in 1..i PROVE t[j] = r[j]
      <4>1. j \in 1..lr
        BY <2>1
      <4> QED BY <1>4, <4>1
    <3> QED BY <1>1, <1>5, <3>1, <3>2, <3>3 DEF Comes
  <2>2. CASE i = lr + 1
    <3>1. n + 1 \in 1..n + 1 /\ q.stream[n + 1].seq = i
      BY <1>1, <1>5, <2>2
    <3> QED BY <1>5, <3>1 DEF Comes
  <2> QED BY <2>1, <2>2
<1>11. h /\ q.pc \in {"replay", "connected"} => \A i \in 1..Len(t) : Comes(q, a, t, i)
  BY <1>4, <1>10
<1>12. \A k \in 1..Len(q.stream) : Names(q.stream[k], t)
  BY <1>5, <1>7
<1>13. \A j, k \in 1..Len(q.stream) : j < k => q.stream[j].seq < q.stream[k].seq
  BY <1>5, <1>9
<1>14. \A k \in 1..Len(q.history) : Names(q.history[k], t) /\ q.history[k].seq = q.history[1].seq + k - 1
  BY <1>8 DEF LoopIsFed
<1> QED BY <1>3, <1>11, <1>12, <1>13, <1>14 DEF LoopIsFed

\* A loop that follows no stream.
LEMMA LoopElsewhere ==
  ASSUME NEW p \in LoopRecords, NEW q \in LoopRecords, NEW a \in Seq(LogEvents), NEW r \in Seq(LogEvents), NEW h \in BOOLEAN,
         LoopIsFed(p, a, r, h), q.pc \notin {"history", "replay", "connected"},
         q.stream \in {p.stream, <<>>}, q.history \in {p.history, <<>>}
  PROVE  LoopIsFed(q, a, r, h)
<1>1. Len(<<>>) = 0
  OBVIOUS
<1>2. \A k \in 1..Len(q.stream) : Names(q.stream[k], r)
  BY <1>1 DEF LoopIsFed
<1>3. \A j, k \in 1..Len(q.stream) : j < k => q.stream[j].seq < q.stream[k].seq
  BY <1>1 DEF LoopIsFed
<1>4. \A k \in 1..Len(q.history) : Names(q.history[k], r) /\ q.history[k].seq = q.history[1].seq + k - 1
  BY <1>1 DEF LoopIsFed
<1> QED BY <1>2, <1>3, <1>4 DEF LoopIsFed

-----------------------------------------------------------------------------

LoopsAreFed == \A l \in Loops : LoopIsFed(loop[l], log.local, log.remote, removal = "no")

LEMMA LogsAreLogs ==
  ASSUME WorkspaceTyped
  PROVE  log.local \in Seq(LogEvents) /\ log.remote \in Seq(LogEvents)
BY DEF WorkspaceTyped, Workspace!Devices

\* What a step does that tells no loop anything.
LEMMA LoopsStay ==
  ASSUME WorkspaceTyped, LoopsAreFed, log' \in [Workspace!Devices -> Seq(LogEvents)], loop' \in [Loops -> LoopRecords],
         \A l \in Loops : /\ loop'[l].pc = loop[l].pc /\ loop'[l].asked = loop[l].asked
                          /\ loop'[l].history = loop[l].history /\ loop'[l].stream = loop[l].stream,
         Follows(log.remote, log'.remote),
         removal' = "no" => removal = "no" /\ Len(log.local) <= Len(log'.local),
         removal' = "no" => \A i \in Len(log.remote) + 1..Len(log'.remote) :
                               i <= Len(log'.local) \/ log'.remote[i].by = "other"
  PROVE  LoopsAreFed'
<1>1. log.local \in Seq(LogEvents) /\ log.remote \in Seq(LogEvents) /\ log'.local \in Seq(LogEvents) /\ log'.remote \in Seq(LogEvents)
  BY LogsAreLogs DEF Workspace!Devices
<1>2. ASSUME NEW l \in Loops PROVE LoopIsFed(loop'[l], log'.local, log'.remote, removal' = "no")
  <2>1. loop[l] \in LoopRecords /\ loop'[l] \in LoopRecords
    BY DEF WorkspaceTyped
  <2>2. PICK h \in BOOLEAN, g \in BOOLEAN : h = (removal = "no") /\ g = (removal' = "no")
    OBVIOUS
  <2>3. LoopIsFed(loop[l], log.local, log.remote, h)
    BY <2>2 DEF LoopsAreFed
  <2>4. /\ g => h /\ Len(log.local) <= Len(log'.local)
        /\ g => \A i \in Len(log.remote) + 1..Len(log'.remote) : i <= Len(log'.local) \/ log'.remote[i].by = "other"
    BY <2>2
  <2>5. PICK p \in LoopRecords, q \in LoopRecords : p = loop[l] /\ q = loop'[l]
    BY <2>1
  <2>6. q.pc = p.pc /\ q.asked = p.asked /\ q.history = p.history /\ q.stream = p.stream
    BY <2>5
  <2>7. PICK a \in Seq(LogEvents), b \in Seq(LogEvents), r \in Seq(LogEvents), t \in Seq(LogEvents) :
          a = log.local /\ b = log'.local /\ r = log.remote /\ t = log'.remote
    BY <1>1
  <2>8. LoopIsFed(p, a, r, h) /\ Follows(r, t)
    BY <2>3, <2>5, <2>7
  <2>9. g => h /\ Len(a) <= Len(b)
    BY <2>4, <2>7
  <2>10. g => \A i \in Len(r) + 1..Len(t) : i <= Len(b) \/ t[i].by = "other"
    BY <2>4, <2>7
  <2>11. LoopIsFed(q, b, t, g)
    BY <2>6, <2>8, <2>9, <2>10, LoopStays
  <2> QED BY <2>2, <2>5, <2>7, <2>11
<1> QED BY <1>2 DEF LoopsAreFed

\* Without an event the loops are where they were.
LEMMA LoopsKept ==
  ASSUME WorkspaceTyped, LoopsAreFed, UNCHANGED <<log, loop, removal>>
  PROVE  LoopsAreFed'
BY DEF LoopsAreFed

\* One loop goes on.
LEMMA OneLoopGoesOn ==
  ASSUME WorkspaceTyped, LoopsAreFed, UNCHANGED <<log, removal>>, NEW l \in Loops,
         NEW q, loop' = [loop EXCEPT ![l] = q], LoopIsFed(q, log.local, log.remote, removal = "no")
  PROVE  LoopsAreFed'
<1>1. ASSUME NEW k \in Loops PROVE LoopIsFed(loop'[k], log.local, log.remote, removal = "no")
  <2>1. loop \in [Loops -> LoopRecords]
    BY DEF WorkspaceTyped
  <2>2. CASE k = l
    BY <2>1, <2>2
  <2>3. CASE k # l
    BY <2>1, <2>3 DEF LoopsAreFed
  <2> QED BY <2>2, <2>3
<1> QED BY <1>1 DEF LoopsAreFed

LEMMA LogsKept ==
  ASSUME LogsGoOn, UNCHANGED <<log, moved, restore>>, removal' = removal
  PROVE  LogsGoOn'
BY DEF LogsGoOn, Posted

LEMMA FenceKept ==
  ASSUME WorkspaceTyped, WorkspaceTyped', FenceIsSet, UNCHANGED proxied,
         removal' = "no" => removal = "no" /\ Len(log.local) <= Len(log'.local)
  PROVE  FenceIsSet'
<1>1. log.local \in Seq(LogEvents) /\ log'.local \in Seq(LogEvents)
  BY LogsAreLogs DEF WorkspaceTyped, Workspace!Devices
<1>2. PICK m \in Nat, n \in Nat : m = Len(log.local) /\ n = Len(log'.local)
  BY <1>1
<1>3. proxied.need \in Nat
  BY DEF WorkspaceTyped, ProxyRecords
<1> QED BY <1>2, <1>3 DEF FenceIsSet

LEMMA MadeIsNumber ==
  ASSUME WorkspaceTyped, NEW d \in {"local", "remote", "other"}
  PROVE  Workspace!NewEvent(d) \in LogEvents /\ Workspace!NewEvent(d).by = d
<1>1. Workspace!Made \in Nat
  BY LogsAreLogs DEF Workspace!Made
<1> QED BY <1>1 DEF Workspace!NewEvent, LogEvents

LEMMA PostedIsLog ==
  ASSUME WorkspaceTyped
  PROVE  /\ Posted \in Seq(LogEvents) /\ Len(Posted) = Len(restore.rows) /\ Len(Posted) \in Nat
         /\ \A i \in 1..Len(Posted) : Posted[i] = restore.rows[i].event
<1>1. restore.rows \in Seq(Posts)
  BY DEF WorkspaceTyped, RestoreRecords
<1>2. ASSUME NEW i \in 1..Len(restore.rows) PROVE restore.rows[i].event \in LogEvents
  <2>1. restore.rows[i] \in Posts
    BY <1>1
  <2> QED BY <2>1 DEF Posts
<1>3. PICK n \in Nat : n = Len(restore.rows)
  BY <1>1
<1>4. Posted \in [1..n -> LogEvents] /\ \A i \in 1..n : Posted[i] = restore.rows[i].event
  BY <1>2, <1>3 DEF Posted
<1> QED BY <1>3, <1>4, SeqDef

\* What both of the remote device's writers do to the logs.
LEMMA RemoteRuns ==
  ASSUME WorkspaceTyped, LogsGoOn, NEW e \in LogEvents, log.remote # <<>>, restore.pc \notin {"posting", "failed"},
         log' = [log EXCEPT !.remote = Append(@, e)], UNCHANGED <<moved, restore, removal>>
  PROVE  /\ log' \in [Workspace!Devices -> Seq(LogEvents)]
         /\ log'.local = log.local /\ log'.remote = Append(log.remote, e)
         /\ Follows(log.remote, log'.remote) /\ LogsGoOn'
<1>1. log.local \in Seq(LogEvents) /\ log.remote \in Seq(LogEvents)
  BY LogsAreLogs
<1>2. log'.local = log.local /\ log'.remote = Append(log.remote, e) /\ log' \in [Workspace!Devices -> Seq(LogEvents)]
  <2>1. Append(log.remote, e) \in Seq(LogEvents)
    BY <1>1
  <2>2. log \in [{"local", "remote"} -> Seq(LogEvents)]
    BY DEF WorkspaceTyped, Workspace!Devices
  <2> QED BY <2>1, <2>2 DEF Workspace!Devices
<1>3. log'.remote # <<>> /\ log'.remote[1] = log.remote[1] /\ Follows(log.remote, log'.remote)
  <2>1. Len(log.remote) \in Nat \ {0}
    BY <1>1
  <2> QED BY <1>1, <1>2, <2>1 DEF Follows
<1>4. Follows(log.local, log.remote) => Follows(log'.local, log'.remote)
  BY <1>1, <1>2, FollowsAppend
<1>5. Follows(Posted, log.remote) => Follows(Posted', log'.remote)
  <2>1. Posted' = Posted
    BY DEF Posted
  <2>2. Posted \in Seq(LogEvents)
    BY PostedIsLog
  <2> QED BY <1>1, <1>2, <2>1, <2>2, FollowsAppend
<1>6. restore.pc \in {"none", "done"}
  BY DEF WorkspaceTyped, RestoreRecords
<1> QED BY <1>2, <1>3, <1>4, <1>5, <1>6 DEF LogsGoOn

LEMMA RunRemoteKeeps == ASSUME WorkspaceConstants, WorkspaceInv, Workspace!RunRemote PROVE WorkspaceInv'
<1>1. WorkspaceTyped /\ LogsGoOn /\ FenceIsSet /\ LoopsAreFed
  BY DEF WorkspaceInv, LoopsAreFed
<1>2. PICK e \in LogEvents : e = Workspace!NewEvent("remote")
  BY <1>1, MadeIsNumber
<1>3. PICK m : m = [seq |-> Len(log.remote) + 1, event |-> e]
  OBVIOUS
<1>4. log.local \in Seq(LogEvents) /\ log.remote \in Seq(LogEvents)
  BY <1>1, LogsAreLogs
<1>5. m \in Posts
  BY <1>3, <1>4 DEF Posts
<1>6. /\ log.remote # <<>> /\ restore.pc \notin {"posting", "failed"}
      /\ log' = [log EXCEPT !.remote = Append(@, e)]
      /\ loop' = [l \in Loops |-> IF Workspace!HasStream(l) THEN [loop[l] EXCEPT !.stream = Append(@, m)] ELSE loop[l]]
      /\ UNCHANGED <<moved, restore, removal, proxied>>
  BY <1>2, <1>3 DEF Workspace!RunRemote, Workspace!Publish, WorkspaceConstants
<1>7. /\ log' \in [Workspace!Devices -> Seq(LogEvents)] /\ log'.local = log.local
      /\ log'.remote = Append(log.remote, e) /\ Follows(log.remote, log'.remote) /\ LogsGoOn'
  BY <1>1, <1>6, RemoteRuns
<1>8. ASSUME NEW l \in Loops
      PROVE  loop'[l] \in LoopRecords /\ LoopIsFed(loop'[l], log.local, log'.remote, removal = "no")
  <2>1. PICK p \in LoopRecords, h \in BOOLEAN : p = loop[l] /\ h = (removal = "no")
    BY <1>1 DEF WorkspaceTyped
  <2>2. LoopIsFed(p, log.local, log.remote, h)
    BY <1>1, <2>1 DEF LoopsAreFed
  <2>3. CASE Workspace!HasStream(l)
    <3>1. loop'[l] = [p EXCEPT !.stream = Append(@, m)]
      BY <1>6, <2>1, <2>3
    <3>2. Append(p.stream, m) \in Seq(Posts)
      BY <1>5 DEF LoopRecords
    <3>3. PICK q \in LoopRecords : q = loop'[l] /\ q.pc = p.pc /\ q.asked = p.asked /\ q.history = p.history /\ q.stream = Append(p.stream, m)
      BY <3>1, <3>2 DEF LoopRecords
    <3>4. LoopIsFed(q, log.local, Append(log.remote, e), h)
      BY <1>3, <1>4, <2>2, <3>3, LoopTold
    <3> QED BY <1>7, <2>1, <3>3, <3>4
  <2>4. CASE ~Workspace!HasStream(l)
    <3>1. loop'[l] = p /\ p.pc \notin {"history", "replay", "connected"}
      BY <1>6, <2>1, <2>4 DEF Workspace!HasStream
    <3>2. PICK t \in Seq(LogEvents) : t = log'.remote
      BY <1>7 DEF Workspace!Devices
    <3>3. LoopIsFed(p, log.local, log.remote, FALSE)
      BY <2>2 DEF LoopIsFed
    <3>4. LoopIsFed(p, log.local, t, FALSE)
      BY <1>4, <1>7, <3>2, <3>3, LoopStays
    <3>5. LoopIsFed(p, log.local, t, h)
      BY <3>1, <3>4 DEF LoopIsFed
    <3> QED BY <2>1, <3>1, <3>2, <3>5
  <2> QED BY <2>3, <2>4
<1>9. LoopsAreFed'
  BY <1>6, <1>7, <1>8 DEF LoopsAreFed
<1>10. WorkspaceTyped'
  <2>1. loop' \in [Loops -> LoopRecords]
    BY <1>6, <1>8
  <2> QED BY <1>1, <1>6, <1>7, <2>1 DEF WorkspaceTyped
<1>11. FenceIsSet'
  BY <1>1, <1>4, <1>6, <1>7, <1>10, FenceKept
<1> QED BY <1>7, <1>9, <1>10, <1>11 DEF WorkspaceInv, LoopsAreFed

LEMMA RunUnpublishedKeeps == ASSUME WorkspaceConstants, WorkspaceInv, Workspace!RunUnpublished PROVE WorkspaceInv'
<1>1. WorkspaceTyped /\ LogsGoOn /\ FenceIsSet /\ LoopsAreFed
  BY DEF WorkspaceInv, LoopsAreFed
<1>2. PICK e \in LogEvents : e = Workspace!NewEvent("other") /\ e.by = "other"
  BY <1>1, MadeIsNumber
<1>3. log.local \in Seq(LogEvents) /\ log.remote \in Seq(LogEvents)
  BY <1>1, LogsAreLogs
<1>4. /\ log.remote # <<>> /\ restore.pc \notin {"posting", "failed"}
      /\ log' = [log EXCEPT !.remote = Append(@, e)]
      /\ UNCHANGED <<moved, restore, loop, removal, proxied>>
  BY <1>2 DEF Workspace!RunUnpublished, WorkspaceConstants
<1>5. /\ log' \in [Workspace!Devices -> Seq(LogEvents)] /\ log'.local = log.local
      /\ log'.remote = Append(log.remote, e) /\ Follows(log.remote, log'.remote) /\ LogsGoOn'
  BY <1>1, <1>4, RemoteRuns
<1>6. WorkspaceTyped'
  BY <1>1, <1>4, <1>5 DEF WorkspaceTyped
<1>7. ASSUME NEW i \in Len(log.remote) + 1..Len(log'.remote) PROVE log'.remote[i].by = "other"
  <2>1. i = Len(log.remote) + 1
    BY <1>3, <1>5
  <2> QED BY <1>2, <1>3, <1>5, <2>1
<1>8. loop' \in [Loops -> LoopRecords] /\ Len(log.local) <= Len(log'.local)
  BY <1>1, <1>3, <1>4, <1>5 DEF WorkspaceTyped
<1>9. LoopsAreFed'
  BY <1>1, <1>4, <1>5, <1>7, <1>8, LoopsStay
<1>10. FenceIsSet'
  BY <1>1, <1>3, <1>4, <1>5, <1>6, FenceKept
<1> QED BY <1>5, <1>6, <1>9, <1>10 DEF WorkspaceInv, LoopsAreFed

LEMMA RunLocalKeeps == ASSUME WorkspaceConstants, WorkspaceInv, Workspace!RunLocal PROVE WorkspaceInv'
<1>1. WorkspaceTyped /\ LogsGoOn /\ FenceIsSet /\ LoopsAreFed
  BY DEF WorkspaceInv, LoopsAreFed
<1>2. PICK e \in LogEvents : e = Workspace!NewEvent("local")
  BY <1>1, MadeIsNumber
<1>3. log.local \in Seq(LogEvents) /\ log.remote \in Seq(LogEvents)
  BY <1>1, LogsAreLogs
<1>4. /\ log.local # <<>> /\ ~moved /\ log' = [log EXCEPT !.local = Append(@, e)]
      /\ UNCHANGED <<moved, restore, loop, removal, proxied>>
  BY <1>2 DEF Workspace!RunLocal, WorkspaceConstants
<1>5. restore.pc = "none" /\ log.remote = <<>>
  BY <1>1, <1>4 DEF LogsGoOn
<1>6. log' \in [Workspace!Devices -> Seq(LogEvents)] /\ log'.local = Append(log.local, e) /\ log'.remote = log.remote
  <2>1. Append(log.local, e) \in Seq(LogEvents)
    BY <1>3
  <2>2. log \in [{"local", "remote"} -> Seq(LogEvents)]
    BY <1>1 DEF WorkspaceTyped, Workspace!Devices
  <2> QED BY <1>4, <2>1, <2>2 DEF Workspace!Devices
<1>7. WorkspaceTyped'
  BY <1>1, <1>4, <1>6 DEF WorkspaceTyped
<1>8. LogsGoOn'
  BY <1>1, <1>4, <1>5, <1>6 DEF LogsGoOn
<1>9. /\ loop' \in [Loops -> LoopRecords] /\ Len(log.local) <= Len(log'.local) /\ Follows(log.remote, log'.remote)
      /\ \A i \in Len(log.remote) + 1..Len(log'.remote) : FALSE
  BY <1>1, <1>3, <1>4, <1>6 DEF WorkspaceTyped, Follows
<1>10. LoopsAreFed'
  BY <1>1, <1>4, <1>6, <1>9, LoopsStay
<1>11. FenceIsSet'
  BY <1>1, <1>4, <1>7, <1>9, FenceKept
<1> QED BY <1>7, <1>8, <1>10, <1>11 DEF WorkspaceInv, LoopsAreFed

LEMMA RestoreStartKeeps == ASSUME WorkspaceConstants, WorkspaceInv, Workspace!RestoreStart PROVE WorkspaceInv'
<1>1. WorkspaceTyped /\ LogsGoOn /\ FenceIsSet /\ LoopsAreFed
  BY DEF WorkspaceInv, LoopsAreFed
<1>2. PICK e \in LogEvents : e = Workspace!NewEvent("local")
  BY <1>1, MadeIsNumber
<1>3. log.local \in Seq(LogEvents) /\ log.remote \in Seq(LogEvents)
  BY <1>1, LogsAreLogs
<1>4. PICK s \in Seq(LogEvents) : s = Append(log.local, e)
  <2>1. Append(log.local, e) \in Seq(LogEvents)
    BY <1>3
  <2> QED BY <2>1
<1>5. /\ restore.pc \in {"none", "failed"} /\ removal = "no" /\ log.local # <<>> /\ Head(log.local).by = "local"
      /\ log' = [log EXCEPT !.local = s] /\ moved' = TRUE
      /\ restore' = [pc |-> "posting", rows |-> Workspace!Rows(s, 1), at |-> 0, tries |-> restore.tries + 1]
      /\ UNCHANGED <<loop, removal, proxied>>
  BY <1>2, <1>4 DEF Workspace!RestoreStart
<1>6. log' \in [Workspace!Devices -> Seq(LogEvents)] /\ log'.local = s /\ log'.remote = log.remote
  BY <1>1, <1>4, <1>5 DEF WorkspaceTyped, Workspace!Devices
<1>7. PICK rs : rs = Workspace!Rows(s, 1)
  OBVIOUS
<1>8. PICK n \in Nat : n = Len(log.local)
  BY <1>3
<1>9. Len(s) = n + 1 /\ (\A i \in 1..n : s[i] = log.local[i]) /\ n # 0 /\ log.local[1].by = "local"
  BY <1>3, <1>4, <1>5, <1>8
<1>10. rs \in Seq(Posts) /\ Len(rs) = n + 1 /\ \A i \in 1..n + 1 : rs[i].seq = i /\ rs[i].event = s[i]
  <2>1. rs \in Seq(Posts) /\ Len(rs) = n + 1
    BY <1>7, <1>9, RowsAre
  <2>2. ASSUME NEW i \in 1..n + 1 PROVE rs[i].seq = i /\ rs[i].event = s[i]
    <3>1. rs[i].seq = 1 + i - 1 /\ rs[i].event = s[1 + i - 1]
      BY <1>7, <2>1, RowsAre
    <3>2. 1 + i - 1 = i
      OBVIOUS
    <3> QED BY <3>1, <3>2
  <2> QED BY <2>1, <2>2
<1>11. WorkspaceTyped'
  <2>1. restore.tries + 1 \in Nat
    BY <1>1 DEF WorkspaceTyped, RestoreRecords
  <2>2. restore' = [pc |-> "posting", rows |-> rs, at |-> 0, tries |-> restore.tries + 1]
    BY <1>5, <1>7
  <2>3. restore' \in RestoreRecords
    BY <1>10, <2>1, <2>2 DEF RestoreRecords
  <2> QED BY <1>1, <1>5, <1>6, <2>3 DEF WorkspaceTyped
<1>12. Posted' = s
  <2>1. Posted' = [i \in 1..n + 1 |-> rs[i].event]
    BY <1>5, <1>7, <1>10 DEF Posted
  <2>2. DOMAIN s = 1..n + 1 /\ s = [i \in 1..n + 1 |-> s[i]]
    BY <1>9
  <2>3. Posted' = [i \in 1..n + 1 |-> s[i]]
    BY <1>10, <2>1
  <2> QED BY <2>2, <2>3
<1>13. Follows(log.remote, s)
  <2>1. CASE restore.pc = "none" /\ log.remote = <<>>
    BY <1>9, <2>1 DEF Follows
  <2>2. CASE restore.pc = "none" /\ log.remote # <<>>
    <3>1. log.remote[1].by # "local" /\ n <= Len(log.remote) /\ \A i \in 1..n : log.local[i] = log.remote[i]
      BY <1>1, <1>8, <2>2 DEF LogsGoOn, Follows
    <3>2. 1 \in 1..n
      BY <1>9
    <3> QED BY <1>9, <3>1, <3>2
  <2>3. CASE restore.pc = "failed"
    <3>1. Follows(log.remote, log.local)
      BY <1>1, <1>5, <2>3 DEF LogsGoOn
    <3> QED BY <1>3, <1>4, <3>1, FollowsAppend
  <2> QED BY <1>5, <2>1, <2>2, <2>3
<1>14. LogsGoOn'
  <2>1. /\ restore'.pc = "posting" /\ restore'.rows = rs /\ restore'.at = 0
        /\ log'.local = Posted' /\ moved' /\ removal' = "no"
    BY <1>5, <1>6, <1>7, <1>12
  <2>2. Follows(log'.remote, Posted')
    BY <1>6, <1>12, <1>13
  <2>3. restore'.at <= Len(log'.remote) /\ restore'.at < Len(restore'.rows)
    BY <1>3, <1>6, <1>10, <2>1
  <2>4. \A i \in 1..Len(restore'.rows) : restore'.rows[i].seq = i
    BY <1>10, <2>1
  <2> QED BY <2>1, <2>2, <2>3, <2>4 DEF LogsGoOn
<1>15. /\ loop' \in [Loops -> LoopRecords] /\ Len(log.local) <= Len(log'.local) /\ Follows(log.remote, log'.remote)
       /\ \A i \in Len(log.remote) + 1..Len(log'.remote) : FALSE
  BY <1>1, <1>3, <1>5, <1>6, <1>8, <1>9 DEF WorkspaceTyped, Follows
<1>16. LoopsAreFed'
  BY <1>1, <1>5, <1>6, <1>15, LoopsStay
<1>17. FenceIsSet'
  BY <1>1, <1>5, <1>11, <1>15, FenceKept
<1> QED BY <1>11, <1>14, <1>16, <1>17 DEF WorkspaceInv, LoopsAreFed

\* A batch that arrives lengthens the remote log by the rows it lacks.
LEMMA BatchArrives ==
  ASSUME WorkspaceConstants, WorkspaceTyped, LogsGoOn, restore.pc = "posting",
         NEW next, next = Workspace!ReplayAll(log.remote, Workspace!Batch)
  PROVE  /\ next \in Seq(LogEvents) /\ Follows(log.remote, next) /\ Follows(next, Posted)
         /\ Len(Workspace!Batch) \in Nat /\ Len(Workspace!Batch) # 0
         /\ restore.at + Len(Workspace!Batch) <= Len(next) /\ restore.at + Len(Workspace!Batch) <= Len(restore.rows)
         /\ ~Workspace!Throws(log.remote, Workspace!Batch)
<1>1. log.remote \in Seq(LogEvents) /\ restore.rows \in Seq(Posts) /\ restore.at \in Nat
  BY LogsAreLogs DEF WorkspaceTyped, RestoreRecords
<1>2. PICK n \in Nat, j \in Nat, m \in Nat : n = Len(restore.rows) /\ j = restore.at /\ m = Len(log.remote)
  BY <1>1
<1>3. j <= m /\ j < n /\ m <= n /\ Follows(log.remote, Posted) /\ \A i \in 1..n : restore.rows[i].seq = i
  BY <1>2, PostedIsLog DEF LogsGoOn, Follows
<1>4. PICK k \in Nat : k = (IF n - j < BatchSize THEN n - j ELSE BatchSize) /\ k # 0 /\ j + k <= n
  <2>1. (IF n - j < BatchSize THEN n - j ELSE BatchSize) \in Nat \ {0}
    BY <1>3 DEF WorkspaceConstants
  <2> QED BY <1>3, <2>1 DEF WorkspaceConstants
<1>5. PICK b : b = Workspace!Batch
  OBVIOUS
<1>6. b = SubSeq(restore.rows, j + 1, j + k)
  BY <1>2, <1>4, <1>5 DEF Workspace!Batch
<1>7. b \in Seq(Posts) /\ Len(b) = k /\ \A i \in 1..k : b[i] = restore.rows[j + i]
  <2>1. j + 1 \in 1..n /\ j + k \in 1..n
    BY <1>3, <1>4
  <2>2. \A i \in j + 1..j + k : i \in 1..n /\ restore.rows[i] \in Posts
    BY <1>1, <1>2, <2>1
  <2>. DEFINE lo == j + 1
              hi == j + k
  <2>3. lo \in Int /\ hi \in Int /\ lo <= hi /\ b = SubSeq(restore.rows, lo, hi) /\ \A i \in lo..hi : restore.rows[i] \in Posts
    BY <1>4, <1>6, <2>2
  <2>4. b \in Seq(Posts) /\ Len(b) = hi - lo + 1 /\ \A i \in 1..hi - lo + 1 : b[i] = restore.rows[lo + i - 1]
    <3> HIDE DEF lo, hi
    <3> QED BY <2>3, SubSeqProperties
  <2>5. b \in Seq(Posts)
    BY <2>4
  <2>6. Len(b) = (j + k) - (j + 1) + 1 /\ \A i \in 1..(j + k) - (j + 1) + 1 : b[i] = restore.rows[(j + 1) + i - 1]
    BY <2>4
  <2>7. (j + k) - (j + 1) + 1 = k /\ \A i \in 1..k : (j + 1) + i - 1 = j + i
    OBVIOUS
  <2> QED BY <2>5, <2>6, <2>7
<1>8. PICK s \in Seq(LogEvents) : s = Posted /\ Len(s) = n /\ \A i \in 1..n : s[i] = restore.rows[i].event
  BY <1>2, PostedIsLog
<1>9. Piece(b, j + 1, s)
  <2>1. ASSUME NEW i \in 1..k PROVE b[i].seq = j + i /\ j + i \in 1..n /\ b[i].event = s[j + i]
    <3>1. j + i \in 1..n
      BY <1>4
    <3> QED BY <1>3, <1>7, <1>8, <3>1
  <2>2. \A i \in 1..k : (j + 1) + i - 1 = j + i
    OBVIOUS
  <2> QED BY <1>7, <1>8, <2>1, <2>2 DEF Piece
<1>10. /\ next \in Seq(LogEvents)
       /\ Len(next) = (IF (j + 1) + k - 1 > m THEN (j + 1) + k - 1 ELSE m)
       /\ \A i \in 1..Len(next) : next[i] = IF i <= m THEN log.remote[i] ELSE s[i]
  <2>1. j + 1 \in Nat \ {0} /\ j + 1 <= m + 1
    BY <1>3
  <2>2. next = Workspace!ReplayAll(log.remote, b)
    BY <1>5
  <2>3. PICK f \in Nat \ {0}, t \in Seq(LogEvents) : f = j + 1 /\ t = log.remote
    BY <1>1, <2>1
  <2>4. Piece(b, f, s) /\ b \in Seq(Posts) /\ next = Workspace!ReplayAll(t, b)
    BY <1>7, <1>9, <2>2, <2>3
  <2>5. /\ next \in Seq(LogEvents)
        /\ Len(next) = (IF f <= Len(t) + 1 /\ f + Len(b) - 1 > Len(t) THEN f + Len(b) - 1 ELSE Len(t))
        /\ \A i \in 1..Len(next) : next[i] = IF i <= Len(t) THEN t[i] ELSE s[i]
    BY <2>4, ReplayAllLeaves
  <2> QED BY <1>2, <1>7, <2>1, <2>3, <2>5
<1>11. PICK len \in Nat : len = Len(next) /\ len = (IF j + k > m THEN j + k ELSE m)
  <2>1. (j + 1) + k - 1 = j + k
    OBVIOUS
  <2> QED BY <1>10, <2>1
<1>12. m <= len /\ len <= n /\ j + k <= len
  BY <1>3, <1>4, <1>11
<1>13. Follows(log.remote, next)
  BY <1>2, <1>10, <1>11, <1>12 DEF Follows
<1>14. ASSUME NEW i \in 1..len PROVE next[i] = s[i]
  <2>1. CASE i <= m
    <3>1. i \in 1..m
      BY <2>1
    <3> QED BY <1>2, <1>3, <1>8, <1>10, <1>11, <2>1, <3>1 DEF Follows
  <2>2. CASE ~(i <= m)
    BY <1>10, <1>11, <2>2
  <2> QED BY <2>1, <2>2
<1>15. Follows(next, Posted)
  BY <1>8, <1>11, <1>12, <1>14 DEF Follows
<1>16. ~Workspace!Throws(log.remote, b)
  <2>1. Head(b).seq = j + 1
    <3>1. 1 \in 1..k /\ Head(b) = b[1]
      BY <1>4, <1>7
    <3>2. b[1] = restore.rows[j + 1] /\ j + 1 \in 1..n
      BY <1>3, <1>7, <3>1
    <3> QED BY <1>3, <3>1, <3>2
  <2> QED BY <1>2, <1>3, <2>1 DEF Workspace!Throws
<1> QED BY <1>2, <1>4, <1>5, <1>7, <1>10, <1>11, <1>12, <1>13, <1>15, <1>16

\* What is posted is here already, while the workspace is.
LEMMA PostedKeeps ==
  ASSUME WorkspaceTyped, WorkspaceTyped', LogsGoOn, LoopsAreFed, FenceIsSet, restore.pc = "posting",
         log'.local = log.local, Follows(log.remote, log'.remote), Follows(log'.remote, Posted),
         UNCHANGED <<moved, loop, removal, proxied>>, restore'.rows = restore.rows,
         restore'.pc \in {"posting", "failed", "done"},
         restore'.pc = "posting" => restore'.at <= Len(log'.remote) /\ restore'.at < Len(restore.rows),
         restore'.pc = "done" => Len(restore.rows) <= Len(log'.remote)
  PROVE  WorkspaceInv'
<1>1. log.local \in Seq(LogEvents) /\ log.remote \in Seq(LogEvents) /\ log'.remote \in Seq(LogEvents)
  BY LogsAreLogs DEF WorkspaceTyped, Workspace!Devices
<1>2. Posted' = Posted /\ Posted \in Seq(LogEvents) /\ Len(Posted) = Len(restore.rows)
  BY PostedIsLog DEF Posted
<1>3. removal = "no" => log.local = Posted /\ moved
  BY DEF LogsGoOn
<1>4. removal # "no" => Follows(log.local, log.remote)
  BY DEF LogsGoOn
<1>5. removal # "no" => Follows(log.local, log'.remote)
  BY <1>1, <1>4, FollowsOn
<1>6. restore'.pc = "done" => Follows(Posted, log'.remote)
  BY <1>1, <1>2 DEF Follows
<1>7. restore'.pc = "done" => Follows(log.local, log'.remote)
  BY <1>3, <1>5, <1>6
<1>8. LogsGoOn'
  <2>1. Follows(log'.remote, Posted')
    BY <1>2
  <2>2. ~(log.local # <<>> /\ ~moved)
    BY DEF LogsGoOn
  <2>3. \A i \in 1..Len(restore'.rows) : restore'.rows[i].seq = i
    BY DEF LogsGoOn
  <2> QED BY <1>2, <1>3, <1>5, <1>6, <1>7, <2>1, <2>2, <2>3 DEF LogsGoOn
<1>9. removal' = "no" => \A i \in Len(log.remote) + 1..Len(log'.remote) : i <= Len(log'.local)
  <2>1. PICK m \in Nat, n \in Nat, k \in Nat : m = Len(log.remote) /\ n = Len(log'.remote) /\ k = Len(Posted)
    BY <1>1, <1>2
  <2>2. n <= k
    BY <2>1 DEF Follows
  <2> QED BY <1>3, <2>1, <2>2
<1>10. loop' \in [Loops -> LoopRecords] /\ log' \in [Workspace!Devices -> Seq(LogEvents)] /\ Len(log.local) <= Len(log'.local)
  BY <1>1 DEF WorkspaceTyped
<1>11. LoopsAreFed'
  BY <1>9, <1>10, LoopsStay
<1>12. FenceIsSet'
  BY <1>10, FenceKept
<1> QED BY <1>8, <1>11, <1>12 DEF WorkspaceInv, LoopsAreFed

LEMMA PostKeeps == ASSUME WorkspaceConstants, WorkspaceInv, Workspace!Post PROVE WorkspaceInv'
<1>1. WorkspaceTyped /\ LogsGoOn /\ FenceIsSet /\ LoopsAreFed
  BY DEF WorkspaceInv, LoopsAreFed
<1>2. PICK b, next : b = Workspace!Batch /\ next = Workspace!ReplayAll(log.remote, b)
  OBVIOUS
<1>3. restore.pc = "posting" /\ log' = [log EXCEPT !.remote = next] /\ UNCHANGED <<moved, loop, removal, proxied>>
  BY <1>2 DEF Workspace!Post
<1>4. /\ next \in Seq(LogEvents) /\ Follows(log.remote, next) /\ Follows(next, Posted)
      /\ Len(b) \in Nat /\ restore.at + Len(b) <= Len(next) /\ restore.at + Len(b) <= Len(restore.rows)
      /\ ~Workspace!Throws(log.remote, b)
  BY <1>1, <1>2, <1>3, BatchArrives
<1>5. PICK j : j = restore.at + Len(b)
  OBVIOUS
<1>6. restore' = [restore EXCEPT !.at = j, !.pc = IF j = Len(restore.rows) THEN "done" ELSE @]
  BY <1>2, <1>4, <1>5 DEF Workspace!Post
<1>7. restore \in RestoreRecords /\ log \in [{"local", "remote"} -> Seq(LogEvents)] /\ j \in Nat
  BY <1>1, <1>4, <1>5 DEF WorkspaceTyped, Workspace!Devices, RestoreRecords
<1>8. log' \in [Workspace!Devices -> Seq(LogEvents)] /\ log'.local = log.local /\ log'.remote = next
  BY <1>3, <1>4, <1>7 DEF Workspace!Devices
<1>9. /\ restore' \in RestoreRecords /\ restore'.rows = restore.rows /\ restore'.at = j
      /\ restore'.pc = IF j = Len(restore.rows) THEN "done" ELSE "posting"
  BY <1>3, <1>6, <1>7 DEF RestoreRecords
<1>10. WorkspaceTyped'
  BY <1>1, <1>3, <1>8, <1>9 DEF WorkspaceTyped
<1>11. Len(restore.rows) \in Nat
  BY <1>7 DEF RestoreRecords
<1> QED BY <1>1, <1>3, <1>4, <1>5, <1>7, <1>8, <1>9, <1>10, <1>11, PostedKeeps

LEMMA PostFailsKeeps == ASSUME WorkspaceConstants, WorkspaceInv, Workspace!PostFails PROVE WorkspaceInv'
<1>1. WorkspaceTyped /\ LogsGoOn /\ FenceIsSet /\ LoopsAreFed
  BY DEF WorkspaceInv, LoopsAreFed
<1>2. PICK next : next = Workspace!ReplayAll(log.remote, Workspace!Batch)
  OBVIOUS
<1>3. /\ restore.pc = "posting" /\ (log' = log \/ log' = [log EXCEPT !.remote = next])
      /\ restore' = [restore EXCEPT !.pc = "failed"] /\ UNCHANGED <<moved, loop, removal, proxied>>
  BY <1>2 DEF Workspace!PostFails
<1>4. next \in Seq(LogEvents) /\ Follows(log.remote, next) /\ Follows(next, Posted)
  BY <1>1, <1>2, <1>3, BatchArrives
<1>5. restore \in RestoreRecords /\ log \in [{"local", "remote"} -> Seq(LogEvents)]
  BY <1>1 DEF WorkspaceTyped, Workspace!Devices
<1>6. /\ log' \in [Workspace!Devices -> Seq(LogEvents)] /\ log'.local = log.local
      /\ Follows(log.remote, log'.remote) /\ Follows(log'.remote, Posted)
  <2>1. CASE log' = log
    <3>1. Follows(log.remote, Posted)
      BY <1>1, <1>3 DEF LogsGoOn
    <3>2. Follows(log.remote, log.remote)
      BY <1>5 DEF Follows
    <3> QED BY <1>5, <2>1, <3>1, <3>2 DEF Workspace!Devices
  <2>2. CASE log' = [log EXCEPT !.remote = next]
    BY <1>4, <1>5, <2>2 DEF Workspace!Devices
  <2> QED BY <1>3, <2>1, <2>2
<1>7. restore' \in RestoreRecords /\ restore'.rows = restore.rows /\ restore'.pc = "failed"
  BY <1>3, <1>5 DEF RestoreRecords
<1>8. WorkspaceTyped'
  BY <1>1, <1>3, <1>6, <1>7 DEF WorkspaceTyped
<1> QED BY <1>1, <1>3, <1>6, <1>7, <1>8, PostedKeeps

LEMMA RemoveSessionsKeeps == ASSUME WorkspaceInv, Workspace!RemoveSessions PROVE WorkspaceInv'
<1>1. WorkspaceTyped /\ LogsGoOn /\ FenceIsSet /\ LoopsAreFed
  BY DEF WorkspaceInv, LoopsAreFed
<1>2. /\ removal = "no" /\ removal' = "sessions" /\ log' = (IF moved THEN [log EXCEPT !.local = <<>>] ELSE log)
      /\ moved' = FALSE /\ UNCHANGED <<restore, loop, proxied>>
  BY DEF Workspace!RemoveSessions
<1>3. log \in [{"local", "remote"} -> Seq(LogEvents)] /\ <<>> \in Seq(LogEvents)
  BY <1>1 DEF WorkspaceTyped, Workspace!Devices
<1>4. /\ log' \in [Workspace!Devices -> Seq(LogEvents)] /\ log'.remote = log.remote
      /\ log'.local = IF moved THEN <<>> ELSE log.local
  BY <1>2, <1>3 DEF Workspace!Devices
<1>5. WorkspaceTyped'
  BY <1>1, <1>2, <1>4 DEF WorkspaceTyped
<1>6. Posted' = Posted /\ Follows(<<>>, log.remote) /\ Follows(log.remote, log.remote)
  BY <1>2, <1>3 DEF Posted, Follows
<1>7. restore.pc \in {"posting", "failed"} => moved
  BY <1>1, <1>2 DEF LogsGoOn
<1>8. LogsGoOn'
  BY <1>1, <1>2, <1>4, <1>6, <1>7 DEF LogsGoOn
<1>9. loop' \in [Loops -> LoopRecords] /\ removal' # "no"
  BY <1>1, <1>2 DEF WorkspaceTyped
<1>10. LoopsAreFed'
  BY <1>1, <1>2, <1>4, <1>6, <1>9, LoopsStay
<1>11. FenceIsSet'
  BY <1>1, <1>2, <1>5, <1>9, FenceKept
<1> QED BY <1>5, <1>8, <1>10, <1>11 DEF WorkspaceInv, LoopsAreFed

LEMMA StopSyncKeeps == ASSUME WorkspaceInv, Workspace!StopSync PROVE WorkspaceInv'
<1>1. WorkspaceTyped /\ LogsGoOn /\ FenceIsSet /\ LoopsAreFed
  BY DEF WorkspaceInv, LoopsAreFed
<1>2. /\ removal = "sessions" /\ removal' = "stopped" /\ UNCHANGED <<log, moved, restore, proxied>>
      /\ loop' = [l \in Loops |-> IF l = registered THEN [loop[l] EXCEPT !.aborted = TRUE] ELSE loop[l]]
  BY DEF Workspace!StopSync
<1>3. /\ loop' \in [Loops -> LoopRecords]
      /\ \A l \in Loops : /\ loop'[l].pc = loop[l].pc /\ loop'[l].asked = loop[l].asked
                          /\ loop'[l].history = loop[l].history /\ loop'[l].stream = loop[l].stream
  <2>1. ASSUME NEW l \in Loops
        PROVE  /\ loop'[l] \in LoopRecords /\ loop'[l].pc = loop[l].pc /\ loop'[l].asked = loop[l].asked
               /\ loop'[l].history = loop[l].history /\ loop'[l].stream = loop[l].stream
    <3>1. loop[l] \in LoopRecords
      BY <1>1 DEF WorkspaceTyped
    <3> QED BY <1>2, <3>1 DEF LoopRecords
  <2> QED BY <1>2, <2>1
<1>4. WorkspaceTyped'
  BY <1>1, <1>2, <1>3 DEF WorkspaceTyped
<1>5. LogsGoOn'
  BY <1>1, <1>2 DEF LogsGoOn, Posted
<1>6. Follows(log.remote, log'.remote) /\ log' \in [Workspace!Devices -> Seq(LogEvents)] /\ removal' # "no"
  BY <1>1, <1>2, LogsAreLogs DEF Follows, WorkspaceTyped
<1>7. LoopsAreFed'
  BY <1>1, <1>2, <1>3, <1>6, LoopsStay
<1>8. FenceIsSet'
  BY <1>1, <1>2, <1>4, <1>6, FenceKept
<1> QED BY <1>4, <1>5, <1>7, <1>8 DEF WorkspaceInv, LoopsAreFed

\* One loop goes on and leaves the rest.
LEMMA OneLoopKeeps ==
  ASSUME WorkspaceInv, UNCHANGED <<log, moved, restore, removal, proxied>>, NEW l \in Loops, NEW q \in LoopRecords,
         loop' = [loop EXCEPT ![l] = q], LoopIsFed(q, log.local, log.remote, removal = "no")
  PROVE  WorkspaceInv'
<1>1. WorkspaceTyped /\ LogsGoOn /\ FenceIsSet /\ LoopsAreFed
  BY DEF WorkspaceInv, LoopsAreFed
<1>2. WorkspaceTyped'
  BY <1>1 DEF WorkspaceTyped
<1>3. LogsGoOn'
  BY <1>1, LogsKept
<1>4. LoopsAreFed'
  BY <1>1, OneLoopGoesOn
<1>5. FenceIsSet'
  <2>1. Len(log.local) \in Nat
    BY <1>1, LogsAreLogs
  <2> QED BY <1>1, <1>2, <2>1, FenceKept
<1> QED BY <1>2, <1>3, <1>4, <1>5 DEF WorkspaceInv, LoopsAreFed

\* A loop goes to where it follows no stream, or stays there.
LEMMA OneLoopAway ==
  ASSUME WorkspaceInv, UNCHANGED <<log, moved, restore, removal, proxied>>, NEW l \in Loops, NEW q \in LoopRecords,
         loop' = [loop EXCEPT ![l] = q], q.pc \notin {"history", "replay", "connected"},
         q.stream \in {loop[l].stream, <<>>}, q.history \in {loop[l].history, <<>>}
  PROVE  WorkspaceInv'
<1>1. loop[l] \in LoopRecords /\ log.local \in Seq(LogEvents) /\ log.remote \in Seq(LogEvents)
  BY LogsAreLogs DEF WorkspaceInv, WorkspaceTyped
<1>2. PICK p \in LoopRecords, h \in BOOLEAN : p = loop[l] /\ h = (removal = "no")
  BY <1>1
<1>3. LoopIsFed(p, log.local, log.remote, h)
  BY <1>2 DEF WorkspaceInv
<1>4. q.stream \in {p.stream, <<>>} /\ q.history \in {p.history, <<>>}
  BY <1>2
<1>5. LoopIsFed(q, log.local, log.remote, h)
  BY <1>1, <1>3, <1>4, LoopElsewhere
<1> QED BY <1>2, <1>5, OneLoopKeeps

\* Nothing of this changes.
LEMMA RestKeeps ==
  ASSUME WorkspaceInv, UNCHANGED <<log, moved, restore, loop, removal, proxied>>
  PROVE  WorkspaceInv'
BY DEF WorkspaceInv, WorkspaceTyped, LogsGoOn, Posted, FenceIsSet

LEMMA SleepingIs ==
  ASSUME NEW l, loop[l] \in LoopRecords
  PROVE  /\ Workspace!Sleeping(l) \in LoopRecords /\ Workspace!Sleeping(l).pc = "sleep"
         /\ Workspace!Sleeping(l).stream = <<>> /\ Workspace!Sleeping(l).history = <<>>
<1>1. PICK p, q : p = loop[l] /\ q = [p EXCEPT !.pc = "sleep", !.asked = 0, !.history = <<>>, !.stream = <<>>]
  OBVIOUS
<1>2. <<>> \in Seq(Posts)
  OBVIOUS
<1>3. q \in LoopRecords /\ q.pc = "sleep" /\ q.stream = <<>> /\ q.history = <<>>
  BY <1>1, <1>2 DEF LoopRecords, LoopStates
<1> QED BY <1>1, <1>3 DEF Workspace!Sleeping

LEMMA LoopMovesKeep ==
  ASSUME WorkspaceInv, NEW l \in Loops,
         \/ Workspace!StartLoop(l) \/ Workspace!Top(l) \/ Workspace!ConnectFails(l)
         \/ Workspace!StreamEnds(l) \/ Workspace!Wake(l)
  PROVE  WorkspaceInv'
<1>1. PICK p \in LoopRecords : p = loop[l]
  BY DEF WorkspaceInv, WorkspaceTyped
<1>2. \A x \in LoopStates : [p EXCEPT !.pc = x] \in LoopRecords
  BY DEF LoopRecords
<1>3. CASE Workspace!StartLoop(l)
  <2>1. UNCHANGED <<log, moved, restore, removal, proxied>> /\ (loop' = loop \/ loop' = [loop EXCEPT ![l].pc = "top"])
    BY <1>3 DEF Workspace!StartLoop
  <2>2. PICK q \in LoopRecords : q = [p EXCEPT !.pc = "top"]
    BY <1>2 DEF LoopStates
  <2>3. q.pc = "top" /\ q.stream = p.stream /\ q.history = p.history
    BY <2>2 DEF LoopRecords
  <2>4. loop' = loop \/ loop' = [loop EXCEPT ![l] = q]
    BY <1>1, <2>1, <2>2
  <2> QED BY <1>1, <2>1, <2>3, <2>4, OneLoopAway, RestKeeps
<1>4. CASE Workspace!Top(l) \/ Workspace!Wake(l)
  <2>1. PICK x \in {"ended", "connect", "top"} :
          UNCHANGED <<log, moved, restore, removal, proxied>> /\ loop' = [loop EXCEPT ![l].pc = x]
    BY <1>4 DEF Workspace!Top, Workspace!Wake
  <2>2. PICK q \in LoopRecords : q = [p EXCEPT !.pc = x]
    BY <1>2 DEF LoopStates
  <2>3. q.pc = x /\ q.stream = p.stream /\ q.history = p.history
    BY <2>2 DEF LoopRecords
  <2>4. loop' = [loop EXCEPT ![l] = q]
    BY <1>1, <2>1, <2>2
  <2> QED BY <1>1, <2>1, <2>3, <2>4, OneLoopAway
<1>5. CASE Workspace!ConnectFails(l) \/ Workspace!StreamEnds(l)
  <2>1. UNCHANGED <<log, moved, restore, removal, proxied>> /\ loop' = [loop EXCEPT ![l] = Workspace!Sleeping(l)]
    BY <1>5 DEF Workspace!ConnectFails, Workspace!StreamEnds
  <2>2. PICK q \in LoopRecords : q = Workspace!Sleeping(l) /\ q.pc = "sleep" /\ q.stream = <<>> /\ q.history = <<>>
    BY <1>1, SleepingIs
  <2> QED BY <2>1, <2>2, OneLoopAway
<1> QED BY <1>3, <1>4, <1>5

LEMMA ConnectKeeps == ASSUME WorkspaceInv, NEW l \in Loops, Workspace!Connect(l) PROVE WorkspaceInv'
<1>1. PICK p \in LoopRecords : p = loop[l]
  BY DEF WorkspaceInv, WorkspaceTyped
<1>2. log.local \in Seq(LogEvents) /\ log.remote \in Seq(LogEvents)
  BY LogsAreLogs DEF WorkspaceInv
<1>3. PICK k \in Nat : k = (IF moved THEN Len(log.local) ELSE 0) /\ k <= Len(log.local)
  BY <1>2
<1>4. PICK q : q = [p EXCEPT !.pc = "history", !.asked = k]
  OBVIOUS
<1>5. q \in LoopRecords /\ q.pc = "history" /\ q.asked = k /\ q.stream = p.stream /\ q.history = p.history
  BY <1>4 DEF LoopRecords, LoopStates
<1>6. loop' = [loop EXCEPT ![l] = q] /\ UNCHANGED <<log, moved, restore, removal, proxied>>
  BY <1>1, <1>3, <1>4 DEF Workspace!Connect, WorkspaceInv, WorkspaceTyped
<1>7. LoopIsFed(p, log.local, log.remote, removal = "no")
  BY <1>1 DEF WorkspaceInv
<1>8. LoopIsFed(q, log.local, log.remote, removal = "no")
  BY <1>3, <1>5, <1>7 DEF LoopIsFed
<1> QED BY <1>5, <1>6, <1>8, OneLoopKeeps

LEMMA AnswerHistoryKeeps == ASSUME WorkspaceInv, NEW l \in Loops, Workspace!AnswerHistory(l) PROVE WorkspaceInv'
<1>1. PICK p \in LoopRecords : p = loop[l]
  BY DEF WorkspaceInv, WorkspaceTyped
<1>2. log.local \in Seq(LogEvents) /\ log.remote \in Seq(LogEvents)
  BY LogsAreLogs DEF WorkspaceInv
<1>3. PICK k \in Nat, m \in Nat, n \in Nat : k = p.asked /\ m = Len(log.local) /\ n = Len(log.remote)
  BY <1>2 DEF LoopRecords
<1>4. PICK ms : ms = Workspace!Rows(log.remote, k + 1)
  OBVIOUS
<1>5. /\ ms \in Seq(Posts) /\ Len(ms) = (IF k + 1 <= n THEN n - (k + 1) + 1 ELSE 0)
      /\ \A i \in 1..Len(ms) : ms[i].seq = (k + 1) + i - 1 /\ ms[i].event = log.remote[(k + 1) + i - 1] /\ (k + 1) + i - 1 \in 1..n
  <2>1. k + 1 \in Nat \ {0}
    OBVIOUS
  <2>2. PICK f \in Nat \ {0}, t \in Seq(LogEvents) : f = k + 1 /\ t = log.remote
    BY <1>2, <2>1
  <2> QED BY <1>3, <1>4, <2>2, RowsAre
<1>6. PICK len \in Nat : len = Len(ms) /\ len = (IF k < n THEN n - k ELSE 0) /\ \A i \in 1..len : ms[i].seq = k + i /\ ms[i].event = log.remote[k + i] /\ k + i \in 1..n
  <2>1. \A i \in Nat : (k + 1) + i - 1 = k + i
    OBVIOUS
  <2>2. (IF k < n THEN n - k ELSE 0) \in Nat
    OBVIOUS
  <2>3. (IF k + 1 <= n THEN n - (k + 1) + 1 ELSE 0) = (IF k < n THEN n - k ELSE 0)
    OBVIOUS
  <2>4. PICK len \in Nat : len = Len(ms) /\ len = (IF k < n THEN n - k ELSE 0)
    BY <1>5, <2>3, <2>2
  <2>5. ASSUME NEW i \in 1..len PROVE ms[i].seq = k + i /\ ms[i].event = log.remote[k + i] /\ k + i \in 1..n
    <3>1. ms[i].seq = (k + 1) + i - 1 /\ ms[i].event = log.remote[(k + 1) + i - 1] /\ (k + 1) + i - 1 \in 1..n
      BY <1>5, <2>4
    <3> QED BY <2>1, <3>1
  <2> QED BY <2>4, <2>5
<1>7. PICK q : q = [p EXCEPT !.pc = "replay", !.asked = 0, !.history = ms]
  OBVIOUS
<1>8. q \in LoopRecords /\ q.pc = "replay" /\ q.stream = p.stream /\ q.history = ms
  BY <1>5, <1>7 DEF LoopRecords, LoopStates
<1>9. p.pc = "history" /\ loop' = [loop EXCEPT ![l] = q] /\ UNCHANGED <<log, moved, restore, removal, proxied>>
  BY <1>1, <1>3, <1>4, <1>7 DEF Workspace!AnswerHistory, WorkspaceInv, WorkspaceTyped
<1>10. LoopIsFed(p, log.local, log.remote, removal = "no")
  BY <1>1 DEF WorkspaceInv
<1>11. ASSUME removal = "no", NEW i \in 1..n PROVE Comes(q, log.local, log.remote, i)
  <2>1. k <= m
    BY <1>3, <1>9, <1>10, <1>11 DEF LoopIsFed
  <2>2. CASE i <= k
    <3>1. i <= m
      BY <2>1, <2>2
    <3> QED BY <1>3, <3>1 DEF Comes
  <2>3. CASE i > k
    <3>1. i - k \in 1..len /\ k + (i - k) = i
      BY <1>6, <2>3
    <3>2. ms[i - k].seq = i
      BY <1>6, <3>1
    <3> QED BY <1>6, <1>8, <3>1, <3>2 DEF Comes
  <2> QED BY <2>2, <2>3
<1>12. ASSUME NEW i \in 1..len PROVE Names(ms[i], log.remote) /\ ms[i].seq = ms[1].seq + i - 1
  <2>1. 1 \in 1..len
    BY <1>12
  <2>2. ms[1].seq = k + 1 /\ ms[i].seq = k + i /\ ms[i].event = log.remote[k + i] /\ k + i \in 1..n
    BY <1>6, <2>1
  <2>3. (k + 1) + i - 1 = k + i
    BY <1>6
  <2> QED BY <1>3, <2>2, <2>3 DEF Names
<1>13. LoopIsFed(q, log.local, log.remote, removal = "no")
  BY <1>3, <1>6, <1>8, <1>10, <1>11, <1>12 DEF LoopIsFed
<1> QED BY <1>8, <1>9, <1>13, OneLoopKeeps

\* A loop replays to the local log what the remote one has.
LEMMA ReplayKeeps ==
  ASSUME WorkspaceInv, NEW l \in Loops, NEW q \in LoopRecords, loop' = [loop EXCEPT ![l] = q],
         NEW next \in Seq(LogEvents), log' = [log EXCEPT !.local = next], moved' = (moved \/ log'.local # log.local),
         UNCHANGED <<restore, removal, proxied>>,
         Len(log.local) <= Len(next), Len(next) = Len(log.local) \/ Len(next) <= Len(log.remote),
         \A i \in 1..Len(next) : next[i] = IF i <= Len(log.local) THEN log.local[i] ELSE log.remote[i],
         LoopIsFed(q, next, log.remote, removal = "no")
  PROVE  WorkspaceInv'
<1>1. WorkspaceTyped /\ LogsGoOn /\ FenceIsSet /\ LoopsAreFed
  BY DEF WorkspaceInv, LoopsAreFed
<1>2. log.local \in Seq(LogEvents) /\ log.remote \in Seq(LogEvents) /\ log \in [{"local", "remote"} -> Seq(LogEvents)]
  BY <1>1, LogsAreLogs DEF WorkspaceTyped, Workspace!Devices
<1>3. PICK m \in Nat, n \in Nat, k \in Nat : m = Len(log.local) /\ n = Len(log.remote) /\ k = Len(next)
  BY <1>2
<1>4. log' \in [Workspace!Devices -> Seq(LogEvents)] /\ log'.local = next /\ log'.remote = log.remote
  BY <1>2 DEF Workspace!Devices
<1>5. WorkspaceTyped'
  <2>1. moved' \in BOOLEAN /\ loop' \in [Loops -> LoopRecords]
    BY <1>1 DEF WorkspaceTyped
  <2> QED BY <1>1, <1>4, <2>1 DEF WorkspaceTyped
<1>6. Posted' = Posted /\ Len(Posted) \in Nat /\ Len(Posted) = Len(restore.rows)
  BY <1>1, PostedIsLog DEF Posted
<1>7. ASSUME k = m PROVE LogsGoOn'
  <2>1. \A i \in 1..m : next[i] = log.local[i]
    BY <1>3, <1>7
  <2>2. next = log.local
    BY <1>2, <1>3, <1>7, <2>1, SeqEqual
  <2>3. moved' = moved /\ log'.local = log.local
    BY <1>1, <1>4, <2>2 DEF WorkspaceTyped
  <2> QED BY <1>1, <1>4, <1>6, <2>3 DEF LogsGoOn
<1>8. ASSUME k # m PROVE LogsGoOn'
  <2>1. m < k /\ k <= n
    BY <1>3, <1>8
  <2>2. next # log.local /\ log.remote # <<>>
    BY <1>2, <1>3, <2>1
  <2>3. moved'
    BY <1>4, <2>2
  <2>4. ASSUME Follows(log.local, log.remote) PROVE Follows(next, log.remote)
    <3>1. ASSUME NEW i \in 1..k PROVE next[i] = log.remote[i]
      <4>1. CASE i <= m
        <5>1. i \in 1..m
          BY <4>1
        <5> QED BY <1>3, <2>4, <4>1, <5>1 DEF Follows
      <4>2. CASE ~(i <= m)
        BY <1>3, <4>2
      <4> QED BY <4>1, <4>2
    <3> QED BY <1>3, <2>1, <3>1 DEF Follows
  <2>5. ~(restore.pc \in {"posting", "failed"} /\ removal = "no")
    <3>1. ASSUME restore.pc \in {"posting", "failed"}, removal = "no" PROVE FALSE
      <4>1. n <= Len(Posted) /\ log.local = Posted
        BY <1>1, <1>3, <3>1 DEF LogsGoOn, Follows
      <4> QED BY <1>3, <2>1, <4>1
    <3> QED BY <3>1
  <2> QED BY <1>1, <1>4, <1>6, <2>2, <2>4, <2>5, <2>3 DEF LogsGoOn
<1>9. LogsGoOn'
  BY <1>7, <1>8
<1>10. ASSUME NEW x \in Loops PROVE LoopIsFed(loop'[x], next, log.remote, removal = "no")
  <2>1. PICK p \in LoopRecords, h \in BOOLEAN, t \in Seq(LogEvents) : p = loop[x] /\ h = (removal = "no") /\ t = log.remote
    BY <1>1, <1>2 DEF WorkspaceTyped
  <2>2. CASE x = l
    BY <1>1, <2>2 DEF WorkspaceTyped
  <2>3. CASE x # l
    <3>1. loop'[x] = p
      BY <1>1, <2>1, <2>3 DEF WorkspaceTyped
    <3>2. LoopIsFed(p, log.local, t, h) /\ Follows(t, t) /\ \A i \in Len(t) + 1..Len(t) : FALSE
      BY <1>1, <1>3, <2>1 DEF LoopsAreFed, Follows
    <3>3. LoopIsFed(p, next, t, h)
      BY <1>2, <3>2, LoopStays
    <3> QED BY <2>1, <3>1, <3>3
  <2> QED BY <2>2, <2>3
<1>11. LoopsAreFed'
  BY <1>4, <1>10 DEF LoopsAreFed
<1>12. FenceIsSet'
  BY <1>1, <1>4, <1>5, FenceKept
<1> QED BY <1>5, <1>9, <1>11, <1>12 DEF WorkspaceInv, LoopsAreFed

LEMMA ReplayHistoryKeeps == ASSUME WorkspaceInv, NEW l \in Loops, Workspace!ReplayHistory(l) PROVE WorkspaceInv'
<1>1. PICK p \in LoopRecords, h \in BOOLEAN : p = loop[l] /\ h = (removal = "no")
  BY DEF WorkspaceInv, WorkspaceTyped
<1>2. PICK a \in Seq(LogEvents), t \in Seq(LogEvents) : a = log.local /\ t = log.remote
  BY LogsAreLogs DEF WorkspaceInv
<1>3. PICK ms \in Seq(Posts), m \in Nat, n \in Nat, k \in Nat : ms = p.history /\ m = Len(a) /\ n = Len(t) /\ k = Len(ms)
  BY <1>2 DEF LoopRecords
<1>4. LoopIsFed(p, a, t, h)
  BY <1>1, <1>2 DEF WorkspaceInv
<1>5. ASSUME NEW i \in 1..k PROVE ms[i].seq \in 1..n /\ ms[i].event = t[ms[i].seq] /\ ms[i].seq = ms[1].seq + i - 1
  BY <1>3, <1>4 DEF LoopIsFed, Names
<1>6. PICK f \in Nat \ {0} : f = IF ms = <<>> THEN 1 ELSE ms[1].seq
  <2>1. ms # <<>> => ms[1].seq \in Nat \ {0}
    <3>1. ms # <<>> => 1 \in 1..k
      BY <1>3
    <3>2. ms # <<>> => ms[1].seq \in 1..n
      BY <1>5, <3>1
    <3> QED BY <3>2
  <2> QED BY <2>1
<1>7. Piece(ms, f, t)
  <2>1. ASSUME NEW i \in 1..k PROVE ms[i].seq = f + i - 1
    <3>1. ms # <<>>
      BY <1>3
    <3> QED BY <1>5, <1>6, <3>1
  <2> QED BY <1>3, <1>5, <2>1 DEF Piece
<1>8. PICK next : next = Workspace!ReplayAll(a, ms)
  OBVIOUS
<1>9. /\ next \in Seq(LogEvents)
      /\ Len(next) = (IF f <= Len(a) + 1 /\ f + Len(ms) - 1 > Len(a) THEN f + Len(ms) - 1 ELSE Len(a))
      /\ \A i \in 1..Len(next) : next[i] = IF i <= Len(a) THEN a[i] ELSE t[i]
  BY <1>7, <1>8, ReplayAllLeaves
<1>10. PICK len \in Nat : len = Len(next) /\ len = IF f <= m + 1 /\ f + k - 1 > m THEN f + k - 1 ELSE m
  BY <1>3, <1>9
<1>11. m <= len /\ (len = m \/ len <= n)
  <2>1. CASE ms = <<>>
    <3>1. k = 0 /\ f = 1
      BY <1>3, <1>6, <2>1
    <3> QED BY <1>10, <3>1
  <2>2. CASE ms # <<>>
    <3>1. k \in 1..k /\ f = ms[1].seq
      BY <1>3, <1>6, <2>2
    <3>2. k \in 1..k /\ ms[k].seq = f + k - 1
      BY <1>5, <3>1
    <3>3. f + k - 1 \in 1..n
      BY <1>5, <3>2
    <3> QED BY <1>10, <3>3
  <2> QED BY <2>1, <2>2
<1>12. /\ p.pc = "replay" /\ log' = [log EXCEPT !.local = next] /\ moved' = (moved \/ log'.local # log.local)
       /\ UNCHANGED <<restore, removal, proxied>>
  BY <1>1, <1>2, <1>3, <1>8 DEF Workspace!ReplayHistory
<1>13. Workspace!Throws(a, ms) <=> ms # <<>> /\ f > m + 1
  <2>1. ms # <<>> => Head(ms) = ms[1]
    BY <1>3
  <2> QED BY <1>3, <1>6, <2>1 DEF Workspace!Throws
<1>14. CASE ms # <<>> /\ f > m + 1
  <2>1. PICK q \in LoopRecords : q = Workspace!Sleeping(l) /\ q.pc = "sleep" /\ q.stream = <<>> /\ q.history = <<>>
    BY <1>1, SleepingIs
  <2>2. loop' = [loop EXCEPT ![l] = q]
    BY <1>1, <1>2, <1>3, <1>13, <1>14, <2>1 DEF Workspace!ReplayHistory
  <2>3. next = a
    <3>1. len = m
      BY <1>10, <1>14
    <3> QED BY <1>3, <1>9, <1>10, <3>1, SeqEqual
  <2>4. LoopIsFed(q, next, t, h)
    BY <1>4, <2>1, <2>3, LoopElsewhere
  <2> QED BY <1>1, <1>2, <1>3, <1>9, <1>10, <1>11, <1>12, <2>1, <2>2, <2>4, ReplayKeeps
<1>15. CASE ms = <<>> \/ f <= m + 1
  <2>1. PICK q : q = [p EXCEPT !.pc = "connected", !.history = <<>>]
    OBVIOUS
  <2>2. q \in LoopRecords /\ q.pc = "connected" /\ q.history = <<>> /\ q.stream = p.stream
    <3>1. <<>> \in Seq(Posts)
      OBVIOUS
    <3> QED BY <2>1, <3>1 DEF LoopRecords, LoopStates
  <2>3. ~Workspace!Throws(a, ms)
    BY <1>3, <1>6, <1>13, <1>15
  <2>4. loop' = [loop EXCEPT ![l] = q]
    BY <1>1, <1>2, <1>3, <2>1, <2>3 DEF Workspace!ReplayHistory, WorkspaceInv, WorkspaceTyped
  <2>5. ASSUME h, NEW i \in 1..n PROVE Comes(q, next, t, i)
    <3>1. Comes(p, a, t, i)
      BY <1>3, <1>4, <1>12, <2>5 DEF LoopIsFed
    <3>2. i <= m => i <= len
      BY <1>11
    <3>3. ASSUME NEW x \in 1..k, ms[x].seq = i PROVE i <= len
      <4>1. ms # <<>> /\ f <= m + 1
        BY <1>3, <1>15, <3>3
      <4>2. i = f + x - 1
        BY <1>5, <1>6, <3>3, <4>1
      <4> QED BY <1>10, <4>1, <4>2
    <3> QED BY <1>3, <1>10, <2>2, <3>1, <3>2, <3>3 DEF Comes
  <2>6. LoopIsFed(q, next, t, h)
    <3>1. \A i \in 1..Len(q.history) : FALSE
      BY <2>2
    <3>2. h => \A i \in 1..Len(t) : Comes(q, next, t, i)
      BY <1>3, <2>5
    <3>3. \A i \in 1..Len(q.stream) : Names(q.stream[i], t)
      BY <1>4, <2>2 DEF LoopIsFed
    <3>4. \A i, j \in 1..Len(q.stream) : i < j => q.stream[i].seq < q.stream[j].seq
      BY <1>4, <2>2 DEF LoopIsFed
    <3> QED BY <2>2, <3>1, <3>2, <3>3, <3>4 DEF LoopIsFed
  <2> QED BY <1>1, <1>2, <1>3, <1>9, <1>10, <1>11, <1>12, <2>2, <2>4, <2>6, ReplayKeeps
<1> QED BY <1>3, <1>6, <1>14, <1>15

LEMMA DeliverKeeps == ASSUME WorkspaceInv, NEW l \in Loops, Workspace!Deliver(l) PROVE WorkspaceInv'
<1>1. PICK p \in LoopRecords, h \in BOOLEAN : p = loop[l] /\ h = (removal = "no")
  BY DEF WorkspaceInv, WorkspaceTyped
<1>2. PICK a \in Seq(LogEvents), t \in Seq(LogEvents) : a = log.local /\ t = log.remote
  BY LogsAreLogs DEF WorkspaceInv
<1>3. PICK ms \in Seq(Posts), m \in Nat, n \in Nat, k \in Nat : ms = p.stream /\ m = Len(a) /\ n = Len(t) /\ k = Len(ms)
  BY <1>2 DEF LoopRecords
<1>4. LoopIsFed(p, a, t, h)
  BY <1>1, <1>2 DEF WorkspaceInv
<1>5. p.pc = "connected" /\ ms # <<>> /\ p.history = <<>>
  BY <1>1, <1>3, <1>4 DEF Workspace!Deliver, LoopIsFed
<1>6. k # 0 /\ Head(ms) = ms[1] /\ Tail(ms) \in Seq(Posts) /\ Len(Tail(ms)) = k - 1 /\ \A i \in 1..k - 1 : Tail(ms)[i] = ms[i + 1]
  BY <1>3, <1>5, HeadTailProperties
<1>7. ASSUME NEW i \in 1..k PROVE Names(ms[i], t)
  BY <1>3, <1>4 DEF LoopIsFed
<1>8. PICK first \in 1..n : first = ms[1].seq /\ ms[1].event = t[first]
  <2>1. 1 \in 1..k
    BY <1>6
  <2> QED BY <1>3, <1>7, <2>1 DEF Names
<1>9. PICK next : next = Workspace!Replay(a, ms[1])
  OBVIOUS
<1>10. /\ next \in Seq(LogEvents) /\ Len(next) = (IF first = m + 1 THEN m + 1 ELSE m)
       /\ \A i \in 1..Len(next) : next[i] = IF i <= m THEN a[i] ELSE t[i]
  <2>1. CASE first = m + 1
    <3>1. next = Append(a, t[first]) /\ t[first] \in LogEvents
      BY <1>3, <1>8, <1>9, <2>1 DEF Workspace!Replay
    <3>2. next \in Seq(LogEvents) /\ Len(next) = m + 1 /\ (\A i \in 1..m : next[i] = a[i]) /\ next[m + 1] = t[m + 1]
      BY <1>3, <2>1, <3>1
    <3>3. \A i \in 1..m + 1 : next[i] = IF i <= m THEN a[i] ELSE t[i]
      <4>1. ASSUME NEW i \in 1..m + 1 PROVE next[i] = IF i <= m THEN a[i] ELSE t[i]
        <5>1. i \in 1..m \/ i = m + 1
          BY <1>3
        <5>2. ~(m + 1 <= m)
          BY <1>3
        <5> QED BY <3>2, <5>1, <5>2
      <4> QED BY <4>1
    <3> QED BY <2>1, <3>2, <3>3
  <2>2. CASE first # m + 1
    <3>1. next = a
      BY <1>3, <1>8, <1>9, <2>2 DEF Workspace!Replay
    <3> QED BY <1>3, <2>2, <3>1
  <2> QED BY <2>1, <2>2
<1>11. PICK len \in Nat : len = Len(next) /\ m <= len /\ (len = m \/ len <= n)
  BY <1>3, <1>8, <1>10
<1>12. /\ log' = [log EXCEPT !.local = next] /\ moved' = (moved \/ log'.local # log.local)
       /\ UNCHANGED <<restore, removal, proxied>>
  BY <1>1, <1>2, <1>3, <1>6, <1>9 DEF Workspace!Deliver
<1>13. PICK q : q = [p EXCEPT !.stream = Tail(ms)]
  OBVIOUS
<1>14. q \in LoopRecords /\ q.pc = "connected" /\ q.history = <<>> /\ q.stream = Tail(ms)
  BY <1>5, <1>6, <1>13 DEF LoopRecords, LoopStates
<1>15. loop' = [loop EXCEPT ![l] = q]
  BY <1>1, <1>3, <1>13 DEF Workspace!Deliver, WorkspaceInv, WorkspaceTyped
<1>16. ASSUME NEW i \in 1..k - 1 PROVE Names(Tail(ms)[i], t)
  <2>1. i + 1 \in 1..k
    BY <1>3
  <2> QED BY <1>6, <1>7, <2>1
<1>17. ASSUME NEW i \in 1..k, NEW j \in 1..k, i < j PROVE ms[i].seq < ms[j].seq
  BY <1>3, <1>4, <1>17 DEF LoopIsFed
<1>18. ASSUME NEW i \in 1..k - 1, NEW j \in 1..k - 1, i < j PROVE Tail(ms)[i].seq < Tail(ms)[j].seq
  <2>1. i + 1 \in 1..k /\ j + 1 \in 1..k /\ i + 1 < j + 1
    BY <1>3, <1>18
  <2> QED BY <1>6, <1>17, <2>1
\* Where an event comes from, with an empty history.
<1>19. ASSUME h, NEW i \in 1..n
       PROVE  i <= m \/ (\E x \in 1..k : ms[x].seq = i) \/ \E j \in 1..i : t[j].by = "other"
  BY <1>3, <1>4, <1>5, <1>19 DEF LoopIsFed, Comes
<1>20. ASSUME h, NEW i \in 1..n PROVE Comes(q, next, t, i)
  <2>1. CASE i <= m
    <3>1. i <= Len(next)
      BY <1>3, <1>11, <2>1
    <3> QED BY <3>1 DEF Comes
  <2>2. CASE \E j \in 1..i : t[j].by = "other"
    BY <2>2 DEF Comes
  <2>3. ASSUME NEW x \in 1..k, ms[x].seq = i, ~(i <= m) PROVE Comes(q, next, t, i)
    <3>1. CASE x # 1
      <4>1. x - 1 \in 1..k - 1 /\ (x - 1) + 1 = x
        BY <1>3, <3>1
      <4>2. Tail(ms)[x - 1] = ms[x]
        BY <1>6, <4>1
      <4> QED BY <1>6, <1>14, <2>3, <4>1, <4>2 DEF Comes
    <3>2. CASE x = 1
      <4>1. i = first
        BY <1>8, <2>3, <3>2
      <4>2. CASE i = m + 1
        <5>1. i <= Len(next)
          BY <1>10, <4>1, <4>2
        <5> QED BY <5>1 DEF Comes
      <4>3. CASE i # m + 1
        <5>1. m + 1 \in 1..n /\ ~(m + 1 <= m) /\ m + 1 < first
          BY <1>3, <1>8, <2>3, <4>1, <4>3
        <5>2. ASSUME NEW y \in 1..k, ms[y].seq = m + 1 PROVE FALSE
          <6>1. 1 \in 1..k /\ ms[y].seq < ms[1].seq
            BY <1>6, <1>8, <5>1, <5>2
          <6>2. y = 1 \/ 1 < y
            OBVIOUS
          <6>3. CASE 1 < y
            <7>1. ms[1].seq < ms[y].seq
              BY <1>17, <6>1, <6>3
            <7>2. ms[1].seq = first /\ ms[y].seq = m + 1
              BY <1>8, <5>2
            <7> QED BY <1>3, <5>1, <7>1, <7>2
          <6>4. CASE y = 1
            BY <1>3, <1>8, <5>1, <5>2, <6>4
          <6> QED BY <6>2, <6>3, <6>4
        <5>3. PICK j \in 1..m + 1 : t[j].by = "other"
          BY <1>19, <1>20, <5>1, <5>2
        <5>4. j \in 1..i
          BY <1>3, <4>1, <5>1
        <5> QED BY <5>3, <5>4 DEF Comes
      <4> QED BY <4>2, <4>3
    <3> QED BY <3>1, <3>2
  <2> QED BY <1>19, <1>20, <2>1, <2>2, <2>3
<1>21. LoopIsFed(q, next, t, h)
  <2>1. \A i \in 1..Len(q.history) : FALSE
    BY <1>14
  <2>2. h => \A i \in 1..Len(t) : Comes(q, next, t, i)
    BY <1>3, <1>20
  <2>3. \A i \in 1..Len(q.stream) : Names(q.stream[i], t)
    BY <1>6, <1>14, <1>16
  <2>4. \A i, j \in 1..Len(q.stream) : i < j => q.stream[i].seq < q.stream[j].seq
    BY <1>6, <1>14, <1>18
  <2> QED BY <1>14, <2>1, <2>2, <2>3, <2>4 DEF LoopIsFed
<1> QED BY <1>1, <1>2, <1>3, <1>10, <1>11, <1>12, <1>14, <1>15, <1>21, ReplayKeeps

LEMMA FenceStepsKeep ==
  ASSUME WorkspaceInv,
         Workspace!SendRequest \/ Workspace!AnswerRequest \/ Workspace!PassFence \/ Workspace!FenceTimeout
  PROVE  WorkspaceInv'
<1>1. WorkspaceTyped /\ LogsGoOn /\ FenceIsSet /\ LoopsAreFed
  BY DEF WorkspaceInv, LoopsAreFed
<1>2. UNCHANGED <<log, moved, restore, loop, removal>>
  BY DEF Workspace!SendRequest, Workspace!AnswerRequest, Workspace!PassFence, Workspace!FenceTimeout
<1>3. PICK m \in Nat, n \in Nat : m = Len(log.local) /\ n = Len(log.remote)
  BY <1>1, LogsAreLogs
<1>4. proxied' \in ProxyRecords /\ FenceIsSet'
  <2>1. CASE Workspace!SendRequest
    BY <1>1, <1>2, <1>3, <2>1 DEF Workspace!SendRequest, WorkspaceTyped, ProxyRecords, FenceIsSet
  <2>2. CASE Workspace!AnswerRequest
    <3>1. CASE n = proxied.before
      <4>1. proxied' = [pc |-> "passed", before |-> 0, after |-> 0, need |-> 0]
        BY <1>3, <2>2, <3>1 DEF Workspace!AnswerRequest
      <4>2. proxied'.pc = "passed" /\ proxied'.after = 0 /\ proxied'.before = 0 /\ proxied'.need = 0
        BY <4>1
      <4> QED BY <1>2, <1>3, <4>1, <4>2 DEF ProxyRecords, FenceIsSet
    <3>2. CASE n # proxied.before
      <4>1. proxied' = [proxied EXCEPT !.pc = "waiting", !.after = n, !.need = n]
        BY <1>3, <2>2, <3>2 DEF Workspace!AnswerRequest
      <4>2. proxied' = [pc |-> "waiting", before |-> proxied.before, after |-> n, need |-> n] /\ proxied.before \in Nat
        BY <1>1, <4>1 DEF WorkspaceTyped, ProxyRecords
      <4> QED BY <1>3, <3>2, <4>2 DEF ProxyRecords, FenceIsSet
    <3> QED BY <3>1, <3>2
  <2>3. CASE Workspace!PassFence
    BY <1>1, <1>2, <1>3, <2>3 DEF Workspace!PassFence, WorkspaceTyped, ProxyRecords, FenceIsSet
  <2>4. CASE Workspace!FenceTimeout
    BY <1>1, <1>2, <1>3, <2>4 DEF Workspace!FenceTimeout, WorkspaceTyped, ProxyRecords, FenceIsSet
  <2> QED BY <2>1, <2>2, <2>3, <2>4
<1>5. WorkspaceTyped'
  BY <1>1, <1>2, <1>4 DEF WorkspaceTyped
<1>6. LogsGoOn' /\ LoopsAreFed'
  BY <1>1, <1>2, LogsKept, LoopsKept
<1> QED BY <1>4, <1>5, <1>6 DEF WorkspaceInv, LoopsAreFed

LEMMA InitWorkspaceInv == ASSUME Workspace!Init PROVE WorkspaceInv
<1>1. PICK d \in {"local", "remote"} :
        /\ log = [x \in {"local", "remote"} |-> IF x = d THEN <<[by |-> d, n |-> 1]>> ELSE <<>>] /\ moved = (d = "remote")
  BY DEF Workspace!Init, Workspace!Devices
<1>2. /\ restore = [pc |-> "none", rows |-> <<>>, at |-> 0, tries |-> 0]
      /\ loop = [l \in Loops |-> [pc |-> "none", aborted |-> FALSE, asked |-> 0, history |-> <<>>, stream |-> <<>>]]
      /\ removal = "no" /\ proxied = [pc |-> "none", before |-> 0, after |-> 0, need |-> 0]
  BY DEF Workspace!Init
<1>3. [by |-> d, n |-> 1] \in LogEvents
  BY DEF LogEvents
<1>4. PICK s \in Seq(LogEvents) : s = <<[by |-> d, n |-> 1]>> /\ Len(s) = 1 /\ s[1].by = d
  <2>1. PICK e \in LogEvents : e = [by |-> d, n |-> 1] /\ e.by = d
    BY <1>3
  <2>2. <<e>> \in Seq(LogEvents) /\ Len(<<e>>) = 1 /\ <<e>>[1] = e
    OBVIOUS
  <2> QED BY <2>1, <2>2
<1>5. log \in [Workspace!Devices -> Seq(LogEvents)] /\ log[d] = s /\ \A x \in {"local", "remote"} : x # d => log[x] = <<>>
  BY <1>1, <1>4 DEF Workspace!Devices
<1>6. <<>> \in Seq(Posts) /\ <<>> \in Seq(LogEvents) /\ Len(<<>>) = 0
  OBVIOUS
<1>7. WorkspaceTyped
  BY <1>1, <1>2, <1>5, <1>6 DEF WorkspaceTyped, RestoreRecords, LoopRecords, LoopStates, ProxyRecords
<1>8. LogsGoOn
  <2>1. CASE d = "local"
    <3>1. log.remote = <<>> /\ ~moved
      BY <1>1, <1>5, <2>1
    <3> QED BY <1>2, <1>6, <3>1 DEF LogsGoOn
  <2>2. CASE d = "remote"
    <3>1. log.local = <<>> /\ log.remote = s /\ moved
      BY <1>1, <1>5, <2>2
    <3>2. log.remote # <<>> /\ log.remote[1].by # "local" /\ Follows(log.local, log.remote)
      BY <1>4, <1>6, <2>2, <3>1 DEF Follows
    <3> QED BY <1>2, <1>6, <3>1, <3>2 DEF LogsGoOn
  <2> QED BY <2>1, <2>2
<1>9. FenceIsSet
  BY <1>2 DEF FenceIsSet
<1>10. ASSUME NEW l \in Loops PROVE LoopIsFed(loop[l], log.local, log.remote, removal = "no")
  BY <1>2, <1>6 DEF LoopIsFed
<1> QED BY <1>7, <1>8, <1>9, <1>10 DEF WorkspaceInv

LEMMA NextWorkspaceInv ==
  ASSUME WorkspaceConstants, WorkspaceInv, [Workspace!Next]_workspaceVars
  PROVE  WorkspaceInv'
<1>1. CASE Workspace!RunRemote
  BY <1>1, RunRemoteKeeps
<1>2. CASE Workspace!RunUnpublished
  BY <1>2, RunUnpublishedKeeps
<1>3. CASE Workspace!RunLocal
  BY <1>3, RunLocalKeeps
<1>4. CASE Workspace!RestoreStart
  BY <1>4, RestoreStartKeeps
<1>5. CASE Workspace!Post
  BY <1>5, PostKeeps
<1>6. CASE Workspace!PostFails
  BY <1>6, PostFailsKeeps
<1>7. CASE Workspace!StartSync
  <2>1. UNCHANGED <<log, moved, restore, loop, removal, proxied>>
    BY <1>7 DEF Workspace!StartSync
  <2> QED BY <2>1, RestKeeps
<1>8. CASE Workspace!RemoveSessions
  BY <1>8, RemoveSessionsKeeps
<1>9. CASE Workspace!StopSync
  BY <1>9, StopSyncKeeps
<1>10. ASSUME NEW l \in Loops,
              Workspace!StartLoop(l) \/ Workspace!LoopGoesOn(l) \/ Workspace!ConnectFails(l) \/ Workspace!StreamEnds(l)
       PROVE  WorkspaceInv'
  <2>1. \/ Workspace!StartLoop(l) \/ Workspace!Top(l) \/ Workspace!ConnectFails(l) \/ Workspace!StreamEnds(l) \/ Workspace!Wake(l)
        \/ Workspace!Connect(l) \/ Workspace!AnswerHistory(l) \/ Workspace!ReplayHistory(l) \/ Workspace!Deliver(l)
    BY <1>10 DEF Workspace!LoopGoesOn
  <2> QED BY <2>1, LoopMovesKeep, ConnectKeeps, AnswerHistoryKeeps, ReplayHistoryKeeps, DeliverKeeps
<1>11. CASE Workspace!SendRequest \/ Workspace!AnswerRequest \/ Workspace!PassFence \/ Workspace!FenceTimeout
  BY <1>11, FenceStepsKeep
<1>12. CASE UNCHANGED workspaceVars
  BY <1>12, RestKeeps DEF workspaceVars
<1> QED BY <1>1, <1>2, <1>3, <1>4, <1>5, <1>6, <1>7, <1>8, <1>9, <1>10, <1>11, <1>12 DEF Workspace!Next

LEMMA WorkspaceInvTells == ASSUME WorkspaceInv PROVE DevicesAgree
<1>1. WorkspaceTyped /\ LogsGoOn /\ FenceIsSet /\ LoopsAreFed
  BY DEF WorkspaceInv, LoopsAreFed
<1>2. PICK a \in Seq(LogEvents), t \in Seq(LogEvents) : a = log.local /\ t = log.remote
  BY <1>1, LogsAreLogs
<1>3. PICK m \in Nat, n \in Nat : m = Len(a) /\ n = Len(t) /\ DOMAIN a = 1..m /\ DOMAIN t = 1..n
  BY <1>2
<1>4. ASSUME NEW i \in 1..m, i \in 1..n PROVE a[i] = t[i]
  <2>1. Follows(a, t) \/ Follows(t, a)
    <3>1. CASE restore.pc = "none"
      <4>1. t # <<>>
        BY <1>3, <1>4
      <4> QED BY <1>1, <1>2, <3>1, <4>1 DEF LogsGoOn
    <3>2. CASE restore.pc \in {"posting", "failed"}
      BY <1>1, <1>2, <3>2 DEF LogsGoOn
    <3>3. CASE restore.pc = "done"
      BY <1>1, <1>2, <3>3 DEF LogsGoOn
    <3> QED BY <1>1, <3>1, <3>2, <3>3 DEF WorkspaceTyped, RestoreRecords
  <2> QED BY <1>3, <1>4, <2>1 DEF Follows
<1>5. Workspace!LogsAgree
  BY <1>2, <1>3, <1>4 DEF Workspace!LogsAgree
<1>6. Workspace!NothingMissed
  <2>1. ASSUME NEW l \in Loops, loop[l].pc = "connected", removal = "no", NEW i \in 1..n
        PROVE  \/ i <= Len(log.local) \/ \E j \in 1..i : log.remote[j].by = "other"
               \/ \E j \in DOMAIN loop[l].stream : loop[l].stream[j].seq = i
    <3>1. loop[l].history = <<>> /\ Comes(loop[l], log.local, log.remote, i)
      BY <1>1, <1>2, <1>3, <2>1 DEF LoopsAreFed, LoopIsFed
    <3>2. loop[l].stream \in Seq(Posts)
      BY <1>1 DEF WorkspaceTyped, LoopRecords
    <3> QED BY <3>1, <3>2 DEF Comes
  <2> QED BY <1>2, <1>3, <2>1 DEF Workspace!NothingMissed
<1>7. Workspace!FenceShowsWrites
  <2>1. SUFFICES ASSUME proxied.pc = "passed", removal = "no", NEW i \in 1..n, i \in proxied.before + 1..proxied.after
                 PROVE  i \in 1..m
    BY <1>2, <1>3, <1>4 DEF Workspace!FenceShowsWrites
  <2>2. proxied.before \in Nat /\ proxied.after \in Nat
    BY <1>1 DEF WorkspaceTyped, ProxyRecords
  <2>3. m >= (IF proxied.after = proxied.before THEN 0 ELSE proxied.after)
    BY <1>1, <1>2, <1>3, <2>1 DEF FenceIsSet
  <2>4. proxied.after # proxied.before
    BY <2>1, <2>2
  <2> QED BY <1>3, <2>1, <2>2, <2>3, <2>4
<1>8. Workspace!RestoreComplete
  <2>1. SUFFICES ASSUME restore.pc = "done", NEW i \in DOMAIN restore.rows
                 PROVE  i \in 1..n /\ t[i] = restore.rows[i].event
    BY <1>2, <1>3 DEF Workspace!RestoreComplete
  <2>2. PICK k \in Nat : k = Len(Posted) /\ DOMAIN restore.rows = 1..k
    BY <1>1, PostedIsLog DEF WorkspaceTyped, RestoreRecords
  <2>3. i \in 1..k /\ Posted[i] = restore.rows[i].event
    BY <1>1, <2>1, <2>2, PostedIsLog
  <2>4. k <= n /\ \A j \in 1..k : Posted[j] = t[j]
    BY <1>1, <1>2, <1>3, <2>1, <2>2 DEF LogsGoOn, Follows
  <2> QED BY <1>3, <2>2, <2>3, <2>4
<1> QED BY <1>5, <1>6, <1>7, <1>8 DEF DevicesAgree, Workspace!EventsArrive

\* sync/README.md, "Because only one device is allowed to write", and control-plane/workspace.ts:
\* while the move alone writes, the two logs of a session never hold different events under one number; what a
\* connected device lacks is on its way, a fenced response comes after the events it stands for,
\* and a session that has moved is on the remote device completely.
THEOREM LogsOfDevicesAgree == ASSUME WorkspaceConstants PROVE Spec => []DevicesAgree
<1>1. Init => WorkspaceInv
  BY InitWorkspaceInv, Starts DEF PartsStart
<1>2. WorkspaceInv /\ [Next]_vars => WorkspaceInv'
  BY NextWorkspaceInv, Steps DEF PartsStep
<1>3. WorkspaceInv => DevicesAgree
  BY WorkspaceInvTells
<1> QED BY <1>1, <1>2, <1>3, PTL DEF Spec

-----------------------------------------------------------------------------
(* The two clients of a session *)

\* cli/cmd/tui and acp/agent.ts: the terminal client and the editor show what the server has, when
\* they have been told of it all.
THEOREM ClientsSeeServer == ASSUME TuiConstants, EditorConstants PROVE Spec => []ClientsFollow
<1>1. Spec => []Tui!TypeOK /\ []Tui!ShowsServer
  BY TerminalShowsServer
<1>2. Spec => []Editor!EditorFollows
  BY EditorIsTold
<1>3. Tui!TypeOK /\ Tui!ShowsServer /\ Editor!EditorFollows => ClientsFollow
  BY DEF ClientsFollow
<1> QED BY <1>1, <1>2, <1>3, PTL
=============================================================================
