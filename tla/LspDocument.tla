---------------------------- MODULE LspDocument ----------------------------
(***************************************************************************)
(* One file and one language server: touchFile of lsp/lsp.ts with          *)
(* notify.open and waitForFreshPush of lsp/client.ts.  Tools touch a file  *)
(* that they read or write, several at once.                               *)
(*                                                                         *)
(* A content of the file is the number of the write that made it.  Left    *)
(* out: servers that are asked for their diagnostics.                      *)
(***************************************************************************)
EXTENDS Integers, Sequences

CONSTANTS
    Touches,    \* the calls of touchFile
    NoDocument, \* files[path] is undefined; the server has no such document
    MaxContents, MaxPushes \* bounds: writes of the file, pushes of the server

VARIABLES
    content,    \* the file
    touch,      \* each call: where it is, what it has read, the document it has seen, its version
    document,   \* files[path]
    wire,       \* notifications on their way to the server
    served,     \* the document as the server has it
    confused,   \* the server got an open too many or a version that is no newer
    versioned,  \* does the server name the version it has looked at?
    pushes,
    published,  \* the version of the last push, -1 if there is none
    diagnosed,  \* the content that the last push was about, -1 for none
    overlapped  \* two calls were in notify.open at once

dvars == <<content, touch, document, wire, served, confused, versioned, pushes, published, diagnosed, overlapped>>

Opening == {t \in Touches : touch[t].at \in {"read", "change", "open", "opened"}}

Init ==
    /\ content = 1
    /\ touch = [t \in Touches |-> [at |-> "new", text |-> 0, seen |-> NoDocument, version |-> -1,
                                   pushed |-> FALSE, got |-> -1]]
    /\ document = NoDocument
    /\ wire = <<>> /\ served = NoDocument /\ confused = FALSE
    /\ versioned \in BOOLEAN
    /\ pushes = 0 /\ published = -1 /\ diagnosed = -1
    /\ overlapped = FALSE

WriteFile ==
    /\ content < MaxContents
    /\ content' = content + 1
    /\ UNCHANGED <<touch, document, wire, served, confused, versioned, pushes, published, diagnosed, overlapped>>

-----------------------------------------------------------------------------
(* notify.open *)

\* The file is read.
ReadText(t) ==
    /\ touch[t].at = "new"
    /\ touch' = [touch EXCEPT ![t].at = "read", ![t].text = content]
    /\ overlapped' = (overlapped \/ Opening # {})
    /\ UNCHANGED <<content, document, wire, served, confused, versioned, pushes, published, diagnosed>>

\* files[path] is looked at, and the server is told to watch.
Look(t) ==
    /\ touch[t].at = "read"
    /\ touch' = [touch EXCEPT ![t].at = IF document = NoDocument THEN "open" ELSE "change", ![t].seen = document]
    /\ UNCHANGED <<content, document, wire, served, confused, versioned, pushes, published, diagnosed, overlapped>>

Notification(type, text, version) == [type |-> type, text |-> text, version |-> version]

\* Mutant: the document keeps its version.
NextVersionSame(t) == touch[t].seen.version

NextVersion(t) == touch[t].seen.version + 1

DidChange(t) ==
    /\ touch[t].at = "change"
    /\ document' = [version |-> NextVersion(t), text |-> touch[t].text]
    /\ wire' = Append(wire, Notification("change", touch[t].text, NextVersion(t)))
    /\ touch' = [touch EXCEPT ![t].at = "waiting", ![t].version = NextVersion(t)]
    /\ UNCHANGED <<content, served, confused, versioned, pushes, published, diagnosed, overlapped>>

\* The diagnostics of the file are forgotten.
DidOpen(t) ==
    /\ touch[t].at = "open"
    /\ diagnosed' = -1
    /\ wire' = Append(wire, Notification("open", touch[t].text, 0))
    /\ touch' = [touch EXCEPT ![t].at = "opened"]
    /\ UNCHANGED <<content, document, served, confused, versioned, pushes, published, overlapped>>

Opened(t) ==
    /\ touch[t].at = "opened"
    /\ document' = [version |-> 0, text |-> touch[t].text]
    /\ touch' = [touch EXCEPT ![t].at = "waiting", ![t].version = 0]
    /\ UNCHANGED <<content, wire, served, confused, versioned, pushes, published, diagnosed, overlapped>>

-----------------------------------------------------------------------------
(* The server *)

Receive ==
    /\ wire # <<>>
    /\ LET n == Head(wire) IN
       /\ served' = [version |-> n.version, text |-> n.text]
       /\ confused' = (confused \/ IF n.type = "open" THEN served # NoDocument
                                   ELSE served = NoDocument \/ n.version <= served.version)
    /\ wire' = Tail(wire)
    /\ UNCHANGED <<content, touch, document, versioned, pushes, published, diagnosed, overlapped>>

\* publishDiagnostics; files[path] may not be set yet.
Push ==
    /\ pushes < MaxPushes /\ served # NoDocument
    /\ pushes' = pushes + 1
    /\ published' = IF versioned THEN served.version ELSE -1
    /\ diagnosed' = served.text
    /\ touch' = [t \in Touches |-> IF touch[t].at = "new" THEN touch[t] ELSE [touch[t] EXCEPT !.pushed = TRUE]]
    /\ UNCHANGED <<content, document, wire, served, confused, versioned, overlapped>>

-----------------------------------------------------------------------------
(* waitForFreshPush *)

\* Mutant: a push of any version will do.
FreshSince(t) == touch[t].pushed

\* A push of the version, or, of a server that names none, one since the call began.
Fresh(t) == IF published = -1 THEN touch[t].pushed ELSE published = touch[t].version

\* Such a push sets, or sets back, the timer of the debounce.
Schedule(t) ==
    /\ touch[t].at = "waiting"
    /\ Fresh(t)
    /\ touch' = [touch EXCEPT ![t].at = "debouncing"]
    /\ UNCHANGED <<content, document, wire, served, confused, versioned, pushes, published, diagnosed, overlapped>>

\* By then another push may have come.
Pushed(t) ==
    /\ touch[t].at = "debouncing"
    /\ touch' = [touch EXCEPT ![t].at = "pushed", ![t].got = diagnosed]
    /\ UNCHANGED <<content, document, wire, served, confused, versioned, pushes, published, diagnosed, overlapped>>

\* Mutant: only a server that has been heard of is given up.
TimeoutHeard(t) ==
    /\ touch[t].at = "waiting" /\ touch[t].pushed
    /\ touch' = [touch EXCEPT ![t].at = "timeout"]
    /\ UNCHANGED <<content, document, wire, served, confused, versioned, pushes, published, diagnosed, overlapped>>

Timeout(t) ==
    /\ touch[t].at \in {"waiting", "debouncing"}
    /\ touch' = [touch EXCEPT ![t].at = "timeout"]
    /\ UNCHANGED <<content, document, wire, served, confused, versioned, pushes, published, diagnosed, overlapped>>

GoesOn == \E t \in Touches : Look(t) \/ DidChange(t) \/ DidOpen(t) \/ Opened(t) \/ Schedule(t) \/ Pushed(t) \/ Timeout(t)

Next ==
    \/ WriteFile \/ Receive \/ Push
    \/ \E t \in Touches : ReadText(t)
    \/ GoesOn

\* The calls go on; nothing is assumed of the server.
Spec == Init /\ [][Next]_dvars /\ WF_dvars(GoesOn)

-----------------------------------------------------------------------------
(* Properties *)

TypeOK ==
    /\ content \in 1..MaxContents /\ diagnosed \in -1..MaxContents
    /\ \A t \in Touches : touch[t].at \in {"new", "read", "change", "open", "opened", "waiting", "debouncing", "pushed", "timeout"}
    /\ confused \in BOOLEAN /\ overlapped \in BOOLEAN

\* Calls that do not overlap open the document once and number its versions upwards.
InStep == ~overlapped => ~confused

\* The diagnostics a tool reports, if the server has sent them in time and names
\* its versions, are about what the tool has read, or newer.
Diagnosed == versioned /\ ~overlapped => \A t \in Touches : touch[t].at = "pushed" => touch[t].got >= touch[t].text

\* A tool that has touched a file has gone on, whatever the server does.  It comes to that
\* again and again: EverythingEnds of MCServices.
NobodyWaits == \A t \in Touches : touch[t].at \in {"new", "pushed", "timeout"}

\* Wanted, but does not hold:
\* However calls overlap, the server is told of one open and of versions upwards.
AlwaysInStep == ~confused

\* The server and the tools speak of the same text.
DocumentInStep == TypeOK /\ InStep /\ Diagnosed
=============================================================================
