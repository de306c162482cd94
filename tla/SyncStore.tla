------------------------------ MODULE SyncStore ------------------------------
(***************************************************************************)
(* The events of one session in the database that several processes of     *)
(* the program share: run, replay and remove of sync/index.ts, with the    *)
(* transactions and effects of storage/db.ts.                              *)
(*                                                                         *)
(* run reads and writes in one immediate transaction, which SQLite puts in *)
(* line with the others; replay reads before its transaction.  Events that *)
(* are replayed come from one remote log, to every process.                *)
(***************************************************************************)
EXTENDS Integers, Sequences

CONSTANTS
    Processes,
    MaxSeq     \* a bound

VARIABLES
    ops,      \* what the processes do: run, replay, remove; did they remove?
    sequence, \* the row of event_sequence, -1 if there is none
    events,   \* the rows of event: who made it and its number
    at,       \* where each process is
    doing,    \* the event it is about
    published \* what each process has told its clients

stvars == <<ops, sequence, events, at, doing, published>>

Events == [by : Processes \cup {"remote"}, seq : 0..MaxSeq]
NoEvent == [by |-> "nobody", seq |-> -1]

Init ==
    /\ ops \in SUBSET {"run", "replay", "remove"}
    /\ sequence = -1 /\ events = {}
    /\ at = [p \in Processes |-> "idle"]
    /\ doing = [p \in Processes |-> NoEvent]
    /\ published = [p \in Processes |-> <<>>]

-----------------------------------------------------------------------------
\* process: the rows, and the effect that is run after the commit.  The id is the
\* primary key.
Store(p, e) ==
    /\ e \notin events
    /\ events' = events \cup {e}
    /\ sequence' = e.seq
    /\ at' = [at EXCEPT ![p] = "committed"]
    /\ doing' = [doing EXCEPT ![p] = e]

\* Mutant: the number was read before the transaction.
RunStale(p) ==
    /\ at[p] = "idle" /\ "run" \in ops /\ sequence < MaxSeq
    /\ \E s \in {sequence, sequence - 1} : s >= -1 /\ Store(p, [by |-> p, seq |-> s + 1])
    /\ UNCHANGED <<ops, published>>

Run(p) ==
    /\ at[p] = "idle" /\ "run" \in ops /\ sequence < MaxSeq
    /\ Store(p, [by |-> p, seq |-> sequence + 1])
    /\ UNCHANGED <<ops, published>>

\* replay: an event that is stored is left out, one that is ahead is refused.
ReplayRead(p, n) ==
    /\ at[p] = "idle" /\ "replay" \in ops
    /\ n = sequence + 1
    /\ at' = [at EXCEPT ![p] = "replaying"]
    /\ doing' = [doing EXCEPT ![p] = [by |-> "remote", seq |-> n]]
    /\ UNCHANGED <<ops, sequence, events, published>>

ReplayStore(p) ==
    /\ at[p] = "replaying"
    /\ Store(p, doing[p])
    /\ UNCHANGED <<ops, published>>

\* Mutant: the effects run although the transaction was rolled back.
ReplayConflictsTold(p) ==
    /\ at[p] = "replaying"
    /\ doing[p] \in events
    /\ at' = [at EXCEPT ![p] = "committed"]
    /\ UNCHANGED <<ops, sequence, events, doing, published>>

\* The id is there already: the transaction fails and is rolled back.
ReplayConflicts(p) ==
    /\ at[p] = "replaying"
    /\ doing[p] \in events
    /\ at' = [at EXCEPT ![p] = "idle"]
    /\ UNCHANGED <<ops, sequence, events, doing, published>>

\* The effects: the clients of the process are told.
Publish(p) ==
    /\ at[p] = "committed"
    /\ at' = [at EXCEPT ![p] = "idle"]
    /\ published' = [published EXCEPT ![p] = Append(@, doing[p])]
    /\ UNCHANGED <<ops, sequence, events, doing>>

\* The session is deleted, once.
RemoveSession(p) ==
    /\ at[p] = "idle" /\ "remove" \in ops /\ events # {}
    /\ events' = {} /\ sequence' = -1
    /\ ops' = (ops \ {"remove"}) \cup {"removed"}
    /\ UNCHANGED <<at, doing, published>>

\* A process that dies takes no more steps.
Next ==
    \/ \E p \in Processes : Run(p) \/ ReplayStore(p) \/ ReplayConflicts(p) \/ Publish(p) \/ RemoveSession(p)
    \/ \E p \in Processes, n \in 0..MaxSeq : ReplayRead(p, n)

Spec == Init /\ [][Next]_stvars

-----------------------------------------------------------------------------
(* Properties *)

TypeOK ==
    /\ sequence \in -1..MaxSeq
    /\ events \subseteq Events /\ doing \in [Processes -> Events \cup {NoEvent}]
    /\ published \in [Processes -> Seq(Events)]
    /\ at \in [Processes -> {"idle", "replaying", "committed"}]

\* The rows are the numbers from 0 to that of event_sequence, each once.
IsSequence ==
    /\ {e.seq : e \in events} = 0..sequence
    /\ \A e, f \in events : e.seq = f.seq => e = f

\* So they are when the processes only replay, or never do.
OneKindIsSequence == ("replay" \notin ops \/ ops = {"replay"}) => IsSequence

\* No event is told twice by the processes that share the database, or before it is
\* stored.
ToldOnce ==
    ops \cap {"remove", "removed"} = {} =>
        /\ \A p \in Processes : \A i \in DOMAIN published[p] : published[p][i] \in events
        /\ \A p, q \in Processes : \A i \in DOMAIN published[p], j \in DOMAIN published[q] :
              published[p][i] = published[q][j] => p = q /\ i = j

\* Wanted, but does not hold:
\* Whatever the processes do.
AlwaysSequence == IsSequence

\* The rows of a session are its events in order, each told once.
RowsInOrder == TypeOK /\ OneKindIsSequence /\ ToldOnce
=============================================================================
