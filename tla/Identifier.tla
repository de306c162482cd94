----------------------------- MODULE Identifier -----------------------------
(***************************************************************************)
(* id/id.ts and the outputs of tool/truncate.ts that are named with it: an *)
(* id begins with the clock in milliseconds and a counter, packed into as  *)
(* many bits as there are, and cleanup reads the age of a file from there. *)
(*                                                                         *)
(* One process.  What follows the stamp in an id is random: two ids with   *)
(* one stamp have no order.                                                *)
(***************************************************************************)
EXTENDS Integers, Sequences

CONSTANTS
    PerMs,     \* the values of the counter's bits, 0x1000
    Wrap,      \* the milliseconds that fit into the rest of the 48 bits, 2^36
    Retention, \* for how long an output is kept
    MaxNow,    \* bound on the clock
    MaxIds,    \* bound on the ids
    MaxBreaks  \* bound on cleanups and on the clock's being set back

VARIABLES
    now,           \* Date.now()
    lastTimestamp,
    counter,
    made,          \* the ids in the order in which they were made
    outputs,       \* those of them that name a file of the truncation directory
    breaks         \* how often another time than a later one was asked for

idvars == <<now, lastTimestamp, counter, made, outputs, breaks>>

Range == Wrap * PerMs

Init ==
    /\ now \in Retention..MaxNow
    /\ lastTimestamp = 0 /\ counter = 0
    /\ made = <<>> /\ outputs = {} /\ breaks = 0

-----------------------------------------------------------------------------
(* create, timestamp *)

\* Mutant: the counter begins again with every id.
CountFresh(t) == 1

Count(t) == IF t = lastTimestamp THEN counter + 1 ELSE 1

\* The lower 48 bits, and their complement in a descending id.
Encode(t, count) == (t * PerMs + count) % Range
Complement(stamp) == Range - 1 - stamp

Timestamp(stamp) == stamp \div PerMs

Create(t) == lastTimestamp' = t /\ counter' = Count(t)

Id(direction) ==
    LET stamp == Encode(now, Count(now))
    IN [direction |-> direction, at |-> now, count |-> Count(now), breaks |-> breaks,
        stamp |-> IF direction = "descending" THEN Complement(stamp) ELSE stamp]

Generate(direction) ==
    /\ Len(made) < MaxIds
    /\ Create(now)
    /\ made' = Append(made, Id(direction))
    /\ UNCHANGED <<now, outputs, breaks>>

-----------------------------------------------------------------------------
(* tool/truncate.ts *)

Write ==
    /\ Len(made) < MaxIds
    /\ Create(now)
    /\ made' = Append(made, Id("ascending"))
    /\ outputs' = outputs \cup {Id("ascending")}
    /\ UNCHANGED <<now, breaks>>

\* Mutant: the whole stamp is compared.
ExpiredWhole(file, cutoff) == file.stamp < cutoff

Expired(file, cutoff) == Timestamp(file.stamp) < cutoff

\* The cutoff is the time of an id that is made for it, with the state of all ids.
Cleanup ==
    /\ breaks < MaxBreaks
    /\ LET t == now - Retention
           cutoff == Timestamp(Encode(t, Count(t)))
       IN /\ Create(t)
          /\ outputs' = {file \in outputs : ~Expired(file, cutoff)}
    /\ breaks' = breaks + 1
    /\ UNCHANGED <<now, made>>

-----------------------------------------------------------------------------
(* The clock, which may be set back *)

Tick == now < MaxNow /\ now' = now + 1 /\ UNCHANGED <<lastTimestamp, counter, made, outputs, breaks>>

SetBack ==
    /\ breaks < MaxBreaks /\ now > Retention
    /\ now' = now - 1 /\ breaks' = breaks + 1
    /\ UNCHANGED <<lastTimestamp, counter, made, outputs>>

Next ==
    \/ (\E direction \in {"ascending", "descending"} : Generate(direction))
    \/ Write \/ Cleanup \/ Tick \/ SetBack

Spec == Init /\ [][Next]_idvars

-----------------------------------------------------------------------------
(* Properties *)

TypeOK ==
    /\ now \in 0..MaxNow /\ lastTimestamp \in 0..MaxNow /\ counter \in 0..MaxIds + MaxBreaks
    /\ made \in Seq([direction : {"ascending", "descending"}, at : 0..MaxNow, count : 1..MaxIds + MaxBreaks,
                     breaks : 0..MaxBreaks, stamp : 0..Range - 1])
    /\ outputs \subseteq {made[i] : i \in DOMAIN made}

\* How often the bits have run over when an id was made.
Lap(id) == (id.at * PerMs + id.count) \div Range

\* Two ids of one direction made one after the other, in a millisecond each or in
\* one in which nothing asked for another time.
Comparable(i, j) ==
    /\ i.direction = j.direction /\ Lap(i) = Lap(j) /\ i.count <= PerMs
    /\ i.at < j.at \/ (i.at = j.at /\ i.breaks = j.breaks)

\* Ids rise, or fall, in the order in which they are made: up to PerMs of them in a
\* millisecond, over cleanups and after the clock was set back.
IdsOrdered ==
    [][\A i \in DOMAIN made :
          LET new == made'[Len(made')]
          IN  made' # made /\ Comparable(made[i], new) =>
                  IF new.direction = "ascending" THEN made[i].stamp < new.stamp ELSE made[i].stamp > new.stamp]_idvars

\* Cleanup removes what is older than the retention and nothing else, to the
\* millisecond into which the counter may run over, while the bits do not run over.
RetentionKept ==
    [][LET limit == [at |-> now - Retention, count |-> Count(now - Retention)]
       IN  Cleanup => \A output \in outputs :
              Lap(output) = Lap(limit) /\ output.count <= PerMs /\ limit.count <= PerMs =>
                  /\ output.at > limit.at => output \in outputs'
                  /\ output.at + 1 < limit.at => output \notin outputs']_idvars

\* The stamps of ids tell their order and their age.
StampsTell == []TypeOK /\ IdsOrdered /\ RetentionKept

\* Cleanup keeps every output that is not older than the retention.
RecentKept == [][Cleanup => \A file \in outputs : file.at >= now - Retention => file \in outputs']_idvars
=============================================================================
